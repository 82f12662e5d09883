--------------------------- MODULE DocumentRules ---------------------------
(***************************************************************************)
(* supportagent/claims/document_rules.py: which documents a claim needs,   *)
(* which it has, and which are missing.  A document type stands for all    *)
(* the spellings normalize_document_type maps to it, so a document row is  *)
(* its normalised type and whether its extraction_status is COMPLETED.     *)
(***************************************************************************)

ProductLines == {"unknown", "household", "residential_building", "vehicle",
                 "liability", "legal_expense"}

DocumentTypes == {"claim_form", "damage_photo", "purchase_receipt", "police_report",
                  "repair_estimate", "damage_cause_report", "repair_invoice",
                  "accident_report", "repair_assessment"}

DocumentRows == [type : DocumentTypes, completed : BOOLEAN]

\* One record of the requirement table: document type, level, product line, claim type.
Requirement(document, level, product, kind) ==
    [type |-> document, level |-> level, product |-> product, claimType |-> kind]

DOCUMENT_REQUIREMENTS ==
    {Requirement("claim_form",          "required",    "all", "all"),
     Requirement("damage_photo",        "required",    "all", "all"),
     Requirement("purchase_receipt",    "conditional", "all", "all"),
     Requirement("police_report",       "conditional", "all", "all"),
     Requirement("repair_estimate",     "optional",    "all", "all"),
     Requirement("damage_cause_report", "required",    "residential_building", "water_damage"),
     Requirement("repair_invoice",      "required",    "residential_building", "water_damage"),
     Requirement("accident_report",     "required",    "vehicle", "vehicle_damage"),
     Requirement("repair_assessment",   "required",    "vehicle", "vehicle_damage"),
     Requirement("police_report",       "conditional", "vehicle", "vehicle_damage")}

RequirementsForClaim(product, claimType) ==
    {q \in DOCUMENT_REQUIREMENTS : /\ q.product \in {"all", product}
                                   /\ q.claimType \in {"all", claimType}}

DocumentsAtLevel(product, claimType, level) ==
    {q.type : q \in {s \in RequirementsForClaim(product, claimType) : s.level = level}}

RequiredDocuments(product, claimType) == DocumentsAtLevel(product, claimType, "required")

CompletedDocumentTypes(documents) == {d.type : d \in {e \in documents : e.completed}}

MissingDocuments(product, claimType, documents) ==
    RequiredDocuments(product, claimType) \ CompletedDocumentTypes(documents)
=============================================================================
