----------------------------- MODULE ModelRouting -----------------------------
(***************************************************************************)
(* Which model answers: llm/registry.py over an environment, which names   *)
(* the credentials there are, the models offered and the models pinned to  *)
(* tasks.  Names of models and providers are the code's.                   *)
(*                                                                         *)
(* An operator right before the definition it resembles, with a qualified  *)
(* name, is a defect the properties must notice.                           *)
(***************************************************************************)
EXTENDS Naturals, SequencesExt

CONSTANT None       \* an unset variable, no model requested, no model found

Tasks == {"chat", "claim_review", "tool", "vision"}
Providers == {"qwen", "openai", "anthropic", "kimi", "deepseek"}
Accounts == (Providers \ {"qwen"}) \cup {"dashscope", "embedding"}

\* _base_profiles, in the order of the code.
Profile(id, provider, capabilities) ==
    [id |-> id, provider |-> provider, capabilities |-> capabilities]

Text == {"text", "tools"}
BuiltIn == <<
    Profile("qwen-plus", "qwen", Text), Profile("qwen-max", "qwen", Text),
    Profile("qwen3.8-max", "qwen", Text), Profile("gpt-5-mini", "openai", Text \cup {"vision"}),
    Profile("claude-sonnet-4", "anthropic", Text \cup {"vision"}),
    Profile("kimi-k2.6", "kimi", Text), Profile("kimi-k3", "kimi", Text),
    Profile("deepseek-v4-pro", "deepseek", Text)>>

Ids(profiles) == {p.id : p \in ToSet(profiles)}

\* The last one, of VISION_MODEL, which users cannot select: not user_selectable.
HasVisionProfile(env) == env.pinned["vision"] # None /\ env.pinned["vision"] \notin Ids(BuiltIn)

BaseProfiles(env) ==
    IF ~HasVisionProfile(env) THEN BuiltIn
    ELSE Append(BuiltIn, [id |-> env.pinned["vision"], provider |-> env.visionProvider,
                          capabilities |-> {"text", "vision"}])

ProfileOf(env, id) == CHOOSE p \in ToSet(BaseProfiles(env)) : p.id = id

\* get_provider_settings, provider_is_configured: Qwen has an account of its own
\* or that of the embeddings, key and URL each from where they are set.
AccountsOf(provider) == IF provider = "qwen" THEN {"dashscope", "embedding"} ELSE {provider}

ProviderIsConfigured(env, provider) ==
    /\ env.keys \cap AccountsOf(provider) # {}
    /\ provider \in {"qwen", "kimi"} => env.urls \cap AccountsOf(provider) # {}

\* The models in their order: CHAT_MODELS, or all a user may select.  An id that
\* is listed twice counts where it comes first.
Listed(env) == IF env.chatModels # <<>> THEN env.chatModels
               ELSE [i \in DOMAIN BuiltIn |-> BuiltIn[i].id]

\* _configured_profile_ids: those of them whose provider can be called.
ConfiguredProfileIds(env) ==
    {id \in ToSet(Listed(env)) : ProviderIsConfigured(env, ProfileOf(env, id).provider)}

FirstOf(s, S) == s[SelectInSeq(s, LAMBDA id : id \in S)]

\* What raises ModelConfigurationError before any model is considered.
IsMisconfigured(env) ==
    \/ HasVisionProfile(env) /\ env.visionProvider \notin Providers \ {"deepseek"}
    \/ ~(ToSet(env.chatModels) \subseteq Ids(BaseProfiles(env)))

\* get_default_chat_model; get_model_options offers the same ids.
DefaultChatModel(env) ==
    LET wanted == IF env.pinned["chat"] = None THEN "qwen-plus" ELSE env.pinned["chat"]
        ids == ConfiguredProfileIds(env)
    IN IF wanted \in ids THEN wanted ELSE FirstOf(Listed(env), ids)

Options(env) == IF IsMisconfigured(env) THEN {} ELSE ConfiguredProfileIds(env)

TaskCapability(task) ==
    CASE task = "tool" -> "tools" [] task = "vision" -> "vision" [] OTHER -> "text"

\* What resolve_model passes over.
FitsIgnoringCapability(env, task, id) ==
    /\ id \in Ids(BaseProfiles(env))
    /\ task = "chat" => id \in Options(env)
    /\ ProviderIsConfigured(env, ProfileOf(env, id).provider)

Fits(env, task, id) ==
    /\ id \in Ids(BaseProfiles(env))
    /\ TaskCapability(task) \in ProfileOf(env, id).capabilities
    /\ task = "chat" => id \in Options(env)
    /\ ProviderIsConfigured(env, ProfileOf(env, id).provider)

\* The user's choice counts in a chat only, before the pinned model; then the
\* default, and what is configured of the list.
CandidatesPinnedFirst(env, requested, task) ==
    <<env.pinned[task], IF task = "chat" THEN requested ELSE None, DefaultChatModel(env)>>
        \o Listed(env)

Candidates(env, requested, task) ==
    <<IF task = "chat" THEN requested ELSE None, env.pinned[task], DefaultChatModel(env)>>
        \o Listed(env)

\* resolve_model: the first that fits, or None for the error it raises.
ResolveModel(env, requested, task) ==
    LET candidates == Candidates(env, requested, task)
        fitting == {id \in ToSet(candidates) : Fits(env, task, id)}
    IN IF IsMisconfigured(env) \/ ConfiguredProfileIds(env) = {} \/ fitting = {} THEN None
       ELSE FirstOf(candidates, fitting)
===============================================================================
