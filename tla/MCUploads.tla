------------------------------ MODULE MCUploads ------------------------------
(***************************************************************************)
(* Instances of Uploads for TLC: configurations that miss a key or a URL,  *)
(* list models nobody can use, pin one that is not listed or does not see, *)
(* and servers moved between storages.                                     *)
(***************************************************************************)
EXTENDS Uploads, TLC

Pinned(chat, vision) == [task \in Tasks |->
    CASE task = "chat" -> chat [] task = "vision" -> vision [] OTHER -> None]

Configured == [
    keys : {{"dashscope"}, {"embedding", "openai"}, {"openai", "kimi"}},
    urls : {{"embedding"}, {"dashscope", "kimi"}},
    chatModels : {<<>>, <<"kimi-k3", "gpt-5-mini", "qwen-plus">>, <<"qwen-vl", "qwen-max", "qwen-vl">>},
    pinned : {Pinned(chat, vision) : chat \in {None, "kimi-k3"}, vision \in {None, "qwen-vl"}},
    visionProvider : {"qwen"},
    storage : {"local"}, reachable : {{"local"}}]

Moved == [
    keys : {{"openai"}}, urls : {{}}, chatModels : {<<>>}, pinned : {Pinned(None, "kimi-k3")},
    visionProvider : {"deepseek"},
    storage : {"minio", "unknown", "local"}, reachable : {{"s3", "local"}, {"s3"}}]

ConfiguredOrMoved == Configured \cup Moved

Symmetry == Permutations(Images) \cup Permutations(Users)
===============================================================================
