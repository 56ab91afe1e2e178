--------------------------- MODULE MCMarketplace ---------------------------
\* One entry is reached by its address and asks for a key; another can only be started
\* by uvx, which is not installed.  The user's own file has a
\* server that is forbidden here and one that is also on this machine.
EXTENDS Marketplace, TLC
CONSTANTS x, y, p, q, hub

Declared == {[key |-> "key", required |-> TRUE, default |-> FALSE],
             [key |-> "region", required |-> TRUE, default |-> TRUE]}
Descriptions ==
  p :> [config |-> "modelscope", url |-> "address", remote |-> TRUE, command |-> "none", fields |-> Declared]
  @@ q :> [config |-> "registry", url |-> "none", remote |-> FALSE, command |-> "uvx", fields |-> {}]
Names == p :> x @@ q :> x @@ hub :> x
UserFile == <<[id |-> x, conn |-> "banned", secret |-> "none", enabled |-> TRUE],
              [id |-> y, conn |-> "manual", secret |-> "none", enabled |-> TRUE]>>
Banned == {"banned"}
Nothing == {}
=============================================================================
