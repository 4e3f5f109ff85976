--------------------------- MODULE GameServiceMC ---------------------------
(***************************************************************************)
(* Small instances of GameService with its replay validator, for TLC.      *)
(* Identifiers are random UUIDs that the service only compares for         *)
(* equality; the instances rank them and let each be first used in its     *)
(* turn, which keeps one representative of every class of renamings.       *)
(***************************************************************************)
EXTENDS ActionReplay

CONSTANTS
  Choosing,        \* bound: the side whose choices are explored, after the first move
  MaxHanded,       \* bound: how many invitations and grants are issued
  MaxExpired       \* bound: how many sessions, invitations and grants expire

Ranking(ids) ==
  CHOOSE rank \in [ids -> 1..Cardinality(ids)] :
    \A x, y \in ids : rank[x] = rank[y] => x = y

BindingRank == Ranking(BindingId)
InvitationRank == Ranking(InvitationId)
GrantRank == Ranking(GrantId)
SessionRank == Ranking(Session)
CommandRank == Ranking(CommandId)

InTurn(rank, used) ==
  \A x \in used : \A y \in DOMAIN rank : rank[y] < rank[x] => y \in used

FreshInTurn ==
  /\ InTurn(BindingRank, {b \in BindingId : bindings'[b].status # "none"})
  /\ InTurn(InvitationRank, {i \in InvitationId : invitations'[i].issued})
  /\ InTurn(GrantRank, {g \in GrantId : grants'[g].issued})
  /\ InTurn(SessionRank, {s \in Session : sessions'[s] # "none"})
  /\ InTurn(CommandRank, {c \in CommandId : commandResults'[c] # 0 \/ hostCommandResults'[c] # 0})

Bounds ==
  /\ FreshInTurn
  /\ Cardinality({i \in InvitationId : invitations'[i].issued})
       + Cardinality({g \in GrantId : grants'[g].issued}) <= MaxHanded
  /\ pendingChoice' # {} => pendingChoice' = {Choosing} /\ version' = 1
  /\ Cardinality({s \in Session : sessions'[s] = "expired"})
       + Cardinality({i \in InvitationId : invitations'[i].expired})
       + Cardinality({g \in GrantId : grants'[g].expired}) <= MaxExpired

=============================================================================
