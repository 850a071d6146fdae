----------------------------- MODULE SharedState ----------------------------
(***************************************************************************)
(* What the synchronisation of a principal promises, without frames, ids   *)
(* or connections: one store of keys and values, and clients that follow   *)
(* it.  A client that follows sees every key take on the values the server *)
(* gave it, in the server's order; between two of them it may see the key  *)
(* missing.  What it is yet to see ends in the server's present value.     *)
(***************************************************************************)
EXTENDS Naturals, SequencesExt

CONSTANTS Keys, Values, Absent, Clients

VARIABLES
    store,      \* the value of every key at the server, or Absent
    following,  \* the clients that follow
    ahead       \* ahead[c][k]: what c shows for k, from now on

sharedVars == <<store, following, ahead>>

NotFollowing == [k \in Keys |-> << >>]

SharedInit ==
    /\ store = [k \in Keys |-> Absent]
    /\ following = {}
    /\ ahead = [c \in Clients |-> NotFollowing]

(* What was to be seen is still to be seen, and after it nothing but the   *)
(* same value again or values of V.                                        *)
Grows(old, new, V) ==
    /\ IsPrefix(old, new)
    /\ ToSet(SubSeq(new, Len(old) + 1, Len(new))) \subseteq V \cup {Last(old)}

UpToDate(c) == \A k \in Keys : ahead'[c][k] # << >> /\ Last(ahead'[c][k]) = store'[k]

(* Clients that follow are up to date; those that do not have no view.     *)
Promise ==
    /\ \A c \in following' : UpToDate(c)
    /\ \A c \in Clients \ following' : ahead'[c] = NotFollowing

(* The server gives k the value v, or removes k: v = Absent.  Clients may  *)
(* begin to follow with that, or cease to.                                 *)
Write(k, v) ==
    /\ store' = [store EXCEPT ![k] = v]
    /\ Promise
    /\ \A c \in following \cap following', j \in Keys :
          Grows(ahead[c][j], ahead'[c][j], IF j = k THEN {Absent, v} ELSE {})

(* The server removes all keys.                                            *)
WriteNone ==
    /\ store' = [k \in Keys |-> Absent]
    /\ Promise
    /\ \A c \in following \cap following', k \in Keys :
          Grows(ahead[c][k], ahead'[c][k], {Absent})

OnlyClient(c) ==
    /\ UNCHANGED store
    /\ \A d \in Clients \ {c} :
          ahead'[d] = ahead[d] /\ (d \in following' <=> d \in following)
    /\ Promise

(* A client sees the next value of some of its keys.                       *)
See(c) ==
    /\ OnlyClient(c)
    /\ c \in following /\ c \in following'
    /\ \A k \in Keys : ahead'[c][k] \in {ahead[c][k], Tail(ahead[c][k])}

Follow(c) == OnlyClient(c) /\ c \in following' \ following
Leave(c)  == OnlyClient(c) /\ c \in following \ following'

SharedNext ==
    \/ \E k \in Keys, v \in Values \cup {Absent} : Write(k, v)
    \/ WriteNone
    \/ \E c \in Clients : See(c) \/ Follow(c) \/ Leave(c)

SharedSpec == SharedInit /\ [][SharedNext]_sharedVars
=============================================================================
