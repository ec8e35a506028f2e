---------------------------- MODULE KeyRegistry ----------------------------
(***************************************************************************)
(* What the API key manager promises: a registry of keys in which every    *)
(* question is answered at one moment between asking and answer.  Whether  *)
(* a key is stored raw or hashed, and who upgrades the table, is invisible.*)
(***************************************************************************)
CONSTANTS Requests, Ids, NoKey

VARIABLES issued,    \* keys that were handed out
          revoked,   \* keys that were taken back, for good
          expired,   \* keys whose expires_at has passed
          asked,     \* per request: what it asks
          about,     \*   the key it asks about
          answer     \*   what it was told

rvars == <<issued, revoked, expired, asked, about, answer>>

Valid(i) == i \in issued \ (revoked \cup expired)

Tell(r, a) == /\ answer[r] = "pending"
              /\ answer' = [answer EXCEPT ![r] = a]
              /\ asked' = [asked EXCEPT ![r] = "none"]
              /\ about' = [about EXCEPT ![r] = NoKey]

Ask(r, o, i) == /\ answer[r] # "pending"
                /\ asked' = [asked EXCEPT ![r] = o]
                /\ about' = [about EXCEPT ![r] = i]
                /\ answer' = [answer EXCEPT ![r] = "pending"]
                /\ UNCHANGED <<issued, revoked, expired>>

Check(r) == /\ asked[r] = "validate"
            /\ Tell(r, IF Valid(about[r]) THEN "ok" ELSE "refused")
            /\ UNCHANGED <<issued, revoked, expired>>

Issue(r) == /\ asked[r] = "create" /\ Tell(r, "ok")
            /\ about[r] \notin issued /\ issued' = issued \cup {about[r]}
            /\ UNCHANGED <<revoked, expired>>

Revoke(r) == /\ asked[r] \in {"revoke", "revokeKey"}
             /\ Tell(r, IF about[r] \in issued THEN "ok" ELSE "refused")
             /\ revoked' = revoked \cup ({about[r]} \cap issued)
             /\ UNCHANGED <<issued, expired>>

\* A list, or the end of an upgrade of the table.
Report(r) == /\ asked[r] \in {"list", "upgrade"} /\ Tell(r, "ok")
             /\ UNCHANGED <<issued, revoked, expired>>

\* The database could not be used: nothing has changed.
Unavailable(r) == /\ Tell(r, "error") \/ Tell(r, "stopped")
                  /\ UNCHANGED <<issued, revoked, expired>>

\* Whoever asked has taken the answer.
Take(r) == /\ answer[r] # "pending"
           /\ answer' = [answer EXCEPT ![r] = "none"]
           /\ UNCHANGED <<issued, revoked, expired, asked, about>>

Expire(i) == /\ expired' = expired \cup {i}
             /\ UNCHANGED <<issued, revoked, asked, about, answer>>

\* The server dies, and nobody gets an answer.
Die == /\ answer' = [r \in Requests |->
                       IF answer[r] = "pending" THEN "none" ELSE answer[r]]
       /\ asked' = [r \in Requests |-> "none"]
       /\ about' = [r \in Requests |-> NoKey]
       /\ UNCHANGED <<issued, revoked, expired>>

Init == /\ issued \subseteq Ids /\ revoked \subseteq issued /\ expired \subseteq issued
        /\ asked \in [Requests -> {"none"}]
        /\ about \in [Requests -> {NoKey}]
        /\ answer \in [Requests -> {"none"}]

Next == \/ \E r \in Requests :
             \/ \E o \in {"create", "validate", "list", "revokeKey", "revoke", "upgrade"},
                   i \in Ids \cup {NoKey} : Ask(r, o, i)
             \/ Check(r) \/ Issue(r) \/ Revoke(r) \/ Report(r) \/ Unavailable(r) \/ Take(r)
        \/ \E i \in Ids : Expire(i)
        \/ Die

Spec == Init /\ [][Next]_rvars
=============================================================================
