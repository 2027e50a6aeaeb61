------------------------------- MODULE ApiKeys -------------------------------
(***************************************************************************)
(* One merchant's API keys (routes/api-keys.ts): creating a key, rotating    *)
(* (insert the new key, then revoke every other one) and revoking one (read  *)
(* its record, then mark it).  Two Mongo calls of one request are two steps, *)
(* between which other requests run, or the process dies.                    *)
(***************************************************************************)
EXTENDS Naturals, FiniteSets

CONSTANTS
  KeyRequest      \* the requests; a request that makes a key names it by itself

VARIABLES
  keys,        \* the key ids in merchant_api_keys
  revoked,     \* those with a revoked_at
  call,        \* call[r]: the step the request is at
  target,      \* target[r]: the key a DELETE names
  deleted,     \* history: keys revoked by a DELETE
  overlapped   \* history: two rotations were under way at the same time

keyVars == <<keys, revoked, call, target, deleted, overlapped>>

ActiveKeys == keys \ revoked

KeysInit ==
  /\ keys = {} /\ revoked = {} /\ deleted = {} /\ overlapped = FALSE
  /\ call = [r \in KeyRequest |-> "idle"] /\ target = [r \in KeyRequest |-> r]

\* Creating without "rotate": one insertOne.
CreateKey(r) ==
  /\ call[r] = "idle"
  /\ keys' = keys \cup {r} /\ call' = [call EXCEPT ![r] = "done"]
  /\ UNCHANGED <<revoked, target, deleted, overlapped>>

\* POST /rotate, or creating with "rotate": insertOne ...
RotateInsert(r) ==
  /\ call[r] = "idle"
  /\ keys' = keys \cup {r} /\ call' = [call EXCEPT ![r] = "rotate"]
  /\ overlapped' = (overlapped \/ \E q \in KeyRequest : call[q] = "rotate")
  /\ UNCHANGED <<revoked, target, deleted>>

\* A rotation whose filter does not leave out its own key.
Mut_RotateRevoke(r) ==
  /\ call[r] = "rotate"
  /\ revoked' = revoked \cup keys /\ call' = [call EXCEPT ![r] = "done"]
  /\ UNCHANGED <<keys, target, deleted, overlapped>>

\* ... then updateMany on every other active key.
RotateRevoke(r) ==
  /\ call[r] = "rotate"
  /\ revoked' = revoked \cup (keys \ {r}) /\ call' = [call EXCEPT ![r] = "done"]
  /\ UNCHANGED <<keys, target, deleted, overlapped>>

\* DELETE /:keyId: findOne - 404 unless it is active - then updateOne.
DeleteFind(r) ==
  /\ call[r] = "idle"
  /\ \E k \in ActiveKeys : target' = [target EXCEPT ![r] = k]
  /\ call' = [call EXCEPT ![r] = "delete"]
  /\ UNCHANGED <<keys, revoked, deleted, overlapped>>

DeleteRevoke(r) ==
  /\ call[r] = "delete"
  /\ revoked' = revoked \cup {target[r]} /\ deleted' = deleted \cup {target[r]}
  /\ call' = [call EXCEPT ![r] = "done"]
  /\ UNCHANGED <<keys, target, overlapped>>

\* The process dies between the two calls of a request.
Abandon(r) ==
  /\ call[r] \in {"rotate", "delete"}
  /\ call' = [call EXCEPT ![r] = "done"]
  /\ UNCHANGED <<keys, revoked, target, deleted, overlapped>>

KeysNext ==
  \E r \in KeyRequest :
    CreateKey(r) \/ RotateInsert(r) \/ RotateRevoke(r) \/ DeleteFind(r) \/ DeleteRevoke(r) \/ Abandon(r)

KeysSpec == KeysInit /\ [][KeysNext]_keyVars

-----------------------------------------------------------------------------
\* A merchant that has had a key is not locked out: rotating leaves an active key
\* even when the process dies half-way or plain creations run in between, unless a
\* DELETE took one away or two rotations overlapped.  (Two that overlap revoke each
\* other's new key, api-keys.ts:255-258, and both callers hold a dead key.)
RotationKeepsAccess ==
  keys # {} /\ deleted = {} /\ ~overlapped => ActiveKeys # {}

\* The inductive invariant behind it: a request that has not begun has no key, only
\* keys that exist are revoked, and the key of the one rotation under way is active.
KeysInv ==
  /\ RotationKeepsAccess
  /\ DOMAIN call = KeyRequest /\ DOMAIN target = KeyRequest
  /\ revoked \subseteq keys
  /\ \A r \in KeyRequest :
       /\ call[r] = "idle" => r \notin keys
       /\ call[r] = "delete" => target[r] \in keys
       /\ call[r] = "rotate" => r \in keys
       /\ call[r] = "rotate" /\ deleted = {} /\ ~overlapped => r \notin revoked
  /\ ~overlapped => \A q, r \in KeyRequest : call[q] = "rotate" /\ call[r] = "rotate" => q = r
=============================================================================
