---------------------------- MODULE PasswordStore ----------------------------
(***************************************************************************)
(* What a user of pwman is promised about the contents of an unlocked      *)
(* vault: a map from entry names to at most one entry, each with at most   *)
(* one TOTP secret.  Every command is requested, takes effect at one       *)
(* instant, the instant of its reply, and the reply says what the map was  *)
(* or became at that instant.  A command may also report a failure, and    *)
(* then it changed nothing; or its process is killed before it reports     *)
(* anything, and then it either took effect in full or not at all.         *)
(*                                                                         *)
(* There are no ids, no tables and no confirmation prompts here; module    *)
(* VaultCommands has them and is checked to implement this specification.  *)
(***************************************************************************)
CONSTANTS
  Proc,      \* the pwman processes that may run at the same time
  Name,      \* entry names
  Data,      \* what an entry holds: its four sealed fields, taken together
  Secret,    \* TOTP secrets
  Nothing    \* the content of a reply that carries none

VARIABLES
  store,     \* store[n]: {} or the singleton of the entry called n
  req,       \* req[p]: the command p is carrying out
  said       \* said[p]: the last reply of p to its user

vars == <<store, req, said>>

Cmd == {"none", "add", "get", "list", "del", "totp_add", "totp_del", "totp"}

Idle == [cmd |-> "none", name |-> Nothing]

Reply(p, kind, what) ==
  /\ req' = [req EXCEPT ![p] = Idle]
  /\ said' = [said EXCEPT ![p] = [kind |-> kind, what |-> what]]

\* A reply that leaves the map as it is.
Answer(p, kind, what) == Reply(p, kind, what) /\ UNCHANGED store

\* A change of what the map holds under the name asked for.  The process may
\* be killed before the user hears of it.
Become(p, es, kind) ==
  /\ store' = [store EXCEPT ![req[p].name] = es]
  /\ \E k \in {kind, "lost"} : Reply(p, k, Nothing)

-----------------------------------------------------------------------------

Init ==
  /\ store = [n \in Name |-> {}]
  /\ req = [p \in Proc |-> Idle]
  /\ said = [p \in Proc |-> [kind |-> "none", what |-> Nothing]]

Request(p, c, n) ==
  /\ req[p] = Idle
  /\ req' = [req EXCEPT ![p] = [cmd |-> c, name |-> n]]
  /\ said' = [said EXCEPT ![p] = [kind |-> "none", what |-> Nothing]]
  /\ UNCHANGED store

Fail(p) ==
  /\ req[p] # Idle
  /\ \E k \in {"failed", "lost"} : Answer(p, k, Nothing)

\* The user typed something the command refuses: an empty name, no secret or
\* an invalid one.
Reject(p) ==
  /\ req[p].cmd \in {"add", "totp_add"}
  /\ Answer(p, "rejected", Nothing)

Decline(p) ==
  /\ req[p].cmd \in {"del", "totp_del"}
  /\ Answer(p, "aborted", Nothing)

\* Every command but list is about one name, and says so when there is
\* nothing under that name for it to work on.
Missing(p) ==
  /\ \/ req[p].cmd \in {"get", "del", "totp_add"} /\ store[req[p].name] = {}
     \/ /\ req[p].cmd \in {"totp_del", "totp"}
        /\ \A e \in store[req[p].name] : e.totp = {}
  /\ Answer(p, "missing", Nothing)

Add(p) ==
  /\ req[p].cmd = "add"
  /\ IF store[req[p].name] = {}
       THEN \E d \in Data : Become(p, {[data |-> d, totp |-> {}]}, "added")
       ELSE Answer(p, "exists", Nothing)

Get(p) ==
  /\ req[p].cmd = "get"
  /\ \E e \in store[req[p].name] : Answer(p, "shown", e.data)

List(p) ==
  /\ req[p].cmd = "list"
  /\ Answer(p, "listed", {n \in Name : store[n] # {}})

Delete(p) ==
  /\ req[p].cmd = "del"
  /\ store[req[p].name] # {}
  /\ Become(p, {}, "deleted")

SetTotp(p) ==
  /\ req[p].cmd = "totp_add"
  /\ \E e \in store[req[p].name] :
       \/ e.totp # {} /\ Answer(p, "configured", Nothing)
       \/ \E s \in Secret : Become(p, {[e EXCEPT !.totp = {s}]}, "set")

RemoveTotp(p) ==
  /\ req[p].cmd = "totp_del"
  /\ \E e \in store[req[p].name] :
       /\ e.totp # {}
       /\ Become(p, {[e EXCEPT !.totp = {}]}, "removed")

ShowTotp(p) ==
  /\ req[p].cmd = "totp"
  /\ \E e \in store[req[p].name] : \E s \in e.totp : Answer(p, "code", s)

Next ==
  \E p \in Proc :
    \/ \E c \in Cmd \ {"none"}, n \in Name : Request(p, c, n)
    \/ Fail(p) \/ Reject(p) \/ Decline(p) \/ Missing(p)
    \/ Add(p) \/ Get(p) \/ List(p) \/ Delete(p)
    \/ SetTotp(p) \/ RemoveTotp(p) \/ ShowTotp(p)

Spec == Init /\ [][Next]_vars
=============================================================================
