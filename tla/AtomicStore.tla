---------------------------- MODULE AtomicStore ----------------------------
(***************************************************************************)
(* The store contract internal/depot relies on: an object is either whole  *)
(* or absent, and every put takes effect in one instant between its call   *)
(* and its return, or never.  There is no delete and no blind overwrite.   *)
(***************************************************************************)
CONSTANTS Key, Client, Content, Absent, Request, Written, Kept, Refused, Pending, Quiet

VARIABLES
    object,   \* what each key holds
    call,     \* the put each client has under way, or Quiet
    reply     \* what it will be told once it returns, or Pending

vars == <<object, call, reply>>

Init ==
    /\ object = [k \in Key |-> Absent]
    /\ call = [c \in Client |-> Quiet]
    /\ reply = [c \in Client |-> Pending]

Call(c, r) ==
    /\ call[c] = Quiet
    /\ call' = [call EXCEPT ![c] = r]
    /\ UNCHANGED <<object, reply>>

\* A write-once put keeps what is there; a conditional put is refused unless
\* the object is still the one its etag was read from.  The R2 store sends each
\* put as one request with an If-None-Match or If-Match the server decides on.
Effect(r) ==
    CASE r.once /\ object[r.key] # Absent    -> Kept
      [] r.once /\ object[r.key] = Absent    -> Written
      [] ~r.once /\ object[r.key] # r.etag   -> Refused
      [] ~r.once /\ object[r.key] = r.etag   -> Written

Perform(c) ==
    /\ call[c] # Quiet
    /\ reply[c] = Pending
    /\ reply' = [reply EXCEPT ![c] = Effect(call[c])]
    /\ object' = IF Effect(call[c]) = Written
                 THEN [object EXCEPT ![call[c].key] = call[c].content]
                 ELSE object
    /\ UNCHANGED call

\* The answer is delivered, or the caller is gone before or after the effect.
Leave(c) ==
    /\ call[c] # Quiet
    /\ call' = [call EXCEPT ![c] = Quiet]
    /\ reply' = [reply EXCEPT ![c] = Pending]
    /\ UNCHANGED object

Next == \E c \in Client : Perform(c) \/ Leave(c) \/ \E r \in Request : Call(c, r)

Spec == Init /\ [][Next]_vars
=============================================================================
