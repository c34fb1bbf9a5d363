---------------------------- MODULE AuthService -----------------------------
(***************************************************************************)
(* What agent authentication promises, without the verifiers that keep the *)
(* promise: a request is accepted in one instant, at which its credential  *)
(* is good, and a good secret is refused only if it moved meanwhile.  An   *)
(* accepted request is served unless its credential has expired by then or *)
(* lacks what is required of all.                                          *)
(***************************************************************************)
CONSTANTS
    Requests,
    Credentials,   \* what a request can present, NoBearer included
    NoBearer,
    Files,         \* the files that hold one secret each,
    Contents,      \* what they may hold,
    FirstContent,  \* and do at first
    Static,        \* whether secrets are accepted at all
    Always,        \* the secrets that are good for ever
    Passes,        \* the credentials that are good until they expire
    Sufficient     \* the credentials with what is required of all

VARIABLES
    content, expired,
    phase,         \* of each request: "new", "open", "accepted", "served", "refused"
    cred,          \* its credential
    kept           \* history: the files that have held its credential ever since

vars == <<content, expired, phase, cred, kept>>

Good(x) ==
    \/ Static /\ (x \in Always \/ \E f \in Files : content[f] = x)
    \/ x \in Passes \ expired

\* Good from the beginning to now, whatever else has happened.
Lasting(r) == Static /\ (cred[r] \in Always \/ kept[r] # {})

Move(r, from, to) == phase[r] = from /\ phase' = [phase EXCEPT ![r] = to]

Present(r, x) ==
    /\ Move(r, "new", IF x = NoBearer THEN "refused" ELSE "open")
    /\ cred' = [cred EXCEPT ![r] = x]
    /\ kept' = [kept EXCEPT ![r] = {f \in Files : content[f] = x}]
    /\ UNCHANGED <<content, expired>>

Accept(r) ==
    /\ Move(r, "open", "accepted")
    /\ Good(cred[r])
    /\ UNCHANGED <<content, expired, cred, kept>>

Refuse(r) ==
    /\ Move(r, "open", "refused")
    /\ ~ Lasting(r)
    /\ UNCHANGED <<content, expired, cred, kept>>

Serve(r) ==
    /\ Move(r, "accepted", "served")
    /\ cred[r] \in Sufficient \ expired
    /\ UNCHANGED <<content, expired, cred, kept>>

Dismiss(r) ==
    /\ Move(r, "accepted", "refused")
    /\ cred[r] \notin Sufficient \ expired
    /\ UNCHANGED <<content, expired, cred, kept>>

Rewrite(f, x) ==
    /\ content' = [content EXCEPT ![f] = x]
    /\ kept' = [r \in Requests |->
                  IF phase[r] \in {"open", "accepted"} THEN kept[r] \ {f} ELSE kept[r]]
    /\ UNCHANGED <<expired, phase, cred>>

Expire(x) ==
    /\ expired' = expired \cup {x}
    /\ UNCHANGED <<content, phase, cred, kept>>

Init ==
    /\ content = FirstContent
    /\ expired = {}
    /\ phase = [r \in Requests |-> "new"]
    /\ cred = [r \in Requests |-> NoBearer]
    /\ kept = [r \in Requests |-> {}]

Next ==
    \/ \E r \in Requests :
        \/ \E x \in Credentials : Present(r, x)
        \/ Accept(r) \/ Refuse(r) \/ Serve(r) \/ Dismiss(r)
    \/ \E f \in Files, x \in Contents : Rewrite(f, x)
    \/ \E x \in Credentials : Expire(x)

Spec == Init /\ [][Next]_vars

=============================================================================
