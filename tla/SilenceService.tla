--------------------------- MODULE SilenceService ---------------------------
(***************************************************************************)
(* What the tools promise an agent, without the pipeline that keeps the    *)
(* promise: an order is placed, may take effect at any time from then on - *)
(* also after it has been answered "failed" - and is answered once.  It    *)
(* takes effect once, and once more each time that it is redirected as it  *)
(* is.  It may also be turned away, by a redirect that makes it a mere     *)
(* question: from then on it takes no effect, and its answer tells nothing.*)
(* Orders for a silence take effect only where writing is allowed, and     *)
(* those that are not turned away are answered "done" only when they have. *)
(***************************************************************************)
EXTENDS Naturals

CONSTANTS
    Clients,     \* who places an order, one each
    Repeats,     \* how often an order may be redirected
    Orders,      \* records with fields kind, ds, body and id
    Writable,    \* the datasources whose silences may be changed
    Initially    \* the silences there are at first

\* The kinds of order: "create" and "delete" change silences, "read" does not.
Kinds == {"create", "delete", "read"}

VARIABLES order, phase, silences, turned

vars == <<order, phase, silences, turned>>

Place(c, o) ==
    /\ phase[c] = "idle"
    /\ phase' = [phase EXCEPT ![c] = "open"]
    /\ order' = [order EXCEPT ![c] = o]
    /\ UNCHANGED <<silences, turned>>

\* A silence is named for the client that ordered it and the repetition.
IdsOf(c) == {c} \X (0 .. Repeats)

Created(c) ==
    \E s \in silences :
        s.id \in IdsOf(c) /\ s.ds = order[c].ds /\ s.body = order[c].body

Deleted(c) ==
    /\ \E s \in silences : s.id = order[c].id /\ s.ds = order[c].ds /\ ~ s.active
    /\ \A s \in silences : s.id = order[c].id /\ s.ds = order[c].ds => ~ s.active

InEffect(c) ==
    CASE order[c].kind = "create" -> Created(c)
      [] order[c].kind = "delete" -> Deleted(c)
      [] OTHER -> TRUE

TakeEffect(c) ==
    /\ phase[c] # "idle"
    /\ order[c].ds \in Writable
    /\ c \notin turned
    /\ \/ /\ order[c].kind = "create"
          /\ \E name \in IdsOf(c) :
               /\ \A s \in silences : s.id # name
               /\ silences' = silences \cup
                    {[id |-> name, ds |-> order[c].ds, body |-> order[c].body, active |-> TRUE]}
       \/ /\ order[c].kind = "delete"
          /\ \E s \in silences :
               /\ s.id = order[c].id /\ s.ds = order[c].ds /\ s.active
               /\ silences' = (silences \ {s}) \cup {[s EXCEPT !.active = FALSE]}
    /\ UNCHANGED <<order, phase, turned>>

TurnAway(c) ==
    /\ phase[c] = "open"
    /\ turned' = turned \cup {c}
    /\ UNCHANGED <<order, phase, silences>>

Answer(c) ==
    /\ phase[c] = "open"
    /\ \/ /\ InEffect(c) \/ c \in turned
          /\ phase' = [phase EXCEPT ![c] = "done"]
       \/ phase' = [phase EXCEPT ![c] = "failed"]
    /\ UNCHANGED <<order, silences, turned>>

Init ==
    /\ phase = [c \in Clients |-> "idle"]
    /\ order \in [Clients -> Orders]
    /\ silences = Initially
    /\ turned = {}

Next ==
    \E c \in Clients :
        \/ \E o \in Orders : Place(c, o)
        \/ TakeEffect(c)
        \/ TurnAway(c)
        \/ Answer(c)

Spec == Init /\ [][Next]_vars

=============================================================================
