------------------------------ MODULE Bodies -------------------------------
(***************************************************************************)
(* One reading call after the backend has answered 2xx: the body arrives   *)
(* while the decoders of logsql, promapi and alertmanager read it, and the *)
(* formatters print what they have made of it.  The backend may end the    *)
(* body, break off, or keep it open; a client with a timeout then breaks   *)
(* off.                                                                    *)
(*                                                                         *)
(* A line is a line for logsql, an item of the one JSON document for the   *)
(* others; only its kind matters.  A bufio.Scanner hands out what it has   *)
(* before it speaks of an error, and a torn last line too: that one is not *)
(* JSON.  The fields of a record are left out, so is which of several      *)
(* strings stands for one without a "value": that is up to a map's order.  *)
(* A reply of an Alertmanager that is complete when the connection breaks  *)
(* counts as ended: its client does not notice.                            *)
(***************************************************************************)
EXTENDS FiniteSets, Integers, Sequences

CONSTANTS
    DefaultLimit,    \* the limit of a log query that asks for none,
    MaxLimit,        \* and the highest, that of the lists too
    MaxRows,         \* how many items of a list are printed
    AskedLimits,     \* the limits that agents ask for
    MaxLines         \* bound: how many lines a backend sends

ASSUME BodiesAssumption ==
    /\ {DefaultLimit, MaxLimit, MaxRows, MaxLines} \subseteq Nat \ {0}
    /\ DefaultLimit <= MaxLimit
    /\ AskedLimits \subseteq Int

\* What is read.  Of VictoriaLogs log lines, a list of names or values, one JSON
\* document; of Prometheus the data of an envelope; of an Alertmanager a listing
\* of alerts or silences or one of groups or receivers, single objects included.
Lines      == {"query", "list"}
AMDecoders == {"listing", "groups"}
Whole      == {"data"} \cup AMDecoders
Decoders   == Lines \cup {"document"} \cup Whole

\* A JSON object with a string in it, one without, one too long for the buffer
\* of the scanner or past the io.LimitReader of the others; nothing but blanks,
\* and one that does not decode.
Kinds   == {"text", "bare", "long", "blank", "junk"}
Records == {"text", "bare", "long"}

VARIABLES
    decoder,   \* what the tool reads
    asked,     \* the limit in its arguments
    bounded,   \* whether the datasource has a timeout
    sent,      \* the lines that have arrived
    body,      \* the response body: "open", at its "eof", or "lost"
    pos,       \* how many lines the decoder has dealt with
    out,       \* where in the body the decoded records stand
    stage      \* "reading", or the handler has "answered" or "failed"

C == INSTANCE ClientDecode

callVars == <<decoder, asked, bounded>>
vars == <<callVars, sent, body, pos, out, stage>>

TypeOK ==
    /\ decoder \in Decoders /\ asked \in AskedLimits /\ bounded \in BOOLEAN
    /\ sent \in Seq(Kinds) /\ Len(sent) <= MaxLines /\ body \in {"open", "eof", "lost"}
    /\ pos \in 0 .. Len(sent)
    /\ out \in Seq(1 .. pos)
    /\ stage \in {"reading", "answered", "failed"}

Init ==
    /\ decoder \in Decoders /\ asked \in AskedLimits /\ bounded \in BOOLEAN
    /\ sent = <<>> /\ body = "open" /\ pos = 0 /\ out = <<>> /\ stage = "reading"

-----------------------------------------------------------------------------

(******************** the body, closed when the query ends *****************)

Send(kind) ==
    /\ stage = "reading" /\ body = "open" /\ Len(sent) < MaxLines
    /\ sent' = Append(sent, kind)
    /\ UNCHANGED <<callVars, body, pos, out, stage>>

Finish ==
    /\ stage = "reading" /\ body = "open"
    /\ body' = "eof"
    /\ UNCHANGED <<callVars, sent, pos, out, stage>>

\* The connection breaks or the client's timeout passes, within a line or not.
Lose ==
    /\ stage = "reading" /\ body = "open"
    /\ body' = "lost"
    /\ sent' \in {sent} \cup (IF Len(sent) < MaxLines THEN {Append(sent, "junk")} ELSE {})
    /\ UNCHANGED <<callVars, pos, out, stage>>

TimesOut == bounded /\ Lose

-----------------------------------------------------------------------------

(******************************* decoding **********************************)

\* Client.Query takes a limit that makes no sense for the nearest that does.
QueryLimit ==
    IF asked <= 0 THEN DefaultLimit ELSE IF asked > MaxLimit THEN MaxLimit ELSE asked

\* The lists leave the limit asked for to the backend; the other clients take all.
Limit ==
    CASE decoder = "query"    -> QueryLimit
      [] decoder = "list"     -> MaxLimit
      [] decoder = "document" -> 1
      [] OTHER                -> MaxLines + 1

\* As if the limit were compared after a record is kept.
BugOneMore == Len(out) > Limit

\* As if the limit were left to the backend.
BugNoLimit == FALSE

Full == Len(out) >= Limit

\* As if sc.Err() were not asked.
BugErrDropped == {"answered"}

\* What becomes of a scanner that has nothing more to hand out.
EndOfLines == IF body = "eof" THEN {"answered"} ELSE {"failed"}

Keep(p) == out' = IF sent[p] \in Records THEN Append(out, p) ELSE out

\* decodeNDJSON calls Scan before it looks at the limit: it waits for one line
\* more than it keeps, and that line or its absence can fail it.  The error of
\* a broken body may show as soon as the last lines of it are in the buffer.
ScanLine ==
    /\ decoder \in Lines /\ stage = "reading" /\ pos < Len(sent)
    /\ \/ /\ sent[pos + 1] = "long"
          /\ stage' = "failed"
          /\ UNCHANGED <<pos, out>>
       \/ /\ sent[pos + 1] # "long" /\ Full
          /\ stage' \in {"answered"} \cup (IF body = "lost" THEN {"failed"} ELSE {})
          /\ UNCHANGED <<pos, out>>
       \/ /\ sent[pos + 1] # "long" /\ ~ Full
          /\ pos' = pos + 1
          /\ Keep(pos + 1)
          /\ UNCHANGED stage
    /\ UNCHANGED <<callVars, sent, body>>

ScanEnd ==
    /\ decoder \in Lines /\ stage = "reading" /\ pos = Len(sent) /\ body # "open"
    /\ stage' \in EndOfLines
    /\ UNCHANGED <<callVars, sent, body, pos, out>>

\* json.Decoder.Decode, for hits and stats: the first value that is not blank.
\* What follows it is not read.
DecodeDocument ==
    /\ decoder = "document" /\ stage = "reading"
    /\ \/ /\ pos < Len(sent)
          /\ pos' = pos + 1
          /\ Keep(pos + 1)
          /\ stage' = IF sent[pos + 1] \in Records THEN "answered"
                      ELSE IF sent[pos + 1] = "junk" THEN "failed" ELSE "reading"
       \/ /\ pos = Len(sent) /\ body # "open"
          /\ stage' = "failed"
          /\ UNCHANGED <<pos, out>>
    /\ UNCHANGED <<callVars, sent, body>>

\* io.ReadAll of promapi.get and alertmanager.do, and what they decode then.  It
\* returns when the body has ended, is lost or goes past the limit.
AllRead == body # "open" \/ \E p \in DOMAIN sent : sent[p] = "long"

TakeItem ==
    /\ decoder \in Whole /\ stage = "reading" /\ AllRead /\ pos < Len(sent)
    /\ IF sent[pos + 1] \in {"junk", "long"}
       THEN stage' = "failed" /\ UNCHANGED <<pos, out>>
       ELSE pos' = pos + 1 /\ Keep(pos + 1) /\ UNCHANGED stage
    /\ UNCHANGED <<callVars, sent, body>>

\* As if promapi did not look at the error of ReadAll either.
BugReadErrorDropped == {"answered", "failed"}

\* An envelope may also say "error", or hold a type of result that is not known.
EndOfData == IF body = "eof" THEN {"answered", "failed"} ELSE {"failed"}

\* alertmanager.do does not look at the error of ReadAll: what has arrived does
\* not decode, but nothing at all is not decoded.
LostUnread == decoder \in AMDecoders /\ body = "lost" /\ sent = <<>>

EndOfListing == IF body = "eof" \/ LostUnread THEN {"answered"} ELSE {"failed"}

ItemsEnd ==
    /\ decoder \in Whole /\ stage = "reading" /\ AllRead /\ pos = Len(sent)
    /\ stage' \in IF decoder = "data" THEN EndOfData ELSE EndOfListing
    /\ UNCHANGED <<callVars, sent, body, pos, out>>

Decode == ScanLine \/ ScanEnd \/ DecodeDocument \/ TakeItem \/ ItemsEnd

-----------------------------------------------------------------------------

(******************************* printing **********************************)

\* The lists that stop at maxRows; formatLogRecords, formatAMGroups and
\* formatReceivers print all they have.
Capped == {"list", "data", "listing"}

\* decodeValuesList leaves out the records without a string.
Prints(p) == decoder = "list" => sent[p] # "bare"
Items     == {i \in DOMAIN out : Prints(out[i])}
Before(i) == {j \in Items : j <= i}

Printed == {out[i] : i \in {i \in Items : decoder \in Capped => Cardinality(Before(i)) <= MaxRows}}

\* truncNote, and the last line of formatRules.
Noted == decoder \in Capped /\ Cardinality(Items) > MaxRows

-----------------------------------------------------------------------------

Next == (\E kind \in Kinds : Send(kind)) \/ Finish \/ Lose \/ Decode

Spec == Init /\ [][Next]_vars

\* The decoder goes on while it can, and a timeout passes in the end.  Nothing
\* makes a backend go on.
FairSpec == Spec /\ WF_vars(Decode) /\ WF_vars(TimesOut)

-----------------------------------------------------------------------------

(****************************** properties *********************************)

\* The decoded records are the first ones of the body: all those among the
\* lines dealt with, each once, in their order, and never more than the limit.
FirstRecords ==
    /\ Len(out) <= Limit
    /\ \A i, j \in DOMAIN out : i < j => out[i] < out[j]
    /\ {out[i] : i \in DOMAIN out} = {p \in 1 .. pos : sent[p] \in Records}

\* An answer that leaves out anything printable in the body has as many records
\* as the limit allows, or a note that says so: a body that breaks off or has a
\* line too long to read never passes for a short result.  The one exception is
\* an Alertmanager whose reply is lost before its first byte.
CutIsTold ==
    stage = "answered" =>
        \/ Len(out) = Limit
        \/ Noted
        \/ LostUnread
        \/ /\ body = "eof"
           /\ {p \in 1 .. Len(sent) : sent[p] \in Records /\ Prints(p)} \subseteq Printed

\* The tools whose replies the decoder reads.
ToolsOf ==
    CASE decoder = "query"    -> {"logs_query"}
      [] decoder = "list"     -> {"logs_field_names", "logs_field_values", "logs_streams"}
      [] decoder = "document" -> {"logs_hits", "logs_stats"}
      [] decoder = "data"     -> C!MetricsTools
      [] OTHER                -> C!AMTools \ C!WriteTools

\* A line that the scanner cannot hold, next, or more than the other clients read.
TooLong ==
    /\ decoder # "document"
    /\ \E p \in DOMAIN sent : sent[p] = "long" /\ (decoder \in Lines => p = pos + 1)

Clean == \A p \in DOMAIN sent : sent[p] \notin {"junk", "long"}

\* How much of what it asks for the client has received: a torn body is whole for
\* a decoder that stops before the tear, and may still fail it.
Received ==
    {part \in C!BodyParts :
        CASE part = "whole" -> body = "eof" \/ Full \/ TooLong
          [] part = "part"  -> body # "eof" /\ sent # <<>>
          [] part = "none"  -> body # "eof" /\ sent = <<>>}

\* Whether that is something the client can decode; the data of an envelope also
\* depends on what the envelope says.
Fits ==
    CASE decoder \in Lines      -> {~ TooLong}
      [] decoder = "document"   -> {Full}
      [] decoder = "data"       -> IF Clean THEN BOOLEAN ELSE {FALSE}
      [] decoder \in AMDecoders -> {Clean}

Replies == {[status |-> "2xx", words |-> {}, fits |-> fits, redirect |-> "none"] : fits \in Fits}

\* Whether a body read step by step ends in an answer or in an error is what
\* ClientDecode says in one step of as much of it as was received.  So the tool
\* calls, which rest on ClientDecode, miss no answer and no error of a reading
\* tool that a body of any kind, torn anywhere, can bring about.  (The text of an
\* error, and so its words, is ClientDecode's alone.)
DecodesAsStated ==
    stage # "reading" =>
        \A tool \in ToolsOf : \E data \in Received, reply \in Replies :
            \E result \in C!Decodings(tool, reply, data) : result.ok = (stage = "answered")

\* The inductive invariant: the type, the records, what has been passed over, and
\* what an answer or an error rests on.
PassedOver ==
    /\ decoder = "document" /\ stage # "answered" => out = <<>>
    /\ decoder \in Whole => \A p \in 1 .. pos : sent[p] \notin {"junk", "long"}

AnswerGrounded ==
    stage = "answered" =>
        /\ \/ decoder \notin Whole /\ Len(out) = Limit
           \/ LostUnread
           \/ decoder # "document" /\ body = "eof" /\ pos = Len(sent)
        /\ decoder \in Lines => ~ TooLong

ErrorGrounded ==
    stage = "failed" =>
        /\ decoder \in AMDecoders => ~ Clean \/ (body = "lost" /\ sent # <<>>)
        /\ decoder \in Lines => TooLong \/ body = "lost"

BodiesInv == TypeOK /\ FirstRecords /\ PassedOver /\ AnswerGrounded /\ ErrorGrounded

\* A call ends once there is a timeout, the body has ended, or there is one
\* record or one byte more than is read, whatever the backend does afterwards.
QueryEnds ==
    (\/ bounded \/ body # "open" \/ \E p \in DOMAIN sent : sent[p] = "long"
     \/ Cardinality({p \in DOMAIN sent : sent[p] \in Records}) > Limit)
        ~> stage # "reading"

=============================================================================
