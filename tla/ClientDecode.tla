---------------------------- MODULE ClientDecode ----------------------------
(***************************************************************************)
(* What the three backend clients make of an HTTP reply: promapi's get,    *)
(* logsql's post with its decoders, alertmanager's do.                     *)
(*                                                                         *)
(* A reply is its status, the words of its body that the classification of *)
(* results looks for, whether the body is one that the client can decode,  *)
(* and whether it is a redirect that net/http follows: one that "rewrites" *)
(* the request into a GET or one that "repeats" it elsewhere.              *)
(* Of the reading of the body only one thing matters: whether the client   *)
(* read the whole of it, a part of it, or nothing, when the connection     *)
(* breaks or the deadline passes meanwhile.  The whole is as much as the   *)
(* client asks for; Bodies has the detail.                                 *)
(***************************************************************************)

Statuses  == {"2xx", "3xx", "4xx", "5xx"}
Redirects == {"rewrites", "repeats"}
BodyParts == {"whole", "part", "none"}

\* The words in an error text that decide the result label of the call.
Words == {"forbidden", "readonly"}

\* The tools that work on one datasource, by the client they use.
MetricsTools == {"metrics_query", "metrics_query_range", "metrics_series",
                 "metrics_labels", "metrics_label_values", "metrics_metadata",
                 "rules_list", "alerts_active", "targets_list"}
LogsTools    == {"logs_query", "logs_hits", "logs_stats", "logs_field_names",
                 "logs_field_values", "logs_streams"}
WriteTools   == {"alertmanager_silence_create", "alertmanager_silence_delete"}
AMTools      == {"alertmanager_alerts", "alertmanager_alert_groups",
                 "alertmanager_silences_list", "alertmanager_silence_get",
                 "alertmanager_status", "alertmanager_receivers"} \cup WriteTools
Tools        == MetricsTools \cup LogsTools \cup AMTools

\* What the handler returns: an answer or an error, why it is an error, the
\* words in its text, and how much of the reply's body an answer rests on.
Answer(data)       == [ok |-> TRUE,  why |-> "none", words |-> {},    data |-> data]
Failed(why, words) == [ok |-> FALSE, why |-> why,    words |-> words, data |-> "none"]

\* Errors that quote a reply: all of it, or no more than the reader or the
\* shortening of the text leaves.
Quoting(why, reply)        == {Failed(why, reply.words)}
QuotingSome(why, reply)    == {Failed(why, words) : words \in SUBSET reply.words}

\* promapi.get: an unread body is an error before anything else; then the
\* envelope decides, whatever the status is.  What is no envelope, or one that
\* says "error", is quoted.
MetricsDecode(reply, data) ==
    IF data # "whole" THEN {Failed("body", {})}
    ELSE IF reply.fits THEN {Answer(data)}
    ELSE QuotingSome("body", reply)

\* logsql.post and its decoders: the status first, quoting the first 4096 bytes
\* that could be read; the scanner's error then fails the whole query.
LogsDecode(reply, data) ==
    IF reply.status # "2xx"
    THEN IF data = "none" THEN {Failed("status", {})} ELSE QuotingSome("status", reply)
    ELSE IF data = "whole" /\ reply.fits THEN {Answer(data)} ELSE {Failed("body", {})}

\* As if a delete took "not found" for "already deleted".
BugGoneIsDeleted(tool, reply, data) ==
    IF reply.status \in {"3xx", "5xx"}
         \/ (reply.status = "4xx" /\ tool # "alertmanager_silence_delete")
    THEN {Failed("status", {})}
    ELSE {Answer(data)}

\* As if the status were not looked at once a reply has come.
BugStatusIgnored(tool, reply, data) == {Answer(data)}

\* alertmanager.do: the error of reading the body is dropped.  Another status
\* than 2xx is an error that quotes what was read.  With a 2xx an incomplete
\* document fails to decode, but an empty one is not decoded at all and neither
\* is the body of a delete, which has no out value.
AMDecode(tool, reply, data) ==
    IF reply.status # "2xx"
    THEN CASE data = "whole" -> Quoting("status", reply)
           [] data = "part"  -> QuotingSome("status", reply)
           [] data = "none"  -> {Failed("status", {})}
    ELSE IF tool = "alertmanager_silence_delete" \/ data = "none" THEN {Answer(data)}
    ELSE IF data = "part" THEN {Failed("body", {})}
    ELSE IF reply.fits THEN {Answer(data)}
    ELSE QuotingSome("body", reply)

\* What may become of a reply of which so much was read.
Decodings(tool, reply, data) ==
    CASE tool \in MetricsTools -> MetricsDecode(reply, data)
      [] tool \in LogsTools    -> LogsDecode(reply, data)
      [] OTHER                 -> AMDecode(tool, reply, data)

=============================================================================
