--------------------------- MODULE BodiesProofs ----------------------------
(***************************************************************************)
(* Theorems about the reading of bodies and the rows made of them, for any *)
(* limits and bodies of any length up to the bound.                        *)
(***************************************************************************)
EXTENDS Bodies, FiniteSetTheorems, FunctionTheorems, TLAPS

USE BodiesAssumption DEF Decoders, Lines, AMDecoders, Whole, Kinds, Records, callVars

LEMMA LimitPositive == ASSUME TypeOK PROVE Limit \in Nat /\ Limit >= 1
  <1>1. QueryLimit \in Nat /\ QueryLimit >= 1
    BY DEF TypeOK, QueryLimit
  <1>2. MaxLimit >= 1 /\ MaxLimit \in Nat /\ MaxLines + 1 \in Nat /\ MaxLines + 1 >= 1
    OBVIOUS
  <1> QED BY <1>1, <1>2, SMTT(30) DEF Limit

LEMMA InitHolds == Init => BodiesInv
  <1> SUFFICES ASSUME Init PROVE BodiesInv
    OBVIOUS
  <1>1. TypeOK
    BY DEF Init, TypeOK
  <1> QED BY <1>1, LimitPositive DEF Init, BodiesInv, FirstRecords, PassedOver, AnswerGrounded,
             ErrorGrounded

\* A line that is dealt with, and kept if it is a record.
LEMMA KeepHolds ==
    ASSUME TypeOK, FirstRecords, ~ Full, pos < Len(sent), pos' = pos + 1, Keep(pos + 1),
           UNCHANGED <<callVars, sent>>
    PROVE  FirstRecords' /\ out' \in Seq(1 .. pos')
  <1>1. Len(out) \in Nat /\ pos \in Nat /\ Limit \in Nat /\ Limit' = Limit /\ Len(out) < Limit
    <2>1. Len(out) \in Nat /\ pos \in Nat
      BY DEF TypeOK
    <2>2. Limit' = Limit
      BY DEF Limit, QueryLimit
    <2>3. Limit \in Nat /\ Len(out) < Limit
      BY <2>1, LimitPositive DEF Full
    <2> QED BY <2>1, <2>2, <2>3
  <1>2. \A i \in DOMAIN out : out[i] \in 1 .. pos
    BY DEF TypeOK
  <1>3. out \in Seq(1 .. pos + 1)
    BY <1>1 DEF TypeOK
  <1>4. CASE sent[pos + 1] \in Records
    <2>1. out' = Append(out, pos + 1)
      BY <1>4 DEF Keep
    <2>2. /\ out' \in Seq(1 .. pos + 1) /\ Len(out') = Len(out) + 1
          /\ \A i \in DOMAIN out : out'[i] = out[i]
          /\ out'[Len(out) + 1] = pos + 1
      BY <1>1, <1>3, <2>1
    <2>3. DOMAIN out' = DOMAIN out \cup {Len(out) + 1}
      <3>1. DOMAIN out = 1 .. Len(out)
        BY <1>3
      <3>2. DOMAIN out' = 1 .. Len(out')
        BY <2>2
      <3>3. 1 .. Len(out) + 1 = 1 .. Len(out) \cup {Len(out) + 1}
        BY <1>1
      <3> QED BY <2>2, <3>1, <3>2, <3>3, Zenon
    <2>4. ASSUME NEW i \in DOMAIN out', NEW j \in DOMAIN out', i < j PROVE out'[i] < out'[j]
      <3>1. /\ DOMAIN out = 1 .. Len(out) /\ DOMAIN out' = 1 .. Len(out) + 1
            /\ i \in DOMAIN out
        BY <1>1, <1>3, <2>2, <2>4
      <3>2. CASE j \in DOMAIN out
        <4>1. out[i] < out[j]
          BY <2>4, <3>1, <3>2 DEF FirstRecords
        <4> QED BY <2>2, <3>1, <3>2, <4>1
      <3>3. CASE j = Len(out) + 1
        <4>1. out'[i] = out[i] /\ out[i] \in 1 .. pos /\ out'[j] = pos + 1
          BY <1>2, <2>2, <3>1, <3>3
        <4> QED BY <1>1, <4>1
      <3> QED BY <2>3, <3>2, <3>3
    <2>5. {out'[i] : i \in DOMAIN out'} = {out[i] : i \in DOMAIN out} \cup {pos + 1}
      BY <2>2, <2>3
    <2>6. {p \in 1 .. pos + 1 : sent[p] \in Records}
            = {p \in 1 .. pos : sent[p] \in Records} \cup {pos + 1}
      BY <1>1, <1>4
    <2>7. Len(out') <= Limit'
      BY <1>1, <2>2
    <2>8. {out'[i] : i \in DOMAIN out'} = {p \in 1 .. pos' : sent'[p] \in Records}
      BY <2>5, <2>6 DEF FirstRecords
    <2> QED BY <2>2, <2>4, <2>7, <2>8 DEF FirstRecords
  <1>5. CASE sent[pos + 1] \notin Records
    <2>1. out' = out
      BY <1>5 DEF Keep
    <2>2. {p \in 1 .. pos + 1 : sent[p] \in Records} = {p \in 1 .. pos : sent[p] \in Records}
      BY <1>1, <1>5
    <2> QED BY <1>1, <1>3, <2>1, <2>2 DEF FirstRecords
  <1> QED BY <1>4, <1>5

\* What arrives does not change what has been decoded.
LEMMA ArrivalHolds ==
    ASSUME BodiesInv, stage = "reading", UNCHANGED <<callVars, pos, out, stage>>,
           body' \in {"open", "eof", "lost"},
           sent' = sent \/ (Len(sent) < MaxLines /\ \E kind \in Kinds : sent' = Append(sent, kind))
    PROVE  BodiesInv'
  <1>1. TypeOK /\ FirstRecords
    BY DEF BodiesInv
  <1>2. /\ sent' \in Seq(Kinds) /\ Len(sent') >= Len(sent) /\ Len(sent') <= MaxLines
        /\ \A p \in 1 .. pos : sent'[p] = sent[p]
    <2>1. /\ sent \in Seq(Kinds) /\ pos \in Nat /\ pos <= Len(sent) /\ Len(sent) \in Nat
          /\ Len(sent) <= MaxLines /\ MaxLines \in Nat
      BY <1>1 DEF TypeOK
    <2>2. CASE sent' = sent
      BY <2>1, <2>2
    <2>3. ASSUME NEW kind \in Kinds, Len(sent) < MaxLines, sent' = Append(sent, kind)
          PROVE  /\ sent' \in Seq(Kinds) /\ Len(sent') >= Len(sent) /\ Len(sent') <= MaxLines
                 /\ \A p \in 1 .. pos : sent'[p] = sent[p]
      <3>1. /\ sent' \in Seq(Kinds) /\ Len(sent') = Len(sent) + 1
            /\ \A p \in 1 .. Len(sent) : sent'[p] = sent[p]
        BY <2>1, <2>3
      <3>2. 1 .. pos \subseteq 1 .. Len(sent)
        BY <2>1
      <3> QED BY <2>1, <2>3, <3>1, <3>2
    <2> HIDE DEF Kinds
    <2> QED BY <2>2, <2>3, Zenon
  <1>3. TypeOK'
    <2>1. pos \in 0 .. Len(sent')
      BY <1>1, <1>2 DEF TypeOK
    <2> QED BY <1>1, <1>2, <2>1 DEF TypeOK
  <1>4. Limit' = Limit
    BY DEF Limit, QueryLimit
  <1>5. {p \in 1 .. pos : sent'[p] \in Records} = {p \in 1 .. pos : sent[p] \in Records}
    BY <1>2
  <1>6. FirstRecords'
    BY <1>1, <1>4, <1>5 DEF FirstRecords
  <1>7. PassedOver' /\ AnswerGrounded' /\ ErrorGrounded'
    BY <1>2 DEF BodiesInv, PassedOver, AnswerGrounded, ErrorGrounded
  <1> QED BY <1>3, <1>6, <1>7 DEF BodiesInv

\* Where all is taken there is room: the kept records are distinct lines.
LEMMA WholeFits ==
    ASSUME TypeOK, FirstRecords, decoder \in Whole
    PROVE  ~ (Len(out) >= Limit)
  <1>1. /\ Limit = MaxLines + 1 /\ Len(sent) \in Nat /\ MaxLines \in Nat /\ Len(sent) <= MaxLines
        /\ pos \in Nat /\ pos <= Len(sent)
        /\ Len(out) \in Nat /\ DOMAIN out = 1 .. Len(out)
    BY DEF TypeOK, Limit
  <1>2. \A i, j \in DOMAIN out : i # j => out[i] # out[j]
    <2>1. \A i \in DOMAIN out : out[i] \in Nat
      BY <1>1 DEF TypeOK
    <2> QED BY <1>1, <2>1 DEF FirstRecords
  <1>3. out \in Injection(1 .. Len(out), 1 .. pos)
    <2>1. out \in [1 .. Len(out) -> 1 .. pos]
      BY <1>1 DEF TypeOK
    <2> QED BY <1>1, <1>2, <2>1, Fun_IsInj
  <1>4. ASSUME NEW n \in Nat PROVE IsFiniteSet(1 .. n) /\ Cardinality(1 .. n) = n
    <2>1. 1 \in Int /\ n \in Int
      BY <1>4
    <2>2. /\ IsFiniteSet(1 .. n)
          /\ Cardinality(1 .. n) = IF 1 > n THEN 0 ELSE n - 1 + 1
      BY <2>1, FS_Interval, Zenon
    <2> QED BY <1>4, <2>2
  <1>5. Cardinality(1 .. Len(out)) <= Cardinality(1 .. pos)
    <2>1. IsFiniteSet(1 .. pos)
      BY <1>1, <1>4
    <2> QED BY <1>3, <2>1, FS_Injection, Zenon
  <1> QED BY <1>1, <1>4, <1>5

LEMMA StepHolds == BodiesInv /\ [Next]_vars => BodiesInv'
  <1> SUFFICES ASSUME BodiesInv, [Next]_vars PROVE BodiesInv'
    OBVIOUS
  <1>1. TypeOK /\ FirstRecords
    BY DEF BodiesInv
  <1>2. ASSUME NEW kind \in Kinds, Send(kind) PROVE BodiesInv'
    BY <1>2, ArrivalHolds DEF Send, BodiesInv, TypeOK
  <1>3. CASE Finish
    BY <1>3, ArrivalHolds DEF Finish
  <1>4. CASE Lose
    BY <1>4, ArrivalHolds DEF Lose
  <1>5. CASE ScanLine
    <2>1. UNCHANGED <<callVars, sent, body>> /\ decoder \in Lines /\ stage = "reading"
            /\ pos < Len(sent) /\ Limit' = Limit
      BY <1>5 DEF ScanLine, Limit, QueryLimit
    <2>2. pos + 1 \in DOMAIN sent
      BY <1>1, <2>1 DEF TypeOK
    <2>3. CASE /\ UNCHANGED <<pos, out>>
               /\ \/ sent[pos + 1] = "long" /\ stage' = "failed"
                  \/ /\ sent[pos + 1] # "long" /\ Full
                     /\ stage' = "answered" \/ (stage' = "failed" /\ body = "lost")
      <3>1. TypeOK' /\ FirstRecords'
        BY <1>1, <2>1, <2>3, SMTT(30) DEF TypeOK, FirstRecords
      <3>2. stage' = "answered" => Len(out') = Limit'
        BY <1>1, <2>1, <2>3, LimitPositive DEF Full, FirstRecords, TypeOK
      <3>3. AnswerGrounded' /\ ErrorGrounded' /\ PassedOver'
        BY <2>1, <2>2, <2>3, <3>2 DEF AnswerGrounded, ErrorGrounded, PassedOver, TooLong
      <3> QED BY <3>1, <3>3 DEF BodiesInv
    <2>4. CASE ~ Full /\ pos' = pos + 1 /\ Keep(pos + 1) /\ UNCHANGED stage
      <3>1. FirstRecords' /\ out' \in Seq(1 .. pos')
        BY <1>1, <2>1, <2>4, KeepHolds
      <3>2. TypeOK'
        BY <1>1, <2>1, <2>4, <3>1 DEF TypeOK
      <3>3. AnswerGrounded' /\ ErrorGrounded' /\ PassedOver'
        BY <2>1, <2>4 DEF AnswerGrounded, ErrorGrounded, PassedOver
      <3> QED BY <3>1, <3>2, <3>3 DEF BodiesInv
    <2> QED BY <1>5, <2>3, <2>4 DEF ScanLine
  <1>6. CASE ScanEnd
    <2>1. TypeOK' /\ FirstRecords'
      BY <1>1, <1>6 DEF ScanEnd, EndOfLines, TypeOK, FirstRecords, Limit, QueryLimit
    <2>2. pos + 1 \notin DOMAIN sent
      BY <1>1, <1>6 DEF ScanEnd, TypeOK
    <2>3. AnswerGrounded' /\ ErrorGrounded' /\ PassedOver'
      BY <1>1, <1>6, <2>2 DEF ScanEnd, EndOfLines, TypeOK, AnswerGrounded, ErrorGrounded,
         PassedOver, TooLong
    <2> QED BY <2>1, <2>3 DEF BodiesInv
  <1>7. CASE DecodeDocument
    <2>1. UNCHANGED <<callVars, sent, body>> /\ decoder = "document" /\ stage = "reading"
            /\ Limit' = Limit /\ Limit = 1 /\ out = <<>> /\ ~ Full
      BY <1>7 DEF DecodeDocument, Limit, QueryLimit, BodiesInv, PassedOver, Full
    <2>2. CASE pos < Len(sent) /\ pos' = pos + 1 /\ Keep(pos + 1)
                 /\ stage' = IF sent[pos + 1] \in Records THEN "answered"
                             ELSE IF sent[pos + 1] = "junk" THEN "failed" ELSE "reading"
      <3>1. FirstRecords' /\ out' \in Seq(1 .. pos')
        BY <1>1, <2>1, <2>2, KeepHolds
      <3>2. TypeOK'
        BY <1>1, <2>1, <2>2, <3>1 DEF TypeOK
      <3>3. stage' = "answered" => Len(out') = 1
        BY <2>1, <2>2 DEF Keep
      <3>4. stage' # "answered" => out' = <<>>
        BY <2>1, <2>2 DEF Keep
      <3>5. AnswerGrounded' /\ ErrorGrounded' /\ PassedOver'
        BY <2>1, <3>3, <3>4 DEF AnswerGrounded, ErrorGrounded, PassedOver
      <3> QED BY <3>1, <3>2, <3>5 DEF BodiesInv
    <2>3. CASE stage' = "failed" /\ UNCHANGED <<pos, out>>
      <3>1. TypeOK' /\ FirstRecords'
        BY <1>1, <2>1, <2>3 DEF TypeOK, FirstRecords
      <3>2. AnswerGrounded' /\ ErrorGrounded' /\ PassedOver'
        BY <2>1, <2>3 DEF AnswerGrounded, ErrorGrounded, PassedOver
      <3> QED BY <3>1, <3>2 DEF BodiesInv
    <2> QED BY <1>7, <2>2, <2>3 DEF DecodeDocument
  <1>8. CASE TakeItem
    <2>1. UNCHANGED <<callVars, sent, body>> /\ decoder \in Whole /\ stage = "reading"
            /\ pos < Len(sent) /\ Limit' = Limit
      BY <1>8 DEF TakeItem, Limit, QueryLimit
    <2>2. pos + 1 \in DOMAIN sent
      BY <1>1, <2>1 DEF TypeOK
    <2>3. CASE sent[pos + 1] \in {"junk", "long"} /\ stage' = "failed" /\ UNCHANGED <<pos, out>>
      <3>1. TypeOK' /\ FirstRecords'
        BY <1>1, <2>1, <2>3 DEF TypeOK, FirstRecords
      <3>2. AnswerGrounded' /\ ErrorGrounded' /\ PassedOver'
        BY <2>1, <2>2, <2>3 DEF BodiesInv, AnswerGrounded, ErrorGrounded, PassedOver, Clean
      <3> QED BY <3>1, <3>2 DEF BodiesInv
    <2>4. CASE /\ sent[pos + 1] \notin {"junk", "long"}
               /\ pos' = pos + 1 /\ Keep(pos + 1) /\ UNCHANGED stage
      <3>1. ~ Full
        BY <1>1, <2>1, WholeFits DEF Full
      <3>2. FirstRecords' /\ out' \in Seq(1 .. pos')
        BY <1>1, <2>1, <2>4, <3>1, KeepHolds
      <3>3. TypeOK'
        BY <1>1, <2>1, <2>4, <3>2 DEF TypeOK
      <3>4. PassedOver'
        <4>1. pos \in Nat /\ \A p \in 1 .. pos : sent[p] \notin {"junk", "long"}
          BY <1>1, <2>1 DEF TypeOK, BodiesInv, PassedOver
        <4> QED BY <2>1, <2>4, <4>1 DEF PassedOver
      <3>5. AnswerGrounded' /\ ErrorGrounded'
        BY <2>1, <2>4 DEF AnswerGrounded, ErrorGrounded
      <3> QED BY <3>2, <3>3, <3>4, <3>5 DEF BodiesInv
    <2> QED BY <1>8, <2>3, <2>4 DEF TakeItem
  <1>9. CASE ItemsEnd
    <2>1. TypeOK' /\ FirstRecords'
      BY <1>1, <1>9 DEF ItemsEnd, EndOfData, EndOfListing, TypeOK, FirstRecords, Limit, QueryLimit
    <2>2. UNCHANGED <<callVars, sent, body, pos, out>> /\ decoder \in Whole /\ pos = Len(sent)
            /\ PassedOver
      BY <1>9 DEF ItemsEnd, BodiesInv
    <2>3. body # "open"
      <3>1. DOMAIN sent = 1 .. pos
        BY <1>1, <2>2 DEF TypeOK
      <3> QED BY <1>9, <2>2, <3>1 DEF ItemsEnd, AllRead, PassedOver
    <2>4. AnswerGrounded'
      BY <1>9, <2>2 DEF ItemsEnd, EndOfData, EndOfListing, LostUnread, AnswerGrounded
    <2>5. ErrorGrounded' /\ PassedOver'
      BY <1>1, <1>9, <2>2, <2>3 DEF TypeOK, ItemsEnd, EndOfData, EndOfListing, LostUnread,
         ErrorGrounded, PassedOver
    <2> QED BY <2>1, <2>4, <2>5 DEF BodiesInv
  <1>10. CASE UNCHANGED vars
    BY <1>1, <1>10 DEF vars, BodiesInv, TypeOK, FirstRecords, Limit, QueryLimit, LostUnread,
       PassedOver, AnswerGrounded, ErrorGrounded, TooLong, Clean
  <1> QED BY <1>2, <1>3, <1>4, <1>5, <1>6, <1>7, <1>8, <1>9, <1>10 DEF Next, Decode

\* Whatever the limits and the body, the records decoded are the first ones of
\* the body and an answer rests on the whole body or is as long as it may be.
THEOREM SpecBodiesInv == Spec => []BodiesInv
  BY InitHolds, StepHolds, PTL DEF Spec

LEMMA InvCut == BodiesInv => CutIsTold
  <1> SUFFICES ASSUME BodiesInv, stage = "answered", body = "eof", pos = Len(sent), ~ Noted,
                      NEW p \in 1 .. Len(sent), sent[p] \in Records, Prints(p)
               PROVE  p \in Printed
    BY DEF BodiesInv, AnswerGrounded, CutIsTold
  <1>1. TypeOK /\ FirstRecords
    BY DEF BodiesInv
  <1>2. PICK i \in DOMAIN out : out[i] = p
    BY <1>1 DEF FirstRecords
  <1>3. i \in Items
    BY <1>2 DEF Items
  <1>4. IsFiniteSet(Items)
    <2>1. Len(out) \in Nat /\ DOMAIN out = 1 .. Len(out)
      BY <1>1 DEF TypeOK
    <2>2. IsFiniteSet(1 .. Len(out))
      BY <2>1, FS_Interval
    <2> QED BY <2>1, <2>2, FS_Subset DEF Items
  <1>5. /\ IsFiniteSet(Before(i))
        /\ Cardinality(Before(i)) \in Nat /\ Cardinality(Items) \in Nat
        /\ Cardinality(Before(i)) <= Cardinality(Items)
    BY <1>4, FS_Subset, FS_CardinalityType DEF Before
  <1>6. decoder \in Capped => Cardinality(Before(i)) <= MaxRows
    BY <1>5 DEF Noted
  <1> QED BY <1>2, <1>3, <1>6 DEF Printed

LEMMA InvDecodes == BodiesInv => DecodesAsStated
  <1> SUFFICES ASSUME BodiesInv, stage # "reading", NEW tool \in ToolsOf
               PROVE  \E data \in Received, reply \in Replies :
                         \E result \in C!Decodings(tool, reply, data) :
                             result.ok = (stage = "answered")
    BY DEF DecodesAsStated
  <1>1. /\ decoder \in Decoders /\ stage \in {"answered", "failed"}
        /\ body \in {"open", "eof", "lost"} /\ TypeOK
    BY DEF BodiesInv, TypeOK
  <1> DEFINE Reply(fits) == [status |-> "2xx", words |-> {}, fits |-> fits, redirect |-> "none"]
  <1>2. /\ decoder \in Lines \cup {"document"} =>
              tool \in C!LogsTools /\ tool \notin C!MetricsTools
        /\ decoder = "data" => tool \in C!MetricsTools /\ tool \notin C!LogsTools
        /\ decoder \in AMDecoders =>
              tool \notin C!MetricsTools \cup C!LogsTools /\ tool # "alertmanager_silence_delete"
    BY <1>1 DEF ToolsOf, C!MetricsTools, C!LogsTools, C!AMTools, C!WriteTools
  <1>3. \A fits \in Fits : Reply(fits) \in Replies
    BY DEF Replies
  <1>4. /\ "whole" \in Received <=> body = "eof" \/ Full \/ TooLong
        /\ "part" \in Received <=> body # "eof" /\ sent # <<>>
        /\ "none" \in Received <=> body # "eof" /\ sent = <<>>
    BY DEF Received, C!BodyParts
  \* What a client makes of the whole of a reply that fits, and of others.
  <1>5. \A fits \in BOOLEAN, data \in Received :
           /\ decoder \notin AMDecoders =>
                 \E result \in C!Decodings(tool, Reply(fits), data) :
                     result.ok = (data = "whole" /\ fits)
           /\ decoder \in AMDecoders =>
                 \E result \in C!Decodings(tool, Reply(fits), data) :
                     result.ok = (data = "none" \/ (data = "whole" /\ fits))
    <2>1. \A why, words : C!Failed(why, words).ok = FALSE
      BY DEF C!Failed
    <2>2. \A data : C!Answer(data).ok = TRUE
      BY DEF C!Answer
    <2>3. ASSUME NEW fits \in BOOLEAN, NEW data \in Received, decoder \in Decoders \ Whole
          PROVE  \E result \in C!Decodings(tool, Reply(fits), data) :
                     result.ok = (data = "whole" /\ fits)
      <3>1. C!Decodings(tool, Reply(fits), data)
              = IF data = "whole" /\ fits THEN {C!Answer(data)} ELSE {C!Failed("body", {})}
        BY <1>2, <2>3 DEF C!Decodings, C!LogsDecode
      <3> QED BY <2>1, <2>2, <3>1
    <2>4. ASSUME NEW fits \in BOOLEAN, NEW data \in Received, decoder = "data"
          PROVE  \E result \in C!Decodings(tool, Reply(fits), data) :
                     result.ok = (data = "whole" /\ fits)
      <3>1. C!Decodings(tool, Reply(fits), data)
              = IF data # "whole" THEN {C!Failed("body", {})}
                ELSE IF fits THEN {C!Answer(data)} ELSE C!QuotingSome("body", Reply(fits))
        BY <1>2, <2>4 DEF C!Decodings, C!MetricsDecode
      <3>2. C!Failed("body", {}) \in C!QuotingSome("body", Reply(fits))
        BY DEF C!QuotingSome
      <3> QED BY <2>1, <2>2, <3>1, <3>2
    <2>5. ASSUME NEW fits \in BOOLEAN, NEW data \in Received, decoder \in AMDecoders
          PROVE  \E result \in C!Decodings(tool, Reply(fits), data) :
                     result.ok = (data = "none" \/ (data = "whole" /\ fits))
      <3>1. data \in {"whole", "part", "none"}
        BY DEF Received, C!BodyParts
      <3>2. C!Decodings(tool, Reply(fits), data)
              = IF data = "none" THEN {C!Answer(data)}
                ELSE IF data = "part" THEN {C!Failed("body", {})}
                ELSE IF fits THEN {C!Answer(data)} ELSE C!QuotingSome("body", Reply(fits))
        BY <1>2, <2>5 DEF C!Decodings, C!AMDecode
      <3>3. C!Failed("body", {}) \in C!QuotingSome("body", Reply(fits))
        BY DEF C!QuotingSome
      <3>4. CASE data = "none"
        BY <2>2, <3>2, <3>4
      <3>5. CASE data = "part"
        BY <2>1, <3>2, <3>5
      <3>6. CASE data = "whole" /\ fits
        BY <2>2, <3>2, <3>6
      <3>7. CASE data = "whole" /\ ~ fits
        <4>1. C!Decodings(tool, Reply(fits), data) = C!QuotingSome("body", Reply(fits))
          BY <3>2, <3>7
        <4>2. C!Failed("body", {}).ok = (data = "none" \/ (data = "whole" /\ fits))
          BY <2>1, <3>7
        <4> HIDE DEF Reply
        <4> QED BY <3>3, <4>1, <4>2
      <3> QED BY <3>1, <3>4, <3>5, <3>6, <3>7
    <2>6. decoder \in Decoders \ Whole \/ decoder = "data" \/ decoder \in AMDecoders
      BY <1>1
    <2> HIDE DEF Reply, Decoders, Whole, Lines, AMDecoders
    <2> QED BY <2>3, <2>4, <2>5, <2>6
  <1>6. TooLong \in BOOLEAN /\ Full \in BOOLEAN /\ Clean \in BOOLEAN
    BY DEF TooLong, Full, Clean
  <1>7. \E data \in Received, fits \in Fits :
           (stage = "answered")
             = (\/ data = "whole" /\ fits
                \/ decoder \in AMDecoders /\ data = "none")
    <2>1. CASE stage = "answered"
      <3>1. CASE LostUnread
        <4>1. "none" \in Received /\ decoder \in AMDecoders
          BY <1>4, <3>1 DEF LostUnread
        <4> QED BY <2>1, <4>1 DEF Fits
      <3>2. CASE decoder \notin Whole /\ Len(out) = Limit
        <4>1. Full
          BY <1>1, <3>2, LimitPositive DEF Full
        <4>2. TRUE \in Fits
          BY <1>1, <1>6, <2>1, <3>2, <4>1 DEF Fits, BodiesInv, AnswerGrounded
        <4> QED BY <1>4, <2>1, <4>1, <4>2
      <3>3. CASE decoder # "document" /\ body = "eof" /\ pos = Len(sent)
        <4>1. decoder \in Whole => Clean
          BY <1>1, <3>3 DEF Clean, TypeOK, BodiesInv, PassedOver
        <4>2. decoder \in Lines => ~ TooLong
          BY <2>1 DEF BodiesInv, AnswerGrounded
        <4>3. TRUE \in Fits
          BY <1>1, <1>6, <3>3, <4>1, <4>2 DEF Fits
        <4> QED BY <1>4, <2>1, <3>3, <4>3
      <3> QED BY <2>1, <3>1, <3>2, <3>3 DEF BodiesInv, AnswerGrounded
    <2>2. CASE stage = "failed"
      <3>1. PICK data \in Received : data # "none" \/ sent = <<>>
        BY <1>1, <1>4
      <3>2. Fits # {}
        BY <1>1 DEF Fits
      <3>3. CASE decoder \in Lines
        <4>1. CASE TooLong
          <5>1. FALSE \in Fits
            BY <3>3, <4>1 DEF Fits
          <5> QED BY <1>4, <2>2, <3>3, <4>1, <5>1
        <4>2. CASE body = "lost"
          BY <1>4, <2>2, <3>2, <3>3, <4>2
        <4> QED BY <2>2, <3>3, <4>1, <4>2 DEF BodiesInv, ErrorGrounded
      <3>4. CASE decoder = "document"
        <4>1. ~ Full
          BY <1>1, <2>2, <3>4, LimitPositive DEF Full, BodiesInv, PassedOver
        <4>2. FALSE \in Fits
          <5>1. Fits = {Full} /\ Full = FALSE
            BY <1>6, <3>4, <4>1 DEF Fits
          <5> QED BY <5>1
        <4> QED BY <2>2, <3>1, <3>4, <4>2
      <3>5. CASE decoder = "data"
        <4>1. FALSE \in Fits
          BY <3>5 DEF Fits
        <4> QED BY <2>2, <3>1, <3>5, <4>1
      <3>6. CASE decoder \in AMDecoders
        <4>1. CASE ~ Clean
          <5>1. sent # <<>>
            BY <1>1, <4>1 DEF Clean, TypeOK
          <5>2. FALSE \in Fits
            <6>1. Fits = {Clean} /\ Clean = FALSE
              BY <1>6, <3>6, <4>1 DEF Fits
            <6> QED BY <6>1
          <5> QED BY <2>2, <3>1, <5>1, <5>2
        <4>2. CASE body = "lost" /\ sent # <<>>
          <5>1. "part" \in Received
            BY <1>4, <4>2
          <5> QED BY <2>2, <3>2, <5>1
        <4> QED BY <2>2, <3>6, <4>1, <4>2 DEF BodiesInv, ErrorGrounded
      <3> QED BY <1>1, <3>3, <3>4, <3>5, <3>6
    <2> QED BY <1>1, <2>1, <2>2
  <1>8. Fits \subseteq BOOLEAN
    BY <1>1, <1>6 DEF Fits
  <1>9. PICK data \in Received, fits \in Fits :
           (stage = "answered")
             = (\/ data = "whole" /\ fits
                \/ decoder \in AMDecoders /\ data = "none")
    BY <1>7
  <1>10. PICK result \in C!Decodings(tool, Reply(fits), data) :
           /\ decoder \notin AMDecoders => result.ok = (data = "whole" /\ fits)
           /\ decoder \in AMDecoders => result.ok = (data = "none" \/ (data = "whole" /\ fits))
    <2> HIDE DEF Reply
    <2> QED BY <1>5, <1>8
  <1>11. result.ok = (stage = "answered")
    BY <1>9, <1>10
  <1> HIDE DEF Reply
  <1> QED BY <1>3, <1>10, <1>11

\* For any limits and bodies of any length up to the bound, ended, torn or under
\* way, a reading client ends in an answer or in an error only where ClientDecode
\* says so of as much as it has received.
THEOREM SpecDecodesAsStated == Spec => []DecodesAsStated
  BY SpecBodiesInv, InvDecodes, PTL

\* No answer leaves out something printable in the body unless it has as many
\* records as the limit allows or says so in a note.
THEOREM SpecCutIsTold == Spec => []CutIsTold
  BY SpecBodiesInv, InvCut, PTL

=============================================================================
