--------------------------- MODULE ToolCallsProofs ---------------------------
(***************************************************************************)
(* Theorems about the tool-call pipeline, for any number of calls, any     *)
(* configuration of datasources and any rotation of credentials.           *)
(***************************************************************************)
EXTENDS ToolCalls, TLAPS

USE RegistryAssumption, CallsAssumption

\* What the input types of the tools guarantee of a request.
LEMMA ArgsFacts ==
    ASSUME NEW a \in Args
    PROVE  /\ a.tool \in Tools
           /\ a.name \in AskedNames
           /\ a.form \in Forms
           /\ a.tool = "alertmanager_silence_create" => a.body \in Bodies
  BY DEF Args, ReadArgs, CreateArgs, DeleteArgs, Forms, Tools, MetricsTools,
         LogsTools, AMTools, WriteTools

\* A refusal is one of the known ones and its text has classifying words only;
\* a request that is not refused names a datasource of the tool's type, and one
\* that may be written to if the tool writes.
LEMMA GuardFacts ==
    ASSUME NEW a \in Args
    PROVE  /\ Refusal(a) \in Refusals \cup {"none"}
           /\ Refusal(a) = "none" => /\ Resolve(a.name) \in Names
                                     /\ TypeFits(a.tool, Resolve(a.name))
                                     /\ a.tool \in WriteTools =>
                                            WriteBlock(Resolve(a.name)) = "none"
           /\ Refusal(a) # "none" => RefusalWords(a, Refusal(a)) \in SUBSET Words
  <1>1. a.form \in Forms /\ a.name \in AskedNames
    BY ArgsFacts
  <1>2. \A d : WriteBlock(d) \in WriteBlocks \cup {"none"}
    BY DEF WriteBlock, WriteBlocks
  <1>3. Refusal(a) \in Refusals \cup {"none"}
    BY <1>1, <1>2 DEF Refusal, Refusals, Forms
  <1>4. ASSUME Refusal(a) = "none"
        PROVE  /\ Resolve(a.name) \in Names
               /\ TypeFits(a.tool, Resolve(a.name))
               /\ a.tool \in WriteTools => WriteBlock(Resolve(a.name)) = "none"
    BY <1>4, <1>2 DEF Refusal, Known, WriteBlocks
  <1>5. ASSUME Refusal(a) # "none"
        PROVE  RefusalWords(a, Refusal(a)) \in SUBSET Words
    <2>1. WordsIn[a.name] \in SUBSET Words
      BY <1>1
    <2>2. UNION {WordsIn[d] : d \in Names} \in SUBSET Words
      OBVIOUS
    <2>3. CASE Refusal(a) = "unknown_datasource"
      BY <2>1, <2>2, <2>3 DEF RefusalWords
    <2>4. CASE Refusal(a) \in {"wrong_type", "datasource_readonly"}
      <3>1. Resolve(a.name) \in Names
        BY <2>4, <1>1 DEF Refusal, Known, Forms
      <3>2. WordsIn[Resolve(a.name)] \in SUBSET Words
        BY <3>1
      <3> QED BY <2>4, <3>2 DEF RefusalWords, Words
    <2>5. CASE Refusal(a) \notin {"unknown_datasource", "wrong_type", "datasource_readonly"}
      BY <2>5 DEF RefusalWords, Words
    <2> QED BY <2>3, <2>4, <2>5
  <1> QED BY <1>3, <1>4, <1>5

LEMMA ResultFacts ==
    /\ \A data \in BodyParts : Answer(data) \in Returns
    /\ \A why \in Reasons, words \in SUBSET Words :
           Failed(why, words) \in Returns /\ ~ Failed(why, words).ok
  BY DEF Answer, Failed, Returns, Reasons, BodyParts

\* Every client turns a reply into a well-formed result, and into an answer only
\* when its status is 2xx.
LEMMA DecodeFacts ==
    ASSUME NEW tool, NEW r \in Replies, NEW data \in BodyParts,
           NEW x \in Decodings(tool, r, data)
    PROVE  x \in Returns /\ (x.ok => r.status = "2xx")
  <1> DEFINE Fine(y) == y \in Returns /\ (y.ok => r.status = "2xx")
  <1>0. /\ \A why \in {"body", "status"} : Fine(Failed(why, {}))
        /\ \A why \in {"body", "status"}, words \in SUBSET r.words : Fine(Failed(why, words))
        /\ \A why \in {"body", "status"} : Fine(Failed(why, r.words))
        /\ r.status = "2xx" => Fine(Answer(data))
        /\ r.fits => Fine(Answer(data))
    BY ResultFacts DEF Reasons, Replies
  <1> HIDE DEF Fine
  <1>1. \A y \in MetricsDecode(r, data) : Fine(y)
    BY <1>0 DEF MetricsDecode, QuotingSome
  <1>2. \A y \in LogsDecode(r, data) : Fine(y)
    BY <1>0 DEF LogsDecode, QuotingSome
  <1>3. \A y \in AMDecode(tool, r, data) : Fine(y)
    <2>1. CASE r.status # "2xx"
      BY <1>0, <2>1 DEF AMDecode, Quoting, QuotingSome, BodyParts
    <2>2. CASE r.status = "2xx"
      BY <1>0, <2>2 DEF AMDecode, QuotingSome
    <2> QED BY <2>1, <2>2
  <1>4. x \in MetricsDecode(r, data) \cup LogsDecode(r, data) \cup AMDecode(tool, r, data)
    BY DEF Decodings
  <1> QED BY <1>1, <1>2, <1>3, <1>4 DEF Fine

-----------------------------------------------------------------------------

\* No silence is affected by a step that leaves silences and arguments alone.
LEMMA InEffectStable ==
    ASSUME NEW c \in Calls, args'[c] = args[c], silences' = silences
    PROVE  InEffect(c)' <=> InEffect(c)
  BY DEF InEffect, SilencesOn, Target

LEMMA InitHolds == Init => PipelineInv
  <1> SUFFICES ASSUME Init PROVE PipelineInv
    OBVIOUS
  <1> DEFINE Made(o) == [id |-> o, ds |-> OthersOn[o], body |-> "other", active |-> TRUE]
  <1>0. \A s \in silences : \E o \in Others : s = Made(o)
    BY DEF Init, SilencesOfOthers
  <1>1. TypeOK
    <2>1. res \in [Calls -> Returns]
      BY ResultFacts DEF Init, NoResult, Reasons
    <2>2. silences \subseteq Silences
      <3> SUFFICES ASSUME NEW s \in silences PROVE s \in Silences
        OBVIOUS
      <3>1. PICK o \in Others : s = Made(o)
        BY <1>0
      <3>2. OthersOn[o] \in Names
        OBVIOUS
      <3> QED BY <3>1, <3>2 DEF Silences
    <2>5. followed \in [Calls -> 0 .. MaxFollowed] /\ turned \subseteq Calls
      BY DEF Init
    <2>3. /\ pc \in [Calls -> States]
          /\ args \in [Calls -> Args \cup {Unasked}]
          /\ reply \in [Calls -> Replies]
          /\ wire \subseteq Calls
          /\ series \subseteq (AskedNames \ {NoName}) \cup {DefaultName}
      BY DEF Init, States, NoReply, Replies
    <2>4. /\ startCred \in [Calls -> 0 .. MaxRotations]
          /\ sentCred \in [Calls -> 0 .. MaxRotations]
          /\ credVersion \in [Names -> 0 .. MaxRotations]
          /\ toolCalls \in [Results -> Nat]
          /\ dsRequests \in [Codes -> Nat]
          /\ writesBlocked \in [WriteBlocks -> Nat]
      BY DEF Init
    <2> QED BY <2>1, <2>2, <2>3, <2>4, <2>5 DEF TypeOK
  <1>2. OnlyPassedSent
    BY DEF Init, OnlyPassedSent, Replied, NoReply
  <1>3. UnsentUnmade
    <2> SUFFICES ASSUME NEW e \in Calls, NEW n \in 0 .. MaxFollowed, NEW s \in silences
                 PROVE  s.id # <<e, n>>
      BY DEF UnsentUnmade
    <2>1. s.id \in Others
      BY <1>0
    <2>2. <<e, n>> \in Minted
      BY DEF Minted
    <2> QED BY <2>1, <2>2
  <1>4. OneSilencePerId
    <2> SUFFICES ASSUME NEW s \in silences, NEW t \in silences, s.id = t.id
                 PROVE  s = t
      BY DEF OneSilencePerId
    <2>1. PICK o \in Others, p \in Others : s = Made(o) /\ t = Made(p)
      BY <1>0
    <2>2. o = p
      BY <2>1
    <2> QED BY <2>1, <2>2
  <1>5. RepliesTrue
    BY DEF Init, RepliesTrue, NoReply
  <1>6. AnswersBacked
    BY DEF Init, AnswersBacked, NoResult, Failed
  <1> QED BY <1>1, <1>2, <1>3, <1>4, <1>5, <1>6 DEF PipelineInv

LEMMA GuardKeeps ==
    ASSUME PipelineInv, NEW c \in Calls, NEW a \in Args, Guard(c, a)
    PROVE  PipelineInv'
  <1> DEFINE why == Refusal(a)
  <1>0. /\ why \in Refusals \cup {"none"}
        /\ why = "none" => Resolve(a.name) \in Names
        /\ why # "none" => /\ Failed(why, RefusalWords(a, why)) \in Returns
                           /\ ~ Failed(why, RefusalWords(a, why)).ok
    BY GuardFacts, ResultFacts DEF Reasons
  <1>1. /\ pc[c] = "idle"
        /\ ~ Replied(c) /\ c \notin wire
        /\ args' = [args EXCEPT ![c] = a]
        /\ pc' = [pc EXCEPT ![c] = IF why = "none" THEN "roundtrip" ELSE "returned"]
        /\ res' = IF why = "none" THEN res
                  ELSE [res EXCEPT ![c] = Failed(why, RefusalWords(a, why))]
        /\ startCred' = IF why = "none"
                        THEN [startCred EXCEPT ![c] = credVersion[Resolve(a.name)]]
                        ELSE startCred
        /\ writesBlocked' = IF why \in WriteBlocks
                            THEN [writesBlocked EXCEPT ![why] = @ + 1]
                            ELSE writesBlocked
        /\ UNCHANGED <<reply, sentCred, followed, turned, wire, credVersion, silences,
                       toolCalls, series, dsRequests>>
    BY DEF Guard, Return, PipelineInv, OnlyPassedSent, worldVars
  <1> HIDE DEF why
  <1>2. TypeOK'
    BY <1>0, <1>1 DEF PipelineInv, TypeOK, States
  <1>3. OnlyPassedSent'
    BY <1>1 DEF PipelineInv, TypeOK, OnlyPassedSent, Replied, why
  <1>4. UnsentUnmade'
    <2>1. \A e \in Calls, n \in 0 .. MaxFollowed : Unsent(e, n)' => Unsent(e, n)
      BY <1>1 DEF PipelineInv, TypeOK, Unsent
    <2> QED BY <1>1, <2>1 DEF PipelineInv, UnsentUnmade
  <1>5. OneSilencePerId'
    BY <1>1 DEF PipelineInv, OneSilencePerId
  <1>6. RepliesTrue'
    <2> SUFFICES ASSUME NEW e \in Calls, reply'[e].status = "2xx", e \notin turned'
                 PROVE  InEffect(e)'
      BY DEF RepliesTrue
    <2>1. e # c
      BY <1>1 DEF Replied
    <2> QED BY <2>1, <1>1, InEffectStable DEF PipelineInv, TypeOK, RepliesTrue
  <1>7. AnswersBacked'
    BY <1>0, <1>1 DEF PipelineInv, TypeOK, AnswersBacked
  <1> QED BY <1>2, <1>3, <1>4, <1>5, <1>6, <1>7 DEF PipelineInv

\* The steps of a call between its guards and its answer.
LEMMA CallKeeps ==
    ASSUME PipelineInv, NEW c \in Calls,
           \/ Send(c) \/ SendFails(c) \/ ReceiveHead(c) \/ GiveUp(c)
           \/ WaitFails(c) \/ ReadBody(c) \/ ReadFails(c) \/ Record(c)
    PROVE  PipelineInv'
  <1>1. /\ pc[c] \notin {"idle", "answered"}
        /\ pc' = [pc EXCEPT ![c] = pc'[c]]
        /\ pc'[c] \in {"waiting", "reading", "returned", "answered"}
        /\ pc'[c] \in {"waiting", "reading"} =>
               pc[c] \in {"roundtrip", "waiting", "reading"}
        /\ pc[c] = "returned" => pc'[c] = "answered"
        /\ UNCHANGED <<args, reply, startCred, followed, turned, credVersion, silences,
                       writesBlocked>>
        /\ wire' = wire \/ (wire' = wire \cup {c} /\ pc[c] = "roundtrip")
    <2>0. pc \in [Calls -> States]
      BY DEF PipelineInv, TypeOK
    <2>1. CASE Send(c)
      BY <2>0, <2>1 DEF Send, metricVars
    <2>2. CASE SendFails(c) \/ WaitFails(c)
      BY <2>0, <2>2 DEF SendFails, WaitFails, Return, worldVars
    <2>3. CASE ReceiveHead(c)
      BY <2>0, <2>3 DEF ReceiveHead, worldVars
    <2>6. CASE GiveUp(c)
      BY <2>0, <2>6 DEF GiveUp, Return, worldVars
    <2>4. CASE ReadBody(c) \/ ReadFails(c)
      BY <2>0, <2>4 DEF ReadBody, ReadFails, Return, worldVars, metricVars
    <2>5. CASE Record(c)
      BY <2>0, <2>5 DEF Record, worldVars
    <2> QED BY <2>1, <2>2, <2>3, <2>4, <2>5, <2>6
  <1> DEFINE Backed(r) == /\ res' = [res EXCEPT ![c] = r]
                          /\ pc'[c] = "returned"
                          /\ r.ok => reply[c].status = "2xx"
  <1>2. res' = res \/ \E r \in Returns : Backed(r)
    <2>1. reply[c] \in Replies /\ pc \in [Calls -> States]
      BY DEF PipelineInv, TypeOK
    <2>2. CASE SendFails(c)
      <3>1. PICK why \in {"transport", "credential"}, words \in ErrorWords :
                Return(c, Failed(why, words))
        BY <2>2 DEF SendFails
      <3>2. words \subseteq Words
        BY CallsAssumption
      <3> QED BY <2>1, <3>1, <3>2, ResultFacts DEF Return, Reasons
    <2>3. CASE WaitFails(c) \/ GiveUp(c)
      <3>1. PICK why \in {"transport", "redirect"}, words \in ErrorWords :
                Return(c, Failed(why, words))
        BY <2>3 DEF WaitFails, GiveUp
      <3>2. words \subseteq Words
        BY CallsAssumption
      <3> QED BY <2>1, <3>1, <3>2, ResultFacts DEF Return, Reasons
    <2>4. CASE ReadBody(c) \/ ReadFails(c)
      <3>1. PICK data \in BodyParts : \E r \in Decodings(args[c].tool, reply[c], data) :
                                         Return(c, r)
        BY <2>4 DEF ReadBody, ReadFails, BodyParts
      <3>2. PICK r \in Decodings(args[c].tool, reply[c], data) : Return(c, r)
        BY <3>1
      <3>3. r \in Returns /\ (r.ok => reply[c].status = "2xx")
        BY <2>1, <3>2, DecodeFacts
      <3> QED BY <2>1, <3>2, <3>3 DEF Return
    <2>6. CASE Send(c) \/ ReceiveHead(c) \/ Record(c)
      BY <2>6 DEF Send, ReceiveHead, Record
    <2> QED BY <2>2, <2>3, <2>4, <2>6
  <1>12. res' \in [Calls -> Returns] /\ AnswersBacked'
    <2>1. /\ res \in [Calls -> Returns] /\ pc \in [Calls -> States]
          /\ AnswersBacked /\ reply' = reply
      BY <1>1 DEF PipelineInv, TypeOK
    <2>2. CASE res' = res
      BY <1>1, <2>1, <2>2 DEF AnswersBacked
    <2>3. CASE \E r \in Returns : Backed(r)
      <3>1. PICK r \in Returns : Backed(r)
        BY <2>3
      <3> QED BY <1>1, <2>1, <3>1 DEF AnswersBacked
    <2> QED BY <1>2, <2>2, <2>3
  <1>3. sentCred' \in [Calls -> 0 .. MaxRotations]
    <2>1. CASE Send(c)
      <3>1. args[c] \in Args /\ Refusal(args[c]) = "none"
        BY <2>1 DEF Send, PipelineInv, OnlyPassedSent
      <3>2. Target(c) \in Names
        BY <3>1, GuardFacts DEF Target
      <3> QED BY <2>1, <3>2 DEF Send, Credential, PipelineInv, TypeOK
    <2>2. CASE sentCred' = sentCred
      BY <2>2 DEF PipelineInv, TypeOK
    <2> QED BY <2>1, <2>2 DEF SendFails, ReceiveHead, GiveUp, WaitFails, ReadBody,
                              ReadFails, Record
  <1>4. toolCalls' \in [Results -> Nat] /\ series' \subseteq (AskedNames \ {NoName}) \cup {DefaultName}
    <2>1. CASE Record(c)
      <3>1. args[c] \in Args
        BY <2>1 DEF Record, PipelineInv, OnlyPassedSent
      <3>2. Label(args[c]) \in (AskedNames \ {NoName}) \cup {DefaultName}
        BY <3>1, ArgsFacts DEF Label
      <3>3. Classify(res[c]) \in Results
        BY DEF Classify, Results
      <3> QED BY <2>1, <3>2, <3>3 DEF Record, CountCall, PipelineInv, TypeOK
    <2>2. CASE toolCalls' = toolCalls /\ series' = series
      BY <2>2 DEF PipelineInv, TypeOK
    <2> QED BY <2>1, <2>2 DEF Send, SendFails, ReceiveHead, GiveUp, WaitFails,
                              ReadBody, ReadFails, metricVars
  <1>5. dsRequests' \in [Codes -> Nat]
    <2>1. \A code \in Codes : CountRequest(code) => dsRequests' \in [Codes -> Nat]
      BY DEF CountRequest, PipelineInv, TypeOK
    <2>2. CASE ReceiveHead(c) \/ GiveUp(c)
      <3>0. reply[c] \in Replies
        BY DEF PipelineInv, TypeOK
      <3>1. reply[c].status \in Codes
        BY <2>2, <3>0 DEF ReceiveHead, GiveUp, Replied, Redirected, Replies, Codes, Statuses
      <3> QED BY <2>2, <3>1, <2>1 DEF ReceiveHead, GiveUp
    <2>3. CASE SendFails(c) \/ WaitFails(c)
      BY <2>3, <2>1 DEF SendFails, WaitFails, Codes
    <2>4. CASE dsRequests' = dsRequests
      BY <2>4 DEF PipelineInv, TypeOK
    <2> QED BY <2>2, <2>3, <2>4 DEF Send, ReadBody, ReadFails, Record, metricVars
  <1>6. TypeOK'
    <2>1. pc' \in [Calls -> States]
      BY <1>1 DEF PipelineInv, TypeOK, States
    <2>2. /\ args' \in [Calls -> Args \cup {Unasked}]
          /\ reply' \in [Calls -> Replies]
          /\ wire' \subseteq Calls
          /\ followed' \in [Calls -> 0 .. MaxFollowed] /\ turned' \subseteq Calls
          /\ startCred' \in [Calls -> 0 .. MaxRotations]
          /\ credVersion' \in [Names -> 0 .. MaxRotations]
          /\ silences' \subseteq Silences
          /\ writesBlocked' \in [WriteBlocks -> Nat]
      BY <1>1 DEF PipelineInv, TypeOK
    <2> QED BY <2>1, <2>2, <1>12, <1>3, <1>4, <1>5 DEF TypeOK
  <1>7. OnlyPassedSent'
    BY <1>1 DEF PipelineInv, TypeOK, OnlyPassedSent, Replied
  <1>8. UnsentUnmade'
    <2>1. \A e \in Calls, n \in 0 .. MaxFollowed : Unsent(e, n)' => Unsent(e, n)
      BY <1>1 DEF PipelineInv, TypeOK, Unsent
    <2> QED BY <1>1, <2>1 DEF PipelineInv, UnsentUnmade
  <1>9. OneSilencePerId'
    BY <1>1 DEF PipelineInv, OneSilencePerId
  <1>10. RepliesTrue'
    BY <1>1, InEffectStable DEF PipelineInv, RepliesTrue
  <1> QED BY <1>6, <1>7, <1>8, <1>9, <1>10, <1>12 DEF PipelineInv

\* Following a redirect: what was sent before stands, a new request is not sent yet.
LEMMA FollowKeeps ==
    ASSUME PipelineInv, NEW c \in Calls, Follow(c)
    PROVE  PipelineInv'
  <1>1. /\ pc[c] = "waiting" /\ pc' = [pc EXCEPT ![c] = "roundtrip"]
        /\ reply[c] \in Replies /\ Replied(c) /\ reply[c].status \in Codes
        /\ reply' = [reply EXCEPT ![c] = NoReply]
        /\ followed[c] \in 0 .. MaxFollowed /\ followed[c] < MaxFollowed
        /\ followed' = [followed EXCEPT ![c] = @ + 1]
        /\ turned' = turned \/ turned' = turned \cup {c}
        /\ dsRequests' = [dsRequests EXCEPT ![reply[c].status] = @ + 1]
        /\ UNCHANGED <<args, res, startCred, sentCred, wire, credVersion, silences,
                       toolCalls, series, writesBlocked>>
    <2>1. reply[c] \in Replies /\ followed[c] \in 0 .. MaxFollowed
      BY DEF PipelineInv, TypeOK
    <2>2. reply[c].status = "3xx"
      BY <2>1 DEF Follow, Redirected, Replies
    <2> QED BY <2>1, <2>2 DEF Follow, CountRequest, Replied, Codes, Statuses, worldVars
  <1>2. c \notin wire /\ args[c] \in Args /\ Refusal(args[c]) = "none" /\ ~ res[c].ok
    BY <1>1 DEF PipelineInv, OnlyPassedSent, AnswersBacked
  <1>3. NoReply \in Replies /\ NoReply.status = "none"
    BY DEF NoReply, Replies
  <1>4. TypeOK'
    <2>1. followed' \in [Calls -> 0 .. MaxFollowed]
      BY <1>1 DEF PipelineInv, TypeOK
    <2> QED BY <1>1, <1>3, <2>1 DEF PipelineInv, TypeOK, States
  <1>5. OnlyPassedSent'
    BY <1>1, <1>2, <1>3 DEF PipelineInv, TypeOK, OnlyPassedSent, Replied
  <1>6. UnsentUnmade'
    <2>1. \A e \in Calls, n \in 0 .. MaxFollowed : Unsent(e, n)' => Unsent(e, n)
      BY <1>1, <1>2 DEF PipelineInv, TypeOK, Unsent
    <2> QED BY <1>1, <2>1 DEF PipelineInv, UnsentUnmade
  <1>7. OneSilencePerId'
    BY <1>1 DEF PipelineInv, OneSilencePerId
  <1>8. RepliesTrue'
    <2> SUFFICES ASSUME NEW e \in Calls, reply'[e].status = "2xx", e \notin turned'
                 PROVE  InEffect(e)'
      BY DEF RepliesTrue
    <2>1. e # c
      BY <1>1, <1>3 DEF PipelineInv, TypeOK
    <2> QED BY <2>1, <1>1, InEffectStable DEF PipelineInv, TypeOK, RepliesTrue
  <1>9. AnswersBacked'
    BY <1>1, <1>2 DEF PipelineInv, TypeOK, AnswersBacked
  <1> QED BY <1>4, <1>5, <1>6, <1>7, <1>8, <1>9 DEF PipelineInv

\* What a request that has reached the backend is known to be.
LEMMA WireFacts ==
    ASSUME PipelineInv, NEW c \in wire
    PROVE  /\ c \in Calls /\ args[c] \in Args /\ ~ Replied(c)
           /\ pc[c] \notin {"idle", "roundtrip"}
           /\ Target(c) \in Names
           /\ args[c].tool \in WriteTools =>
                  IsAlertmanager(Target(c)) /\ WriteBlock(Target(c)) = "none"
           /\ \A s \in silences : s.id # <<c, followed[c]>>
  <1>1. /\ c \in Calls /\ args[c] \in Args /\ ~ Replied(c)
        /\ pc[c] \notin {"idle", "roundtrip"}
        /\ Refusal(args[c]) = "none"
    BY DEF PipelineInv, TypeOK, OnlyPassedSent
  <1>2. /\ Target(c) \in Names
        /\ TypeFits(args[c].tool, Target(c))
        /\ args[c].tool \in WriteTools => WriteBlock(Target(c)) = "none"
    BY <1>1, GuardFacts DEF Target
  <1>3. args[c].tool \in WriteTools => IsAlertmanager(Target(c))
    BY <1>2 DEF TypeFits, WriteTools, MetricsTools, LogsTools
  <1>4. \A s \in silences : s.id # <<c, followed[c]>>
    <2>1. followed[c] \in 0 .. MaxFollowed /\ Unsent(c, followed[c])
      BY <1>1 DEF PipelineInv, TypeOK, Unsent
    <2> QED BY <1>1, <2>1 DEF PipelineInv, UnsentUnmade
  <1> QED BY <1>1, <1>2, <1>3, <1>4

\* Applying a request leaves every order in effect that was in effect, and puts
\* its own into effect; there is still one silence for an ID.
LEMMA ApplyEffect ==
    ASSUME PipelineInv, NEW c \in wire, UNCHANGED args,
           ApplyCreate(c) \/ ApplyDelete(c) \/ ApplyRead(c)
    PROVE  /\ silences' \subseteq Silences
           /\ OneSilencePerId'
           /\ \A s \in silences' : s.id = <<c, followed[c]>> \/ \E t \in silences : t.id = s.id
           /\ c \notin turned => InEffect(c)'
           /\ \A e \in Calls : InEffect(e) => InEffect(e)'
  <1>1. /\ c \in Calls /\ args[c] \in Args /\ Target(c) \in Names
        /\ followed[c] \in 0 .. MaxFollowed
        /\ \A s \in silences : s.id # <<c, followed[c]>>
        /\ silences \subseteq Silences
        /\ \A s, t \in silences : s.id = t.id => s = t
        /\ \A e : Target(e)' = Target(e)
    BY WireFacts DEF PipelineInv, TypeOK, OneSilencePerId, Target
  <1>2. CASE ApplyCreate(c)
    <2> DEFINE made == <<c, followed[c]>>
    <2> DEFINE new == [id |-> made, ds |-> Target(c), body |-> args[c].body, active |-> TRUE]
    <2>1. silences' = silences \cup {new} /\ args[c].tool = "alertmanager_silence_create"
      BY <1>2 DEF ApplyCreate
    <2>6. made \in {c} \X (0 .. MaxFollowed) /\ made \in Minted /\ \A s \in silences : s.id # made
      BY <1>1 DEF Minted
    <2> HIDE DEF made
    <2>2. /\ new \in Silences
          /\ new.id = made /\ new.ds = Target(c) /\ new.body = args[c].body
      BY <1>1, <2>1, <2>6, ArgsFacts DEF Silences
    <2> HIDE DEF new
    <2>3. silences' \subseteq Silences /\ OneSilencePerId'
      BY <1>1, <2>1, <2>2, <2>6 DEF OneSilencePerId
    <2>4. InEffect(c)'
      <3>1. new \in SilencesOn(Target(c))'
        BY <1>1, <2>1, <2>2 DEF SilencesOn
      <3> QED BY <1>1, <2>1, <2>2, <2>6, <3>1 DEF InEffect
    <2>5. ASSUME NEW e \in Calls, InEffect(e) PROVE InEffect(e)'
      <3>1. CASE args[e].tool = "alertmanager_silence_create"
        BY <1>1, <2>1, <2>5, <3>1 DEF InEffect, SilencesOn
      <3>2. CASE args[e].tool = "alertmanager_silence_delete"
        <4>1. PICK s \in SilencesOn(Target(e)) : s.id = args[e].id
          BY <2>5, <3>2 DEF InEffect
        <4>2. args[e].id # made
          BY <4>1, <2>6 DEF SilencesOn
        <4> QED BY <1>1, <2>1, <2>2, <2>5, <3>2, <4>2 DEF InEffect, SilencesOn
      <3>3. CASE args[e].tool \notin WriteTools
        BY <3>3 DEF InEffect, WriteTools
      <3> QED BY <3>1, <3>2, <3>3 DEF WriteTools
    <2>7. \A s \in silences' : s.id = <<c, followed[c]>> \/ \E t \in silences : t.id = s.id
      BY <2>1, <2>2 DEF made
    <2> QED BY <2>3, <2>4, <2>5, <2>7
  <1>3. CASE ApplyDelete(c)
    <2>1. PICK s \in SilencesOn(Target(c)) :
              /\ s.id = args[c].id
              /\ silences' = (silences \ {s}) \cup {[s EXCEPT !.active = FALSE]}
      BY <1>3 DEF ApplyDelete
    <2> DEFINE new == [s EXCEPT !.active = FALSE]
    <2>2. /\ s \in silences /\ s \in Silences /\ s.ds = Target(c)
          /\ silences' = (silences \ {s}) \cup {new}
          /\ new \in Silences
          /\ new.id = s.id /\ new.ds = s.ds /\ new.body = s.body /\ new.active = FALSE
      BY <2>1, <1>1, ZenonT(60) DEF SilencesOn, Silences
    <2> HIDE DEF new
    <2>3. silences' \subseteq Silences /\ OneSilencePerId'
      BY <1>1, <2>2 DEF OneSilencePerId
    <2>4. args[c].tool = "alertmanager_silence_delete"
      BY <1>3 DEF ApplyDelete
    <2>5. InEffect(c)'
      BY <1>1, <2>1, <2>2, <2>4 DEF InEffect, SilencesOn
    <2>6. ASSUME NEW e \in Calls, InEffect(e) PROVE InEffect(e)'
      <3>1. CASE args[e].tool = "alertmanager_silence_create"
        <4>1. PICK t \in silences : /\ t.ds = Target(e) /\ t.body = args[e].body
                                    /\ t.id \in {e} \X (0 .. MaxFollowed)
          BY <2>6, <3>1 DEF InEffect, SilencesOn
        <4>2. \E t2 \in silences' : /\ t2.ds = Target(e) /\ t2.body = args[e].body
                                     /\ t2.id \in {e} \X (0 .. MaxFollowed)
          BY <4>1, <2>2
        <4> QED BY <4>2, <3>1, <1>1 DEF InEffect, SilencesOn
      <3>2. CASE args[e].tool = "alertmanager_silence_delete"
        <4>1. PICK t \in silences : t.ds = Target(e) /\ t.id = args[e].id
          BY <2>6, <3>2 DEF InEffect, SilencesOn
        <4>2. \E t2 \in silences' : t2.ds = Target(e) /\ t2.id = args[e].id
          BY <4>1, <2>2
        <4>3. \A t2 \in silences' : t2.ds = Target(e) /\ t2.id = args[e].id => ~ t2.active
          BY <2>6, <3>2, <2>2 DEF InEffect, SilencesOn
        <4> QED BY <4>2, <4>3, <3>2, <1>1 DEF InEffect, SilencesOn
      <3>3. CASE args[e].tool \notin WriteTools
        BY <3>3 DEF InEffect, WriteTools
      <3> QED BY <3>1, <3>2, <3>3 DEF WriteTools
    <2> QED BY <2>2, <2>3, <2>5, <2>6
  <1>4. CASE ApplyRead(c)
    <2>1. silences' = silences /\ (args[c].tool \notin WriteTools \/ c \in turned)
      BY <1>4 DEF ApplyRead
    <2>2. \A e \in Calls : InEffect(e)' <=> InEffect(e)
      BY <2>1, InEffectStable
    <2>3. c \notin turned => InEffect(c)
      BY <2>1 DEF InEffect, WriteTools
    <2> QED BY <1>1, <2>1, <2>2, <2>3 DEF OneSilencePerId
  <1> QED BY <1>2, <1>3, <1>4

LEMMA ReplyKeeps ==
    ASSUME PipelineInv, NEW c \in Calls, Apply(c) \/ Reject(c)
    PROVE  PipelineInv'
  <1>1. /\ c \in wire
        /\ wire' = wire \ {c}
        /\ UNCHANGED <<pc, args, res, startCred, sentCred, followed, turned, credVersion,
                       metricVars>>
    BY DEF Apply, Reject
  <1>2. PICK r \in Replies : /\ reply' = [reply EXCEPT ![c] = r]
                             /\ r.status # "none"
                             /\ r.status = "2xx" => Apply(c)
    <2>1. Errors \cup Redirections(c) \subseteq
              {r \in Replies : r.status \notin {"none", "2xx"}}
      <3>1. \A r \in Errors : r \in Replies /\ r.status \notin {"none", "2xx"}
        BY DEF Errors, Replies, Statuses
      <3>2. \A r \in Redirections(c) : r \in Replies /\ r.status \notin {"none", "2xx"}
        BY DEF Redirections, Redirects, Replies, Statuses
      <3> QED BY <3>1, <3>2
    <2>2. Successes \subseteq {r \in Replies : r.status # "none"}
      <3>1. [status |-> "2xx", words |-> {}, fits |-> TRUE, redirect |-> "none"] \in
                {r \in Replies : r.status # "none"}
        BY DEF Replies, Statuses
      <3>2. [status : {"2xx"}, words : ErrorWords, fits : {FALSE}, redirect : {"none"}] \subseteq
                {r \in Replies : r.status # "none"}
        BY DEF Replies, Statuses
      <3> QED BY <3>1, <3>2 DEF Successes
    <2>3. CASE Apply(c)
      <3>1. PICK r \in Successes \cup Errors \cup Redirections(c) :
                reply' = [reply EXCEPT ![c] = r]
        BY <2>3, Zenon DEF Apply, Reply
      <3> QED BY <2>1, <2>2, <2>3, <3>1
    <2>4. CASE Reject(c)
      <3>1. PICK r \in Errors \cup Redirections(c) : reply' = [reply EXCEPT ![c] = r]
        BY <2>4, Zenon DEF Reject, Reply
      <3> QED BY <2>1, <3>1
    <2> QED BY <2>3, <2>4
  <1>3. /\ silences' \subseteq Silences
        /\ OneSilencePerId'
        /\ \A s \in silences' : s.id = <<c, followed[c]>> \/ \E t \in silences : t.id = s.id
        /\ Apply(c) /\ c \notin turned => InEffect(c)'
        /\ \A e \in Calls : InEffect(e) => InEffect(e)'
    <2>1. CASE Apply(c)
      BY <1>1, <2>1, ApplyEffect DEF Apply
    <2>2. CASE silences' = silences /\ ~ Apply(c)
      BY <1>1, <2>2, InEffectStable DEF PipelineInv, TypeOK, OneSilencePerId
    <2> QED BY <2>1, <2>2 DEF Reject
  <1>4. /\ ~ Replied(c) /\ pc[c] \notin {"idle", "roundtrip"} /\ args[c] \in Args
        /\ reply \in [Calls -> Replies]
    BY <1>1, WireFacts DEF PipelineInv, TypeOK
  <1>5. TypeOK'
    BY <1>1, <1>2, <1>3, <1>4 DEF PipelineInv, TypeOK, metricVars
  <1>6. OnlyPassedSent'
    <2>1. \A e \in Calls : e # c => (Replied(e)' <=> Replied(e))
      BY <1>2, <1>4 DEF Replied
    <2> QED BY <1>1, <1>4, <2>1 DEF PipelineInv, OnlyPassedSent, Replied
  <1>7. UnsentUnmade'
    <2> SUFFICES ASSUME NEW e \in Calls, NEW n \in 0 .. MaxFollowed, Unsent(e, n)',
                        NEW s \in silences'
                 PROVE  s.id # <<e, n>>
      BY DEF UnsentUnmade
    <2>1. Unsent(e, n)
      BY <1>1 DEF Unsent
    <2>2. <<e, n>> # <<c, followed[c]>>
      BY <1>1, <1>4 DEF PipelineInv, TypeOK, Unsent
    <2> QED BY <1>3, <2>1, <2>2 DEF PipelineInv, UnsentUnmade
  <1>8. RepliesTrue'
    <2> SUFFICES ASSUME NEW e \in Calls, reply'[e].status = "2xx", e \notin turned'
                 PROVE  InEffect(e)'
      BY DEF RepliesTrue
    <2>1. CASE e = c
      BY <2>1, <1>1, <1>2, <1>3, <1>4
    <2>2. CASE e # c
      BY <2>2, <1>1, <1>2, <1>3, <1>4 DEF PipelineInv, RepliesTrue
    <2> QED BY <2>1, <2>2
  <1>9. AnswersBacked'
    BY <1>1, <1>2, <1>4 DEF PipelineInv, AnswersBacked, Replied
  <1> QED BY <1>3, <1>5, <1>6, <1>7, <1>8, <1>9 DEF PipelineInv

LEMMA RotateKeeps ==
    ASSUME PipelineInv, NEW d \in FileCredNames, Rotate(d)
    PROVE  PipelineInv'
  <1>1. /\ credVersion' \in [Names -> 0 .. MaxRotations]
        /\ UNCHANGED <<callVars, wire, silences, metricVars>>
    BY DEF PipelineInv, TypeOK, Rotate
  <1>2. TypeOK'
    BY <1>1 DEF PipelineInv, TypeOK, callVars, metricVars
  <1>3. OnlyPassedSent' /\ UnsentUnmade' /\ OneSilencePerId' /\ AnswersBacked'
    BY <1>1 DEF PipelineInv, OnlyPassedSent, UnsentUnmade, Unsent, OneSilencePerId,
                AnswersBacked, Replied, callVars
  <1>4. RepliesTrue'
    BY <1>1, InEffectStable DEF PipelineInv, RepliesTrue, callVars
  <1> QED BY <1>2, <1>3, <1>4 DEF PipelineInv

LEMMA StutterKeeps ==
    ASSUME PipelineInv, UNCHANGED vars
    PROVE  PipelineInv'
  <1>1. TypeOK' /\ OnlyPassedSent' /\ UnsentUnmade' /\ OneSilencePerId' /\ AnswersBacked'
    BY DEF PipelineInv, TypeOK, OnlyPassedSent, UnsentUnmade, Unsent, OneSilencePerId,
           AnswersBacked, Replied, vars, callVars, worldVars, metricVars
  <1>2. RepliesTrue'
    BY InEffectStable DEF PipelineInv, RepliesTrue, vars, callVars, worldVars
  <1> QED BY <1>1, <1>2 DEF PipelineInv

-----------------------------------------------------------------------------

\* The inductive invariant: what has been sent has passed the guards, and an order
\* that no redirect has turned into a GET has a 2xx only when it is in effect.
THEOREM Invariance == Spec => []PipelineInv
  <1>1. ASSUME PipelineInv, [Next]_vars PROVE PipelineInv'
    <2>1. CASE \E c \in Calls : CallStep(c)
      BY <1>1, <2>1, GuardKeeps, CallKeeps, FollowKeeps DEF CallStep
    <2>2. CASE \E c \in Calls : Apply(c) \/ Reject(c)
      BY <1>1, <2>2, ReplyKeeps
    <2>3. CASE \E d \in FileCredNames : Rotate(d)
      BY <1>1, <2>3, RotateKeeps
    <2>4. CASE Finished \/ UNCHANGED vars
      BY <1>1, <2>4, StutterKeeps DEF Finished
    <2> QED BY <1>1, <2>1, <2>2, <2>3, <2>4 DEF Next
  <1> QED BY <1>1, InitHolds, PTL DEF Spec

\* Every variable keeps its type.
THEOREM TypeCorrect == Spec => []TypeOK
  <1>1. PipelineInv => TypeOK
    BY DEF PipelineInv
  <1> QED BY <1>1, Invariance, PTL

\* An agent told that its silence was created or deleted can rely on it, if no
\* redirect has turned its POST or DELETE into a GET.
THEOREM AnswersAreTrue == Spec => []AnswerTrue
  <1>1. PipelineInv => AnswerTrue
    BY DEF PipelineInv, RepliesTrue, AnswersBacked, AnswerTrue, AnsweredOk
  <1> QED BY <1>1, Invariance, PTL

\* A datasource whose silences nobody may change through the server: it is read-only, the
\* server is, or it is no Alertmanager.
Protected(d) == WriteBlock(d) # "none" \/ ~ IsAlertmanager(d)

Untouched == \A d \in Names : Protected(d) => SilencesOn(d)' = SilencesOn(d)

LEMMA StepUntouched == ASSUME PipelineInv, [Next]_vars PROVE Untouched
  <1>1. CASE silences' = silences
    BY <1>1 DEF Untouched, SilencesOn
  <1>2. ASSUME NEW c \in Calls, Apply(c) PROVE Untouched
    <2>1. /\ c \in wire
          /\ args[c].tool \in WriteTools =>
                 IsAlertmanager(Target(c)) /\ WriteBlock(Target(c)) = "none"
      BY <1>2, WireFacts DEF Apply
    <2> SUFFICES ASSUME NEW d \in Names, Protected(d)
                 PROVE  SilencesOn(d)' = SilencesOn(d)
      BY DEF Untouched
    <2>2. CASE ApplyCreate(c)
      <3>1. Target(c) # d
        BY <2>1, <2>2 DEF ApplyCreate, WriteTools, Protected
      <3> QED BY <2>2, <3>1 DEF ApplyCreate, SilencesOn
    <2>3. CASE ApplyDelete(c)
      <3>1. Target(c) # d
        BY <2>1, <2>3 DEF ApplyDelete, WriteTools, Protected
      <3>2. PICK s \in SilencesOn(Target(c)) :
                silences' = (silences \ {s}) \cup {[s EXCEPT !.active = FALSE]}
        BY <2>3 DEF ApplyDelete
      <3>3. s.ds = Target(c) /\ s \in Silences
        BY DEF SilencesOn, PipelineInv, TypeOK
      <3>4. [s EXCEPT !.active = FALSE].ds = Target(c)
        BY <3>3 DEF Silences
      <3> QED BY <3>1, <3>2, <3>3, <3>4 DEF SilencesOn
    <2>4. CASE ApplyRead(c)
      BY <2>4 DEF ApplyRead, SilencesOn
    <2> QED BY <1>2, <2>2, <2>3, <2>4 DEF Apply
  <1>3. (\E c \in Calls : Apply(c)) \/ silences' = silences
    BY DEF Next, CallStep, Guard, Send, SendFails, ReceiveHead, Follow, GiveUp, WaitFails,
                ReadBody, ReadFails, Record, Reject, Rotate, Finished,
                vars, worldVars
  <1> QED BY <1>1, <1>2, <1>3

\* No step changes a silence on a datasource that may not be written to.
THEOREM GuardHolds == Spec => ReadOnlyUntouched
  <1>1. Untouched =>
          \A d \in Names : WriteBlock(d) # "none" \/ ~ IsAlertmanager(d) =>
              SilencesOn(d)' = SilencesOn(d)
    BY DEF Untouched, Protected
  <1> QED BY <1>1, StepUntouched, Invariance, PTL DEF Spec, ReadOnlyUntouched

\* The silences that others had made on d before the server started.
FirstOn(d) ==
    {[id |-> o, ds |-> d, body |-> "other", active |-> TRUE] : o \in {x \in Others : OthersOn[x] = d}}

ProtectedIntact == \A d \in Names : Protected(d) => SilencesOn(d) = FirstOn(d)

\* However many calls an agent makes, and whatever the network and the backends do with
\* them, a protected datasource has for ever the silences that others had made on it.
THEOREM ProtectedStaysIntact == Spec => []ProtectedIntact
  <1>1. Init => ProtectedIntact
    BY DEF Init, SilencesOfOthers, ProtectedIntact, SilencesOn, FirstOn
  <1>2. ASSUME PipelineInv, [Next]_vars, ProtectedIntact PROVE ProtectedIntact'
    BY <1>2, StepUntouched DEF Untouched, ProtectedIntact, Protected, FirstOn
  <1> QED BY <1>1, <1>2, Invariance, PTL DEF Spec

-----------------------------------------------------------------------------

\* The pipeline implements the service: its steps are placements, effects and
\* answers of the service, or none of its business.

OrderMap == [c \in Calls |-> OrderOf(args[c])]
PhaseMap == [c \in Calls |-> PhaseOf(c)]

LEMMA KindFacts ==
    ASSUME NEW a \in Args
    PROVE  /\ a.tool = "alertmanager_silence_create" <=> OrderOf(a).kind = "create"
           /\ a.tool = "alertmanager_silence_delete" <=> OrderOf(a).kind = "delete"
           /\ OrderOf(a).kind \in {"create", "delete", "read"}
           /\ OrderOf(a).ds = Resolve(a.name)
           /\ OrderOf(a).id = a.id /\ OrderOf(a).body = a.body
  BY DEF OrderOf, KindOf

LEMMA GuardPlaces ==
    ASSUME PipelineInv, NEW c \in Calls, NEW a \in Args, Guard(c, a)
    PROVE  Service!Place(c, OrderOf(a))
  <1>1. /\ pc \in [Calls -> States] /\ args \in [Calls -> Args \cup {Unasked}]
        /\ pc[c] = "idle" /\ UNCHANGED <<silences, turned>>
        /\ args' = [args EXCEPT ![c] = a]
        /\ \/ pc' = [pc EXCEPT ![c] = "roundtrip"] /\ UNCHANGED res
           \/ pc' = [pc EXCEPT ![c] = "returned"] /\ \E r : res' = [res EXCEPT ![c] = r]
        /\ res \in [Calls -> Returns]
    BY DEF Guard, Return, PipelineInv, TypeOK, worldVars
  <1>2. PhaseOf(c) = "idle" /\ PhaseOf(c)' = "open"
    BY <1>1 DEF PhaseOf
  <1>3. \A e \in Calls : e # c => PhaseOf(e)' = PhaseOf(e)
    BY <1>1 DEF PhaseOf
  <1>4. PhaseMap' = [PhaseMap EXCEPT ![c] = "open"]
    BY <1>2, <1>3 DEF PhaseMap
  <1>5. OrderMap' = [OrderMap EXCEPT ![c] = OrderOf(a)]
    BY <1>1 DEF OrderMap
  <1> QED BY <1>1, <1>2, <1>4, <1>5 DEF Service!Place, PhaseMap, OrderMap

LEMMA RecordAnswers ==
    ASSUME PipelineInv, NEW c \in Calls, Record(c)
    PROVE  Service!Answer(c)
  <1>1. /\ pc \in [Calls -> States] /\ pc[c] = "returned" /\ args[c] \in Args
        /\ pc' = [pc EXCEPT ![c] = "answered"]
        /\ UNCHANGED <<args, res, silences, turned>>
    BY DEF Record, PipelineInv, TypeOK, OnlyPassedSent, worldVars
  <1>2. /\ PhaseOf(c) = "open"
        /\ PhaseOf(c)' = IF res[c].ok THEN "done" ELSE "failed"
        /\ \A e \in Calls : e # c => PhaseOf(e)' = PhaseOf(e)
    BY <1>1 DEF PhaseOf
  <1>3. /\ PhaseMap' = [PhaseMap EXCEPT ![c] = IF res[c].ok THEN "done" ELSE "failed"]
        /\ PhaseMap[c] = "open" /\ OrderMap' = OrderMap
    BY <1>1, <1>2 DEF PhaseMap, OrderMap
  <1>4. OrderMap[c] = OrderOf(args[c])
    BY DEF OrderMap
  <1>5. ASSUME res[c].ok, c \notin turned PROVE Service!InEffect(c)
    <2>1. InEffect(c)
      BY <1>5 DEF PipelineInv, RepliesTrue, AnswersBacked
    <2>2. CASE args[c].tool = "alertmanager_silence_create"
      BY <2>1, <2>2, <1>1, <1>4, KindFacts
         DEF InEffect, SilencesOn, Target, OrderMap, Service!InEffect, Service!Created,
             Service!IdsOf
    <2>3. CASE args[c].tool = "alertmanager_silence_delete"
      BY <2>1, <2>3, <1>1, <1>4, KindFacts
         DEF InEffect, SilencesOn, Target, OrderMap, Service!InEffect, Service!Deleted
    <2>4. CASE args[c].tool \notin WriteTools
      BY <2>4, <1>1, <1>4, KindFacts DEF WriteTools, OrderMap, Service!InEffect
    <2> QED BY <2>2, <2>3, <2>4 DEF WriteTools
  <1> QED BY <1>1, <1>3, <1>5 DEF Service!Answer, PhaseMap, OrderMap

LEMMA ApplyTakesEffect ==
    ASSUME PipelineInv, NEW c \in Calls, Apply(c)
    PROVE  Service!TakeEffect(c) \/ UNCHANGED Service!vars
  <1>1. /\ c \in wire /\ args[c] \in Args
        /\ UNCHANGED <<pc, args, res, turned>>
        /\ pc[c] # "idle" /\ pc \in [Calls -> States]
        /\ Target(c) \in Names
        /\ args[c].tool \in WriteTools =>
               IsAlertmanager(Target(c)) /\ WriteBlock(Target(c)) = "none"
        /\ followed[c] \in 0 .. MaxFollowed
        /\ \A s \in silences : s.id # <<c, followed[c]>>
    BY WireFacts DEF Apply, PipelineInv, TypeOK
  <1>2. PhaseMap' = PhaseMap /\ OrderMap' = OrderMap /\ PhaseMap[c] # "idle"
    BY <1>1 DEF PhaseMap, OrderMap, PhaseOf
  <1>3. /\ OrderMap[c] = OrderOf(args[c])
        /\ OrderMap[c].ds = Target(c) /\ OrderMap[c].body = args[c].body
        /\ OrderMap[c].id = args[c].id
        /\ args[c].tool = "alertmanager_silence_create" <=> OrderMap[c].kind = "create"
        /\ args[c].tool = "alertmanager_silence_delete" <=> OrderMap[c].kind = "delete"
    BY <1>1, KindFacts DEF OrderMap, Target
  <1>4. CASE ApplyCreate(c)
    <2> DEFINE made == <<c, followed[c]>>
    <2>1. /\ args[c].tool = "alertmanager_silence_create" /\ c \notin turned
          /\ silences' = silences \cup
               {[id |-> made, ds |-> OrderMap[c].ds, body |-> OrderMap[c].body, active |-> TRUE]}
      BY <1>4, <1>3 DEF ApplyCreate
    <2>2. made \in Service!IdsOf(c) /\ \A s \in silences : s.id # made
      BY <1>1 DEF Service!IdsOf
    <2> HIDE DEF made
    <2>3. OrderMap[c].ds \in Unprotected /\ OrderMap[c].kind = "create"
      BY <1>1, <1>3, <2>1 DEF WriteTools, Unprotected
    <2> QED BY <1>1, <1>2, <2>1, <2>2, <2>3 DEF Service!TakeEffect, PhaseMap, OrderMap
  <1>5. CASE ApplyDelete(c)
    <2>1. args[c].tool = "alertmanager_silence_delete" /\ c \notin turned
      BY <1>5 DEF ApplyDelete
    <2>2. \E s \in silences :
            /\ s.id = OrderMap[c].id /\ s.ds = OrderMap[c].ds /\ s.active
            /\ silences' = (silences \ {s}) \cup {[s EXCEPT !.active = FALSE]}
      BY <1>5, <1>3 DEF ApplyDelete, SilencesOn
    <2>3. OrderMap[c].ds \in Unprotected /\ OrderMap[c].kind = "delete"
      BY <1>1, <1>3, <2>1 DEF WriteTools, Unprotected
    <2> QED BY <1>1, <1>2, <2>1, <2>2, <2>3 DEF Service!TakeEffect, PhaseMap, OrderMap
  <1>6. CASE ApplyRead(c)
    BY <1>6, <1>1, <1>2 DEF ApplyRead, Service!vars, PhaseMap, OrderMap
  <1> QED BY <1>4, <1>5, <1>6 DEF Apply

\* To the service, following a redirect is to turn the order away or nothing at all.
LEMMA FollowTurnsAway ==
    ASSUME PipelineInv, NEW c \in Calls, Follow(c)
    PROVE  Service!TurnAway(c) \/ UNCHANGED Service!vars
  <1>1. /\ pc \in [Calls -> States] /\ pc[c] = "waiting"
        /\ pc' = [pc EXCEPT ![c] = "roundtrip"]
        /\ turned' = turned \/ turned' = turned \cup {c}
        /\ UNCHANGED <<args, res, silences>>
    BY DEF Follow, PipelineInv, TypeOK, worldVars
  <1>2. PhaseOf(c) = "open" /\ \A e \in Calls : PhaseOf(e)' = PhaseOf(e)
    BY <1>1 DEF PhaseOf
  <1>3. PhaseMap[c] = "open" /\ PhaseMap' = PhaseMap /\ OrderMap' = OrderMap
    BY <1>1, <1>2 DEF PhaseMap, OrderMap
  <1> QED BY <1>1, <1>3 DEF Service!TurnAway, Service!vars, PhaseMap, OrderMap

LEMMA OthersStutter ==
    ASSUME PipelineInv,
           \/ \E c \in Calls : \/ Send(c) \/ SendFails(c) \/ ReceiveHead(c) \/ GiveUp(c)
                              \/ WaitFails(c) \/ ReadBody(c) \/ ReadFails(c)
                              \/ Reject(c)
           \/ \E d \in FileCredNames : Rotate(d)
           \/ UNCHANGED vars
    PROVE  UNCHANGED Service!vars
  <1> DEFINE Open == {"roundtrip", "waiting", "reading", "returned"}
  <1>1. args' = args /\ silences' = silences /\ turned' = turned
    BY DEF Send, SendFails, ReceiveHead, GiveUp, WaitFails, ReadBody, ReadFails, Reject,
           Rotate, vars, callVars, worldVars
  <1>2. \A e \in Calls : PhaseOf(e)' = PhaseOf(e)
    <2>1. CASE pc' = pc /\ res' = res
      BY <2>1 DEF PhaseOf
    <2>2. ASSUME NEW c \in Calls,
                 \/ Send(c) \/ SendFails(c) \/ ReceiveHead(c) \/ GiveUp(c)
                 \/ WaitFails(c) \/ ReadBody(c) \/ ReadFails(c)
          PROVE  \A e \in Calls : PhaseOf(e)' = PhaseOf(e)
      <3>1. pc \in [Calls -> States] /\ res \in [Calls -> Returns]
        BY DEF PipelineInv, TypeOK
      <3>2. /\ pc[c] \in Open /\ pc'[c] \in Open
            /\ \A e \in Calls : e # c => pc'[e] = pc[e] /\ res'[e] = res[e]
        <4>1. CASE Send(c) \/ ReceiveHead(c)
          BY <4>1, <3>1 DEF Send, ReceiveHead
        <4>2. CASE SendFails(c) \/ WaitFails(c) \/ GiveUp(c)
          BY <4>2, <3>1 DEF SendFails, WaitFails, GiveUp, Return
        <4>3. CASE ReadBody(c) \/ ReadFails(c)
          BY <4>3, <3>1 DEF ReadBody, ReadFails, Return
        <4> QED BY <2>2, <4>1, <4>2, <4>3
      <3> QED BY <3>2 DEF PhaseOf
    <2> QED BY <2>1, <2>2 DEF Reject, Rotate, vars, callVars
  <1>3. PhaseMap' = PhaseMap /\ OrderMap' = OrderMap
    BY <1>1, <1>2 DEF PhaseMap, OrderMap
  <1> QED BY <1>1, <1>3 DEF Service!vars, PhaseMap, OrderMap

\* The pipeline implements the service: orders take effect only where writing is
\* allowed, at most once and once more for each redirect that repeats them, and are
\* answered "done" only when in effect or when a redirect has turned them away.
THEOREM Implementation == Spec => ImplementsService
  <1>1. Init => Service!Init
    <2> SUFFICES ASSUME Init PROVE Service!Init
      OBVIOUS
    <2>1. PhaseMap = [c \in Calls |-> "idle"]
      BY DEF Init, PhaseMap, PhaseOf
    <2>2. OrderMap \in [Calls -> OrdersPlaced]
      BY DEF Init, OrderMap, OrdersPlaced
    <2> QED BY <2>1, <2>2 DEF Init, Service!Init, PhaseMap, OrderMap
  <1>2. ASSUME PipelineInv, [Next]_vars PROVE [Service!Next]_(Service!vars)
    <2>1. ASSUME NEW c \in Calls, NEW a \in Args, Guard(c, a) PROVE Service!Next
      <3>1. Service!Place(c, OrderOf(a))
        BY <1>2, <2>1, GuardPlaces
      <3>2. OrderOf(a) \in OrdersPlaced
        BY DEF OrdersPlaced
      <3> QED BY <3>1, <3>2 DEF Service!Next
    <2>2. ASSUME NEW c \in Calls, Record(c) PROVE Service!Next
      BY <1>2, <2>2, RecordAnswers DEF Service!Next
    <2>3. ASSUME NEW c \in Calls, Apply(c) PROVE [Service!Next]_(Service!vars)
      BY <1>2, <2>3, ApplyTakesEffect DEF Service!Next
    <2>5. ASSUME NEW c \in Calls, Follow(c) PROVE [Service!Next]_(Service!vars)
      BY <1>2, <2>5, FollowTurnsAway DEF Service!Next
    <2>4. CASE \/ \E c \in Calls : \/ Send(c) \/ SendFails(c) \/ ReceiveHead(c) \/ GiveUp(c)
                                  \/ WaitFails(c) \/ ReadBody(c) \/ ReadFails(c)
                                  \/ Reject(c)
               \/ \E d \in FileCredNames : Rotate(d)
               \/ UNCHANGED vars
      BY <1>2, <2>4, OthersStutter
    <2> QED BY <1>2, <2>1, <2>2, <2>3, <2>4, <2>5 DEF Next, CallStep, Finished
  <1> QED BY <1>1, <1>2, Invariance, PTL DEF Spec, ImplementsService, Service!Spec

=============================================================================
