--------------------------- MODULE CountingProofs ---------------------------
(***************************************************************************)
(* Theorems about the counters and the credentials of the tool calls, for  *)
(* any number of calls and any configuration.                              *)
(***************************************************************************)
EXTENDS ToolCallsProofs, FiniteSetTheorems

\* What stands behind the four properties: the sets that are counted.
CountedAs(r)    == {c \in Calls : pc[c] = "answered" /\ Classify(res[c]) = r}
CallSets        == \A r \in Results : toolCalls[r] = Cardinality(CountedAs(r))

Over(c)         == pc[c] \in {"reading", "returned", "answered"} /\ res[c].why \notin Refusals
NoHead(c)       == res[c].why \in {"credential", "transport"}
CodeOf(c)       == IF NoHead(c) THEN "error" ELSE reply[c].status
EndedAs(code)   == {c \in Calls : Over(c) /\ CodeOf(c) = code}
Hops            == {h \in Calls \X (1 .. MaxFollowed) : h[2] <= followed[h[1]]}
FollowedAs(code) == IF code = "3xx" THEN Cardinality(Hops) ELSE 0
RequestSets     ==
    \A code \in Codes : dsRequests[code] = Cardinality(EndedAs(code)) + FollowedAs(code)

Blocked(c)      == pc[c] \in {"returned", "answered"} /\ Classify(res[c]) = "blocked"
BlockedCalls    == {c \in Calls : Blocked(c)}
BlockedCount    == writesBlocked["global_readonly"] + writesBlocked["datasource_readonly"]
BlockedSet      == BlockedCount = Cardinality(BlockedCalls)

\* One call more.
LEMMA OneMore ==
    ASSUME NEW S \in SUBSET Calls, NEW c \in Calls, c \notin S
    PROVE  Cardinality(S \cup {c}) = Cardinality(S) + 1 /\ Cardinality(S) \in Nat
  <1>1. IsFiniteSet(S)
    <2>1. IsFiniteSet(Calls)
      BY CallsAssumption
    <2> QED BY <2>1, FS_Subset, Zenon
  <1> QED BY <1>1, FS_AddElement, FS_CardinalityType

\* Result labels, and what the words in an error text make of it.
LEMMA ResultKinds == \A r : Classify(r) \in Results
  BY DEF Classify, Results

-----------------------------------------------------------------------------

\* Only Record answers a call, and what an answered call returned stays.
LEMMA AnswersStay ==
    ASSUME PipelineInv, [Next]_vars, \A c \in Calls : ~ Record(c)
    PROVE  /\ UNCHANGED toolCalls
           /\ \A c \in Calls : /\ pc'[c] = "answered" <=> pc[c] = "answered"
                               /\ pc[c] = "answered" => res'[c] = res[c]
  <1>0. pc \in [Calls -> States] /\ res \in [Calls -> Returns]
    BY DEF PipelineInv, TypeOK
  <1>1. CASE \E c \in Calls : \E a \in Args : Guard(c, a)
    <2>1. PICK c \in Calls, a \in Args : Guard(c, a)
      BY <1>1
    <2>2. /\ UNCHANGED toolCalls /\ pc[c] = "idle"
          /\ pc' = [pc EXCEPT ![c] = "roundtrip"] \/ pc' = [pc EXCEPT ![c] = "returned"]
          /\ \A d \in Calls : d # c => res'[d] = res[d]
      BY <1>0, <2>1 DEF Guard, Return
    <2> QED BY <1>0, <2>2
  <1>2. CASE \E c \in Calls : \/ Send(c) \/ SendFails(c) \/ ReceiveHead(c) \/ Follow(c)
                             \/ GiveUp(c) \/ WaitFails(c) \/ ReadBody(c) \/ ReadFails(c)
    <2>1. PICK c \in Calls : \/ Send(c) \/ SendFails(c) \/ ReceiveHead(c) \/ Follow(c)
                             \/ GiveUp(c) \/ WaitFails(c) \/ ReadBody(c) \/ ReadFails(c)
      BY <1>2
    <2>2. /\ UNCHANGED toolCalls /\ pc[c] # "answered"
          /\ \E where \in {"roundtrip", "waiting", "reading", "returned"} : pc' = [pc EXCEPT ![c] = where]
          /\ \A d \in Calls : d # c => res'[d] = res[d]
      BY <1>0, <2>1 DEF Send, SendFails, ReceiveHead, Follow, GiveUp, WaitFails, ReadBody,
                        ReadFails, Return, metricVars
    <2> QED BY <1>0, <2>2
  <1>3. CASE UNCHANGED <<pc, res, toolCalls>>
    BY <1>3
  <1>4. ASSUME NEW c \in Calls, Apply(c) \/ Reject(c) PROVE UNCHANGED <<pc, res, toolCalls>>
    BY <1>4 DEF Apply, Reject, metricVars
  <1>5. ASSUME NEW d \in FileCredNames, Rotate(d) PROVE UNCHANGED <<pc, res, toolCalls>>
    BY <1>5 DEF Rotate, callVars, metricVars
  <1>6. Finished \/ UNCHANGED vars => UNCHANGED <<pc, res, toolCalls>>
    BY DEF Finished, vars, callVars, metricVars
  <1> QED BY <1>1, <1>2, <1>3, <1>4, <1>5, <1>6 DEF Next, CallStep

LEMMA CallSetsStep == PipelineInv /\ CallSets /\ [Next]_vars => CallSets'
  <1> SUFFICES ASSUME PipelineInv, CallSets, [Next]_vars PROVE CallSets'
    OBVIOUS
  <1>0. pc \in [Calls -> States] /\ res \in [Calls -> Returns] /\ toolCalls \in [Results -> Nat]
    BY DEF PipelineInv, TypeOK
  <1>1. CASE \E c \in Calls : Record(c)
    <2>1. PICK c \in Calls : Record(c)
      BY <1>1
    <2> DEFINE k == Classify(res[c])
    <2>2. /\ pc[c] = "returned" /\ pc' = [pc EXCEPT ![c] = "answered"] /\ res' = res
          /\ toolCalls' = [toolCalls EXCEPT ![k] = @ + 1] /\ k \in Results
      BY <2>1, ResultKinds DEF Record, CountCall
    <2>3. CountedAs(k)' = CountedAs(k) \cup {c} /\ c \notin CountedAs(k)
      BY <1>0, <2>2 DEF CountedAs
    <2>4. \A r \in Results : r # k => CountedAs(r)' = CountedAs(r)
      BY <1>0, <2>2 DEF CountedAs
    <2>5. CountedAs(k) \in SUBSET Calls
      BY DEF CountedAs
    <2>6. Cardinality(CountedAs(k)') = Cardinality(CountedAs(k)) + 1
      BY <2>3, <2>5, OneMore
    <2>7. ASSUME NEW r \in Results PROVE toolCalls'[r] = Cardinality(CountedAs(r)')
      <3>1. CASE r = k
        BY <1>0, <2>2, <2>6, <3>1 DEF CallSets
      <3>2. CASE r # k
        BY <1>0, <2>2, <2>4, <3>2 DEF CallSets
      <3> QED BY <3>1, <3>2
    <2> QED BY <2>7 DEF CallSets
  <1>2. CASE \A c \in Calls : ~ Record(c)
    <2>1. /\ UNCHANGED toolCalls
          /\ \A c \in Calls : /\ pc'[c] = "answered" <=> pc[c] = "answered"
                              /\ pc[c] = "answered" => res'[c] = res[c]
      BY <1>2, AnswersStay
    <2>2. \A r \in Results : CountedAs(r)' = CountedAs(r)
      BY <2>1 DEF CountedAs
    <2> QED BY <2>1, <2>2 DEF CallSets
  <1> QED BY <1>1, <1>2

LEMMA CallSetsCounted == CallSets => CallsCounted
  <1> SUFFICES ASSUME CallSets, NEW r \in Results
               PROVE  toolCalls[r] =
                         Count([c \in Calls |-> pc[c] = "answered" /\ Classify(res[c]) = r])
    BY DEF CallsCounted
  <1> DEFINE P == [c \in Calls |-> pc[c] = "answered" /\ Classify(res[c]) = r]
  <1>1. {c \in Calls : P[c]} = CountedAs(r)
    BY Zenon DEF CountedAs
  <1> QED BY <1>1 DEF CallSets, Count

\* omcp_tool_calls_total counts each answered call once, under its result.
THEOREM CallsAreCounted == Spec => []CallsCounted
  <1>1. Init => CallSets
    <2> SUFFICES ASSUME Init PROVE CallSets
      OBVIOUS
    <2>1. \A r \in Results : CountedAs(r) = {} /\ toolCalls[r] = 0
      BY DEF Init, CountedAs
    <2> QED BY <2>1, FS_EmptySet DEF CallSets
  <1> QED BY <1>1, CallSetsStep, CallSetsCounted, Invariance, PTL DEF Spec

-----------------------------------------------------------------------------

\* A call has returned nothing before its end, and a round trip that ends with a
\* head has a reply.
EndsGrounded ==
    \A c \in Calls :
        /\ pc[c] \in {"idle", "roundtrip", "waiting", "reading"} => res[c].why = "none"
        /\ Over(c) /\ ~ NoHead(c) => Replied(c)

\* What a client makes of a reply is never a refusal nor a failure without a head.
LEMMA DecodedWhy ==
    \A tool, r : \A data \in BodyParts :
        \A x \in Decodings(tool, r, data) : x.why \in {"none", "status", "body"}
  <1> DEFINE Whys == {"none", "status", "body"}
  <1> SUFFICES ASSUME NEW tool, NEW r, NEW data \in BodyParts,
                      NEW x \in Decodings(tool, r, data)
               PROVE  x.why \in Whys
    OBVIOUS
  <1>1. /\ \A why \in Whys : \A words : Failed(why, words).why \in Whys
        /\ Answer(data).why \in Whys
    BY DEF Answer, Failed
  <1> HIDE DEF Whys
  <1>2. "status" \in Whys /\ "body" \in Whys
    BY DEF Whys
  <1>3. CASE x \in MetricsDecode(r, data)
    BY <1>1, <1>2, <1>3 DEF MetricsDecode, QuotingSome
  <1>4. CASE x \in LogsDecode(r, data)
    BY <1>1, <1>2, <1>4 DEF LogsDecode, QuotingSome
  <1>5. CASE x \in AMDecode(tool, r, data)
    <2>1. CASE r.status # "2xx"
      <3>1. \/ x \in Quoting("status", r) \/ x \in QuotingSome("status", r)
            \/ x = Failed("status", {})
        BY <1>5, <2>1 DEF AMDecode, BodyParts
      <3> QED BY <3>1, <1>1, <1>2 DEF Quoting, QuotingSome
    <2>2. CASE r.status = "2xx"
      BY <1>1, <1>2, <1>5, <2>2 DEF AMDecode, QuotingSome
    <2> QED BY <2>1, <2>2
  <1> QED BY <1>3, <1>4, <1>5 DEF Decodings

\* The steps that end a round trip without a head.
LEMMA TripFails ==
    ASSUME PipelineInv, EndsGrounded, NEW c \in Calls, SendFails(c) \/ WaitFails(c)
    PROVE  /\ ~ Over(c) /\ Over(c)' /\ NoHead(c)' /\ CountRequest("error")
           /\ pc'[c] = "returned"
           /\ UNCHANGED <<reply, followed>>
           /\ \A d \in Calls : d # c => pc'[d] = pc[d] /\ res'[d] = res[d]
  <1>0. pc \in [Calls -> States] /\ res \in [Calls -> Returns]
    BY DEF PipelineInv, TypeOK
  <1>1. PICK why \in {"transport", "credential"}, words \in ErrorWords :
            Return(c, Failed(why, words))
    BY DEF SendFails, WaitFails
  <1>2. /\ pc[c] \in {"roundtrip", "waiting"} /\ CountRequest("error")
        /\ UNCHANGED <<reply, followed>>
    BY DEF SendFails, WaitFails
  <1>3. pc'[c] = "returned" /\ res'[c].why = why
    BY <1>0, <1>1 DEF Return, Failed
  <1>4. why \notin Refusals
    BY <1>1 DEF Refusals, WriteBlocks
  <1>5. \A d \in Calls : d # c => pc'[d] = pc[d] /\ res'[d] = res[d]
    BY <1>0, <1>1 DEF Return
  <1> QED BY <1>1, <1>2, <1>3, <1>4, <1>5 DEF Over, NoHead

\* Steps that end no round trip leave the sets as they are.
Undisturbed ==
    /\ UNCHANGED <<dsRequests, followed>>
    /\ \A d \in Calls : /\ Over(d)' <=> Over(d)
                        /\ Over(d) => CodeOf(d)' = CodeOf(d)

LEMMA OthersUndisturbed ==
    ASSUME PipelineInv, EndsGrounded, [Next]_vars,
           \A c \in Calls : ~ (SendFails(c) \/ WaitFails(c) \/ ReceiveHead(c)),
           \A c \in Calls : ~ (Follow(c) \/ GiveUp(c))
    PROVE  Undisturbed /\ EndsGrounded'
  <1>0. /\ pc \in [Calls -> States] /\ res \in [Calls -> Returns]
        /\ reply \in [Calls -> Replies]
    BY DEF PipelineInv, TypeOK
  <1>1. ASSUME NEW c \in Calls, NEW a \in Args, Guard(c, a) PROVE Undisturbed /\ EndsGrounded'
    <2>1. /\ pc[c] = "idle" /\ UNCHANGED <<reply, dsRequests, followed>>
          /\ \/ pc' = [pc EXCEPT ![c] = "roundtrip"] /\ UNCHANGED res
             \/ pc' = [pc EXCEPT ![c] = "returned"] /\ res'[c].why \in Refusals
                  /\ \A d \in Calls : d # c => res'[d] = res[d]
      <3>1. Refusal(a) \in Refusals \cup {"none"}
        BY GuardFacts
      <3> QED BY <1>0, <1>1, <3>1 DEF Guard, Return, Failed
    <2>2. ~ Over(c) /\ ~ Over(c)'
      BY <1>0, <2>1 DEF Over
    <2>3. \A d \in Calls : d # c => pc'[d] = pc[d] /\ res'[d] = res[d] /\ reply'[d] = reply[d]
      BY <1>0, <2>1
    <2>4. Undisturbed
      BY <2>1, <2>2, <2>3 DEF Undisturbed, Over, CodeOf, NoHead
    <2>5. pc'[c] = "roundtrip" => res'[c].why = "none"
      BY <1>0, <2>1 DEF EndsGrounded
    <2>6. EndsGrounded'
      BY <1>0, <2>1, <2>2, <2>3, <2>5 DEF EndsGrounded, Over, NoHead, Replied
    <2> QED BY <2>4, <2>6
  <1>2. ASSUME NEW c \in Calls, Send(c) \/ Record(c) PROVE Undisturbed /\ EndsGrounded'
    <2>1. /\ UNCHANGED <<res, reply, dsRequests, followed>>
          /\ \/ pc[c] = "roundtrip" /\ pc' = [pc EXCEPT ![c] = "waiting"]
             \/ pc[c] = "returned" /\ pc' = [pc EXCEPT ![c] = "answered"]
      BY <1>2 DEF Send, Record, metricVars
    <2>2. \A d \in Calls : Over(d)' <=> Over(d)
      BY <1>0, <2>1 DEF Over
    <2>3. Undisturbed
      BY <2>1, <2>2 DEF Undisturbed, CodeOf, NoHead
    <2>4. EndsGrounded'
      BY <1>0, <2>1, <2>2 DEF EndsGrounded, NoHead, Replied
    <2> QED BY <2>3, <2>4
  <1>3. ASSUME NEW c \in Calls, ReadBody(c) \/ ReadFails(c) PROVE Undisturbed /\ EndsGrounded'
    <2>1. /\ pc[c] = "reading" /\ UNCHANGED <<reply, dsRequests, followed>>
          /\ \E data \in BodyParts :
               \E r \in Decodings(args[c].tool, reply[c], data) : Return(c, r)
      BY <1>3 DEF ReadBody, ReadFails, BodyParts, metricVars
    <2>2. /\ pc' = [pc EXCEPT ![c] = "returned"]
          /\ res'[c].why \in {"none", "status", "body"} /\ res[c].why = "none"
          /\ \A d \in Calls : d # c => res'[d] = res[d]
      BY <1>0, <2>1, DecodedWhy DEF Return, EndsGrounded
    <2>3. {"none", "status", "body"} \cap Refusals = {}
      BY DEF Refusals, WriteBlocks
    <2>4. Over(c) /\ Over(c)' /\ ~ NoHead(c) /\ ~ NoHead(c)'
      BY <1>0, <2>1, <2>2, <2>3 DEF Over, NoHead
    <2>5. \A d \in Calls : d # c => pc'[d] = pc[d] /\ res'[d] = res[d]
      BY <1>0, <2>2
    <2>6. \A d \in Calls : (Over(d)' <=> Over(d)) /\ (NoHead(d)' <=> NoHead(d))
      BY <2>4, <2>5 DEF Over, NoHead
    <2>7. Undisturbed
      BY <2>1, <2>6 DEF Undisturbed, CodeOf
    <2>8. EndsGrounded'
      BY <1>0, <2>1, <2>2, <2>5, <2>6 DEF EndsGrounded, Replied
    <2> QED BY <2>7, <2>8
  <1>4. ASSUME NEW c \in Calls, Apply(c) \/ Reject(c) PROVE Undisturbed /\ EndsGrounded'
    <2>1. /\ c \in wire /\ UNCHANGED <<pc, res, dsRequests, followed>>
          /\ \E r : reply' = [reply EXCEPT ![c] = r]
      BY <1>4 DEF Apply, Reject, Reply, metricVars
    <2>2. ~ Replied(c)
      BY <2>1 DEF PipelineInv, OnlyPassedSent
    <2>3. \A d \in Calls : d # c => reply'[d] = reply[d]
      BY <1>0, <2>1
    <2>4. Over(c) => NoHead(c)
      BY <2>2 DEF EndsGrounded
    <2>5. Undisturbed
      BY <2>1, <2>3, <2>4 DEF Undisturbed, Over, CodeOf, NoHead
    <2>6. EndsGrounded'
      BY <2>1, <2>3, <2>4 DEF EndsGrounded, Over, NoHead, Replied
    <2> QED BY <2>5, <2>6
  <1>5. CASE UNCHANGED <<pc, res, reply, dsRequests, followed>>
    BY <1>5 DEF Undisturbed, EndsGrounded, Over, CodeOf, NoHead, Replied
  <1>6. ASSUME NEW d \in FileCredNames, Rotate(d) PROVE UNCHANGED <<pc, res, reply, dsRequests, followed>>
    BY <1>6 DEF Rotate, callVars, metricVars
  <1>7. Finished \/ UNCHANGED vars => UNCHANGED <<pc, res, reply, dsRequests, followed>>
    BY DEF Finished, vars, callVars, metricVars
  <1> QED BY <1>1, <1>2, <1>3, <1>4, <1>5, <1>6, <1>7 DEF Next, CallStep

\* The redirects that have been followed are finitely many.
LEMMA HopsCounted == IsFiniteSet(Hops) /\ Cardinality(Hops) \in Nat
  <1>1. IsFiniteSet(Calls) /\ IsFiniteSet(1 .. MaxFollowed)
    BY CallsAssumption, FS_Interval
  <1>2. IsFiniteSet(Calls \X (1 .. MaxFollowed))
    BY <1>1, FS_Product
  <1>3. Hops \in SUBSET (Calls \X (1 .. MaxFollowed))
    BY DEF Hops
  <1> QED BY <1>2, <1>3, FS_Subset, FS_CardinalityType

\* One round trip more has ended, under one code.
LEMMA OneEnds ==
    ASSUME PipelineInv, RequestSets, NEW c \in Calls, NEW code \in Codes,
           CountRequest(code), ~ Over(c), Over(c)', CodeOf(c)' = code,
           \A d \in Calls : d # c => pc'[d] = pc[d] /\ res'[d] = res[d] /\ reply'[d] = reply[d],
           UNCHANGED followed
    PROVE  RequestSets'
  <1>1. EndedAs(code)' = EndedAs(code) \cup {c} /\ c \notin EndedAs(code)
    BY DEF EndedAs, Over, CodeOf, NoHead
  <1>2. \A k \in Codes : k # code => EndedAs(k)' = EndedAs(k)
    BY DEF EndedAs, Over, CodeOf, NoHead
  <1>3. EndedAs(code) \in SUBSET Calls
    BY DEF EndedAs
  <1>4. /\ Cardinality(EndedAs(code)') = Cardinality(EndedAs(code)) + 1
        /\ Cardinality(EndedAs(code)) \in Nat
    BY <1>1, <1>3, OneMore
  <1>5. dsRequests \in [Codes -> Nat]
    BY DEF PipelineInv, TypeOK
  <1>6. \A k \in Codes : FollowedAs(k)' = FollowedAs(k) /\ FollowedAs(k) \in Nat
    BY HopsCounted DEF FollowedAs, Hops
  <1>7. \A k \in Codes : dsRequests'[k] = IF k = code THEN dsRequests[k] + 1 ELSE dsRequests[k]
    BY <1>5 DEF CountRequest
  <1>8. ASSUME NEW k \in Codes
        PROVE  dsRequests'[k] = Cardinality(EndedAs(k)') + FollowedAs(k)'
    <2>1. dsRequests[k] = Cardinality(EndedAs(k)) + FollowedAs(k)
      BY DEF RequestSets
    <2> QED BY <1>2, <1>4, <1>6, <1>7, <2>1
  <1> QED BY <1>8 DEF RequestSets

\* A redirect is followed: one round trip more, one hop more.
LEMMA OneFollowed ==
    ASSUME PipelineInv, EndsGrounded, RequestSets, NEW c \in Calls, Follow(c)
    PROVE  EndsGrounded' /\ RequestSets'
  <1>0. /\ pc \in [Calls -> States] /\ reply \in [Calls -> Replies]
        /\ followed \in [Calls -> 0 .. MaxFollowed] /\ dsRequests \in [Codes -> Nat]
        /\ MaxFollowed \in Nat
    BY CallsAssumption DEF PipelineInv, TypeOK
  <1>1. /\ pc[c] = "waiting" /\ pc' = [pc EXCEPT ![c] = "roundtrip"]
        /\ followed[c] < MaxFollowed /\ followed' = [followed EXCEPT ![c] = @ + 1]
        /\ reply' = [reply EXCEPT ![c] = NoReply] /\ UNCHANGED res
        /\ reply[c].redirect # "none" /\ CountRequest(reply[c].status)
    BY DEF Follow, Redirected
  <1>2. reply[c].status = "3xx"
    BY <1>0, <1>1 DEF Replies
  <1>3. EndsGrounded'
    BY <1>0, <1>1 DEF EndsGrounded, Over, NoHead, Replied
  <1>4. \A k \in Codes : EndedAs(k)' = EndedAs(k) /\ Cardinality(EndedAs(k)) \in Nat
    <2>1. ASSUME NEW k \in Codes PROVE Cardinality(EndedAs(k)) \in Nat
      <3>1. IsFiniteSet(Calls) /\ EndedAs(k) \in SUBSET Calls
        BY CallsAssumption DEF EndedAs
      <3> QED BY <3>1, FS_Subset, FS_CardinalityType
    <2>2. \A k \in Codes : EndedAs(k)' = EndedAs(k)
      <3>1. \A d \in Calls : d # c => pc'[d] = pc[d] /\ res'[d] = res[d] /\ reply'[d] = reply[d]
        BY <1>0, <1>1
      <3>2. ~ Over(c) /\ ~ Over(c)'
        BY <1>0, <1>1 DEF Over
      <3> QED BY <3>1, <3>2 DEF EndedAs, Over, CodeOf, NoHead
    <2> QED BY <2>1, <2>2
  <1>5. FollowedAs("3xx")' = FollowedAs("3xx") + 1 /\ FollowedAs("3xx") \in Nat
    <2> DEFINE hop == <<c, followed[c] + 1>>
    <2>1. Hops' = Hops \cup {hop} /\ hop \notin Hops
      <3>1. hop \in Calls \X (1 .. MaxFollowed)
        BY <1>0, <1>1
      <3>2. \A d \in Calls : d # c => followed'[d] = followed[d]
        BY <1>0, <1>1
      <3>3. followed'[c] = followed[c] + 1 /\ followed[c] \in Nat
        BY <1>0, <1>1
      <3>4. ASSUME NEW h \in Calls \X (1 .. MaxFollowed)
            PROVE  h[2] <= followed'[h[1]] <=> h[2] <= followed[h[1]] \/ h = hop
        <4>1. PICK d \in Calls, n \in 1 .. MaxFollowed : h = <<d, n>>
          OBVIOUS
        <4>2. CASE d # c
          BY <3>2, <4>1, <4>2
        <4>3. CASE d = c
          BY <1>0, <3>3, <4>1, <4>3
        <4> QED BY <4>2, <4>3
      <3>5. ~ (hop[2] <= followed[hop[1]])
        BY <3>3
      <3> QED BY <3>1, <3>4, <3>5 DEF Hops
    <2>2. IsFiniteSet(Hops) /\ Cardinality(Hops) \in Nat
      BY HopsCounted
    <2>3. Cardinality(Hops') = Cardinality(Hops) + 1
      BY <2>1, <2>2, FS_AddElement
    <2> QED BY <2>2, <2>3 DEF FollowedAs
  <1>6. \A k \in Codes : k # "3xx" => FollowedAs(k)' = FollowedAs(k)
    BY DEF FollowedAs
  <1>7. \A k \in Codes : dsRequests'[k] = IF k = "3xx" THEN dsRequests[k] + 1 ELSE dsRequests[k]
    BY <1>0, <1>1, <1>2 DEF CountRequest
  <1>8. ASSUME NEW k \in Codes
        PROVE  dsRequests'[k] = Cardinality(EndedAs(k)') + FollowedAs(k)'
    <2>1. dsRequests[k] = Cardinality(EndedAs(k)) + FollowedAs(k)
      BY DEF RequestSets
    <2> QED BY <1>4, <1>5, <1>6, <1>7, <2>1
  <1> QED BY <1>3, <1>8 DEF RequestSets

LEMMA RequestSetsStep ==
    PipelineInv /\ EndsGrounded /\ RequestSets /\ [Next]_vars => EndsGrounded' /\ RequestSets'
  <1> SUFFICES ASSUME PipelineInv, EndsGrounded, RequestSets, [Next]_vars
               PROVE  EndsGrounded' /\ RequestSets'
    OBVIOUS
  <1>0. pc \in [Calls -> States] /\ reply \in [Calls -> Replies]
    BY DEF PipelineInv, TypeOK
  <1>1. ASSUME NEW c \in Calls, SendFails(c) \/ WaitFails(c)
        PROVE  EndsGrounded' /\ RequestSets'
    <2>1. /\ ~ Over(c) /\ Over(c)' /\ NoHead(c)' /\ CountRequest("error")
          /\ pc'[c] = "returned" /\ UNCHANGED <<reply, followed>>
          /\ \A d \in Calls : d # c => pc'[d] = pc[d] /\ res'[d] = res[d]
      BY <1>1, TripFails
    <2>2. CodeOf(c)' = "error" /\ "error" \in Codes
      BY <2>1 DEF CodeOf, Codes
    <2>3. RequestSets'
      BY <2>1, <2>2, OneEnds
    <2>4. ASSUME NEW d \in Calls
          PROVE  /\ pc'[d] \in {"idle", "roundtrip", "waiting", "reading"} => res'[d].why = "none"
                 /\ Over(d)' /\ ~ NoHead(d)' => Replied(d)'
      <3>1. CASE d = c
        <4>1. pc'[d] = "returned" /\ NoHead(d)'
          BY <2>1, <3>1 DEF NoHead
        <4> QED BY <4>1
      <3>2. CASE d # c
        <4>1. pc'[d] = pc[d] /\ res'[d] = res[d] /\ reply' = reply
          BY <2>1, <3>2
        <4> QED BY <4>1 DEF EndsGrounded, Over, NoHead, Replied
      <3> QED BY <3>1, <3>2
    <2>5. EndsGrounded'
      BY <2>4, Zenon DEF EndsGrounded
    <2> QED BY <2>3, <2>5
  <1>2. ASSUME NEW c \in Calls, ReceiveHead(c) PROVE EndsGrounded' /\ RequestSets'
    <2>1. /\ pc[c] = "waiting" /\ Replied(c) /\ pc' = [pc EXCEPT ![c] = "reading"]
          /\ CountRequest(reply[c].status) /\ UNCHANGED <<res, reply, followed>>
      BY <1>2 DEF ReceiveHead
    <2>2. res[c].why = "none" /\ "none" \notin Refusals
      BY <2>1 DEF EndsGrounded, Refusals, WriteBlocks
    <2>3. ~ Over(c) /\ Over(c)' /\ CodeOf(c)' = reply[c].status
      BY <1>0, <2>1, <2>2 DEF Over, CodeOf, NoHead
    <2>4. reply[c].status \in Codes
      BY <1>0, <2>1 DEF Replied, Replies, Codes
    <2>5. \A d \in Calls : d # c => pc'[d] = pc[d]
      BY <1>0, <2>1
    <2>6. RequestSets'
      BY <2>1, <2>3, <2>4, <2>5, OneEnds
    <2>7. EndsGrounded'
      BY <1>0, <2>1, <2>2, <2>5 DEF EndsGrounded, Over, NoHead, Replied
    <2> QED BY <2>6, <2>7
  <1>4. ASSUME NEW c \in Calls, GiveUp(c) PROVE EndsGrounded' /\ RequestSets'
    <2>1. PICK words \in ErrorWords : Return(c, Failed("redirect", words))
      BY <1>4 DEF GiveUp
    <2>2. /\ pc[c] = "waiting" /\ UNCHANGED <<reply, followed>>
          /\ reply[c].redirect # "none" /\ CountRequest(reply[c].status)
          /\ pc'[c] = "returned" /\ res'[c].why = "redirect"
          /\ \A d \in Calls : d # c => pc'[d] = pc[d] /\ res'[d] = res[d]
      <3>1. res \in [Calls -> Returns]
        BY DEF PipelineInv, TypeOK
      <3>2. /\ pc[c] = "waiting" /\ UNCHANGED <<reply, followed>>
            /\ reply[c].redirect # "none" /\ CountRequest(reply[c].status)
        BY <1>4 DEF GiveUp, Redirected
      <3> QED BY <1>0, <2>1, <3>1, <3>2 DEF Return, Failed
    <2>3. "redirect" \notin Refusals /\ reply[c].status = "3xx" /\ "3xx" \in Codes
      BY <1>0, <2>2 DEF Refusals, WriteBlocks, Replies, Codes, Statuses
    <2>4. ~ Over(c) /\ Over(c)' /\ ~ NoHead(c)' /\ CodeOf(c)' = "3xx" /\ Replied(c)'
      BY <2>2, <2>3 DEF Over, CodeOf, NoHead, Replied
    <2>5. RequestSets'
      BY <2>2, <2>3, <2>4, OneEnds
    <2>6. EndsGrounded'
      BY <2>2, <2>4 DEF EndsGrounded, Over, NoHead, Replied
    <2> QED BY <2>5, <2>6
  <1>5. ASSUME NEW c \in Calls, Follow(c) PROVE EndsGrounded' /\ RequestSets'
    BY <1>5, OneFollowed
  <1>3. CASE /\ \A c \in Calls : ~ (SendFails(c) \/ WaitFails(c) \/ ReceiveHead(c))
             /\ \A c \in Calls : ~ (Follow(c) \/ GiveUp(c))
    <2>1. Undisturbed /\ EndsGrounded'
      BY <1>3, OthersUndisturbed
    <2>2. \A code \in Codes : EndedAs(code)' = EndedAs(code)
      BY <2>1 DEF Undisturbed, EndedAs
    <2>3. \A code \in Codes : FollowedAs(code)' = FollowedAs(code)
      BY <2>1 DEF Undisturbed, FollowedAs, Hops
    <2> QED BY <2>1, <2>2, <2>3 DEF RequestSets, Undisturbed
  <1> QED BY <1>1, <1>2, <1>3, <1>4, <1>5

LEMMA RequestSetsCounted == RequestSets => RequestsCounted
  <1> DEFINE P(code) == [c \in Calls |->
                    (pc[c] \in {"reading", "returned", "answered"} /\ res[c].why \notin Refusals) /\
                    code = (IF res[c].why \in {"credential", "transport"} THEN "error"
                            ELSE reply[c].status)]
  <1> SUFFICES ASSUME RequestSets, NEW code \in Codes
               PROVE  dsRequests[code] =
                          Count(P(code)) + (IF code = "3xx" THEN Cardinality(Hops) ELSE 0)
    BY DEF RequestsCounted, Hops
  <1>1. {c \in Calls : P(code)[c]} = EndedAs(code)
    BY Zenon DEF EndedAs, Over, CodeOf, NoHead
  <1> QED BY <1>1 DEF RequestSets, FollowedAs, Count

\* omcp_datasource_requests_total counts every round trip once: each redirect that
\* a call follows, and its last round trip under the status of the reply if the head
\* has come and under "error" if not.
THEOREM RequestsAreCounted == Spec => []RequestsCounted
  <1>1. Init => EndsGrounded /\ RequestSets
    <2> SUFFICES ASSUME Init PROVE EndsGrounded /\ RequestSets
      OBVIOUS
    <2>1. \A c \in Calls : pc[c] = "idle" /\ res[c].why = "none"
      BY DEF Init, NoResult, Failed
    <2>2. \A code \in Codes : EndedAs(code) = {} /\ dsRequests[code] = 0
      BY <2>1 DEF Init, EndedAs, Over
    <2>3. Hops = {}
      <3>1. \A h \in Calls \X (1 .. MaxFollowed) : followed[h[1]] = 0 /\ h[2] \in 1 .. MaxFollowed
        BY DEF Init
      <3> QED BY <3>1 DEF Hops
    <2>4. \A code \in Codes : FollowedAs(code) = 0
      BY <2>3, FS_EmptySet DEF FollowedAs
    <2>5. RequestSets
      BY <2>2, <2>4, FS_EmptySet DEF RequestSets
    <2> QED BY <2>1, <2>5 DEF EndsGrounded, Over
  <1> QED BY <1>1, RequestSetsStep, RequestSetsCounted, Invariance, PTL DEF Spec

-----------------------------------------------------------------------------

\* The names say nothing, and no error from outside says "read-only".
QuietWords ==
    /\ \A n \in Names \cup AskedNames : {"readonly", "forbidden"} \cap WordsIn[n] = {}
    /\ \A words \in ErrorWords : "readonly" \notin words

\* An answer, or an error that is not about read-only.
Harmless(r) == Classify(r) # "blocked"

\* Every reply has come from outside.
RepliesOutside == \A c \in Calls : reply[c].words \in ErrorWords \cup {{}}

LEMMA OutsideHarmless ==
    ASSUME QuietWords
    PROVE  /\ \A why, words : \A all \in ErrorWords \cup {{}} :
                  words \subseteq all => Harmless(Failed(why, words))
           /\ \A data : Harmless(Answer(data))
  BY DEF QuietWords, Harmless, Classify, Failed, Answer

LEMMA DecodedHarmless ==
    ASSUME QuietWords, NEW tool, NEW r, r.words \in ErrorWords \cup {{}}, NEW data \in BodyParts,
           NEW x \in Decodings(tool, r, data)
    PROVE  Harmless(x)
  <1>1. /\ \A why : \A words \in SUBSET r.words : Harmless(Failed(why, words))
        /\ \A why : Harmless(Failed(why, r.words)) /\ Harmless(Failed(why, {}))
        /\ \A d : Harmless(Answer(d))
    BY OutsideHarmless
  <1>2. CASE x \in MetricsDecode(r, data)
    BY <1>1, <1>2 DEF MetricsDecode, QuotingSome
  <1>3. CASE x \in LogsDecode(r, data)
    BY <1>1, <1>3 DEF LogsDecode, QuotingSome
  <1>4. CASE x \in AMDecode(tool, r, data)
    <2>1. CASE r.status # "2xx"
      <3>1. \/ x \in Quoting("status", r) \/ x \in QuotingSome("status", r)
            \/ x = Failed("status", {})
        BY <1>4, <2>1 DEF AMDecode, BodyParts
      <3> QED BY <3>1, <1>1 DEF Quoting, QuotingSome
    <2>2. CASE r.status = "2xx"
      BY <1>1, <1>4, <2>2 DEF AMDecode, QuotingSome
    <2> QED BY <2>1, <2>2
  <1> QED BY <1>2, <1>3, <1>4 DEF Decodings

\* The text of a refusal is classified as "blocked" when it is one of the
\* read-only guard, and only then.
LEMMA RefusalsTold ==
    ASSUME QuietWords, NEW a \in Args, Refusal(a) # "none"
    PROVE  Harmless(Failed(Refusal(a), RefusalWords(a, Refusal(a))))
               <=> Refusal(a) \notin WriteBlocks
  <1> DEFINE why == Refusal(a)
             words == RefusalWords(a, why)
  <1>1. a.name \in AskedNames /\ why \in Refusals
    BY ArgsFacts, GuardFacts
  <1>2. CASE why = "unknown_datasource"
    <2>1. \A n \in Names \cup {a.name} : "readonly" \notin WordsIn[n]
      BY <1>1 DEF QuietWords
    <2>2. "readonly" \notin words
      BY <1>2, <2>1 DEF RefusalWords
    <2> QED BY <1>2, <2>2 DEF Harmless, Classify, Failed, WriteBlocks
  <1>3. CASE why # "unknown_datasource"
    <2>1. Resolve(a.name) \in Names
      BY <1>3 DEF Refusal, Known
    <2>2. "readonly" \notin WordsIn[Resolve(a.name)] /\ "forbidden" \notin WordsIn[Resolve(a.name)]
      BY <2>1 DEF QuietWords
    <2>3. /\ "readonly" \in words <=> why \in WriteBlocks
          /\ "forbidden" \notin words
      BY <1>1, <1>3, <2>2 DEF RefusalWords, Refusals, WriteBlocks
    <2> QED BY <2>3 DEF Harmless, Classify, Failed
  <1> QED BY <1>2, <1>3

LEMMA BlockedSetStep ==
    ASSUME QuietWords
    PROVE  PipelineInv /\ RepliesOutside /\ BlockedSet /\ [Next]_vars
               => RepliesOutside' /\ BlockedSet'
  <1> SUFFICES ASSUME PipelineInv, RepliesOutside, BlockedSet, [Next]_vars
               PROVE  RepliesOutside' /\ BlockedSet'
    OBVIOUS
  <1>0. /\ pc \in [Calls -> States] /\ res \in [Calls -> Returns]
        /\ reply \in [Calls -> Replies] /\ writesBlocked \in [WriteBlocks -> Nat]
    BY DEF PipelineInv, TypeOK
  <1>1. ASSUME NEW c \in Calls, NEW a \in Args, Guard(c, a) PROVE RepliesOutside' /\ BlockedSet'
    <2> DEFINE why == Refusal(a)
    <2>1. /\ pc[c] = "idle" /\ UNCHANGED reply
          /\ \A d \in Calls : d # c => pc'[d] = pc[d] /\ res'[d] = res[d]
      BY <1>0, <1>1 DEF Guard, Return
    <2>2. \A d \in Calls : d # c => (Blocked(d)' <=> Blocked(d))
      BY <2>1 DEF Blocked
    <2>3. ~ Blocked(c)
      BY <2>1 DEF Blocked
    <2>4. CASE why \in WriteBlocks
      <3>1. why # "none" /\ writesBlocked' = [writesBlocked EXCEPT ![why] = @ + 1]
        BY <1>1, <2>4 DEF Guard, WriteBlocks
      <3>2. pc'[c] = "returned" /\ res'[c] = Failed(why, RefusalWords(a, why))
        BY <1>0, <1>1, <3>1 DEF Guard, Return
      <3>3. Blocked(c)'
        BY <2>4, <3>1, <3>2, RefusalsTold DEF Harmless, Blocked
      <3>4. BlockedCalls' = BlockedCalls \cup {c} /\ c \notin BlockedCalls
        BY <2>2, <2>3, <3>3 DEF BlockedCalls
      <3>5. Cardinality(BlockedCalls') = Cardinality(BlockedCalls) + 1
        BY <3>4, OneMore DEF BlockedCalls
      <3>6. BlockedCount' = BlockedCount + 1
        BY <1>0, <2>4, <3>1 DEF BlockedCount, WriteBlocks
      <3> QED BY <2>1, <3>5, <3>6 DEF BlockedSet, RepliesOutside
    <2>5. CASE why \notin WriteBlocks
      <3>1. writesBlocked' = writesBlocked
        BY <1>1, <2>5 DEF Guard
      <3>2. ~ Blocked(c)'
        <4>1. CASE why = "none"
          <5>1. pc'[c] = "roundtrip"
            BY <1>0, <1>1, <4>1 DEF Guard
          <5> QED BY <5>1 DEF Blocked
        <4>2. CASE why # "none"
          <5>1. res'[c] = Failed(why, RefusalWords(a, why))
            BY <1>0, <1>1, <4>2 DEF Guard, Return
          <5> QED BY <2>5, <4>2, <5>1, RefusalsTold DEF Harmless, Blocked
        <4> QED BY <4>1, <4>2
      <3>3. BlockedCalls' = BlockedCalls
        BY <2>2, <2>3, <3>2 DEF BlockedCalls
      <3> QED BY <2>1, <3>1, <3>3 DEF BlockedSet, BlockedCount, RepliesOutside
    <2> QED BY <2>4, <2>5
  <1>2. ASSUME NEW c \in Calls,
               SendFails(c) \/ WaitFails(c) \/ GiveUp(c) \/ ReadBody(c) \/ ReadFails(c)
        PROVE  RepliesOutside' /\ BlockedSet'
    <2>1. /\ pc[c] \in {"roundtrip", "waiting", "reading"} /\ UNCHANGED <<reply, writesBlocked>>
          /\ \E r : Return(c, r) /\ Harmless(r)
      <3>1. CASE SendFails(c) \/ WaitFails(c) \/ GiveUp(c)
        <4>1. \A why : \A words \in ErrorWords : Harmless(Failed(why, words))
          BY OutsideHarmless
        <4> QED BY <3>1, <4>1 DEF SendFails, WaitFails, GiveUp
      <3>2. CASE ReadBody(c) \/ ReadFails(c)
        <4>1. /\ pc[c] = "reading" /\ UNCHANGED <<reply, writesBlocked>>
              /\ \E data \in BodyParts :
                   \E r \in Decodings(args[c].tool, reply[c], data) : Return(c, r)
          BY <3>2 DEF ReadBody, ReadFails, BodyParts, metricVars
        <4>2. reply[c].words \in ErrorWords \cup {{}}
          BY DEF RepliesOutside
        <4> QED BY <4>1, <4>2, DecodedHarmless
      <3> QED BY <1>2, <3>1, <3>2
    <2>2. /\ ~ Blocked(c) /\ ~ Blocked(c)'
          /\ \A d \in Calls : d # c => pc'[d] = pc[d] /\ res'[d] = res[d]
      BY <1>0, <2>1 DEF Blocked, Return, Harmless
    <2>3. BlockedCalls' = BlockedCalls
      BY <2>2 DEF BlockedCalls, Blocked
    <2> QED BY <2>1, <2>3 DEF BlockedSet, BlockedCount, RepliesOutside
  <1>8. ASSUME NEW c \in Calls, Follow(c) PROVE RepliesOutside' /\ BlockedSet'
    <2>1. /\ pc[c] = "waiting" /\ pc' = [pc EXCEPT ![c] = "roundtrip"]
          /\ reply' = [reply EXCEPT ![c] = NoReply] /\ UNCHANGED <<res, writesBlocked>>
      BY <1>8 DEF Follow
    <2>2. RepliesOutside'
      BY <1>0, <2>1 DEF RepliesOutside, NoReply
    <2>3. \A d \in Calls : Blocked(d)' <=> Blocked(d)
      BY <1>0, <2>1 DEF Blocked
    <2> QED BY <2>1, <2>2, <2>3 DEF BlockedSet, BlockedCalls, BlockedCount
  <1>3. ASSUME NEW c \in Calls, Send(c) \/ ReceiveHead(c) \/ Record(c)
        PROVE  RepliesOutside' /\ BlockedSet'
    <2>1. /\ UNCHANGED <<res, reply, writesBlocked>>
          /\ \/ pc[c] = "roundtrip" /\ pc' = [pc EXCEPT ![c] = "waiting"]
             \/ pc[c] = "waiting" /\ pc' = [pc EXCEPT ![c] = "reading"]
             \/ pc[c] = "returned" /\ pc' = [pc EXCEPT ![c] = "answered"]
      BY <1>3 DEF Send, ReceiveHead, Record, metricVars
    <2>2. \A d \in Calls : Blocked(d)' <=> Blocked(d)
      BY <1>0, <2>1 DEF Blocked
    <2> QED BY <2>1, <2>2 DEF BlockedSet, BlockedCalls, BlockedCount, RepliesOutside
  <1>4. ASSUME NEW c \in Calls, Apply(c) \/ Reject(c) PROVE RepliesOutside' /\ BlockedSet'
    <2>1. /\ UNCHANGED <<pc, res, writesBlocked>>
          /\ \E r \in Successes \cup Errors \cup Redirections(c) :
                reply' = [reply EXCEPT ![c] = r]
      BY <1>4, Zenon DEF Apply, Reject, Reply, metricVars
    <2>4. \A r \in Successes : r.words \in ErrorWords \cup {{}}
      <3>1. [status |-> "2xx", words |-> {}, fits |-> TRUE, redirect |-> "none"].words = {}
        OBVIOUS
      <3>2. \A r \in [status : {"2xx"}, words : ErrorWords, fits : {FALSE}, redirect : {"none"}] :
                r.words \in ErrorWords
        OBVIOUS
      <3> QED BY <3>1, <3>2 DEF Successes
    <2>5. \A r \in Errors \cup Redirections(c) : r.words \in ErrorWords \cup {{}}
      BY DEF Errors, Redirections
    <2>2. RepliesOutside'
      BY <1>0, <2>1, <2>4, <2>5 DEF RepliesOutside
    <2>3. BlockedCalls' = BlockedCalls
      BY <2>1 DEF BlockedCalls, Blocked
    <2> QED BY <2>1, <2>2, <2>3 DEF BlockedSet, BlockedCount
  <1>5. CASE UNCHANGED <<pc, res, reply, writesBlocked>>
    BY <1>5 DEF BlockedSet, BlockedCalls, Blocked, BlockedCount, RepliesOutside
  <1>6. ASSUME NEW d \in FileCredNames, Rotate(d) PROVE UNCHANGED <<pc, res, reply, writesBlocked>>
    BY <1>6 DEF Rotate, callVars, metricVars
  <1>7. Finished \/ UNCHANGED vars => UNCHANGED <<pc, res, reply, writesBlocked>>
    BY DEF Finished, vars, callVars, metricVars
  <1> QED BY <1>1, <1>2, <1>3, <1>4, <1>5, <1>6, <1>7, <1>8 DEF Next, CallStep

LEMMA BlockedSetCounted == BlockedSet => BlockedCountsAgree
  <1> SUFFICES ASSUME BlockedSet
               PROVE  BlockedCount = Count([c \in Calls |-> pc[c] \in {"returned", "answered"}
                                                               /\ Classify(res[c]) = "blocked"])
    BY DEF BlockedCountsAgree, BlockedCount
  <1> DEFINE P == [c \in Calls |-> pc[c] \in {"returned", "answered"}
                                       /\ Classify(res[c]) = "blocked"]
  <1>1. {c \in Calls : P[c]} = BlockedCalls
    BY Zenon DEF BlockedCalls, Blocked
  <1> QED BY <1>1 DEF BlockedSet, Count

\* The tool metric and the guard metric count the same blocked mutations, where
\* no name and no error from outside sounds like the read-only guard.
THEOREM BlockedCountsMatch == ASSUME QuietWords PROVE Spec => []BlockedCountsAgree
  <1>1. Init => RepliesOutside /\ BlockedSet
    <2> SUFFICES ASSUME Init PROVE RepliesOutside /\ BlockedSet
      OBVIOUS
    <2>1. BlockedCalls = {} /\ BlockedCount = 0
      BY DEF Init, BlockedCalls, Blocked, BlockedCount, WriteBlocks
    <2> QED BY <2>1, FS_EmptySet DEF Init, NoReply, RepliesOutside, BlockedSet
  <1>2. PipelineInv /\ RepliesOutside /\ BlockedSet /\ [Next]_vars => RepliesOutside' /\ BlockedSet'
    BY BlockedSetStep
  <1> QED BY <1>1, <1>2, BlockedSetCounted, Invariance, PTL DEF Spec

-----------------------------------------------------------------------------

\* The credential file of a call's datasource is never older than it was when the
\* call began, and neither is the copy that its request carries.
CredentialInv ==
    \A c \in Calls :
        /\ pc[c] \in {"roundtrip", "waiting"} => startCred[c] <= credVersion[Target(c)]
        /\ pc[c] \in {"waiting", "reading"} \/ c \in wire => sentCred[c] >= startCred[c]

LEMMA CredentialStep == PipelineInv /\ CredentialInv /\ [Next]_vars => CredentialInv'
  <1> SUFFICES ASSUME PipelineInv, CredentialInv, [Next]_vars PROVE CredentialInv'
    OBVIOUS
  <1>0. /\ pc \in [Calls -> States] /\ args \in [Calls -> Args \cup {Unasked}]
        /\ wire \subseteq Calls /\ MaxRotations \in Nat
        /\ startCred \in [Calls -> 0 .. MaxRotations] /\ sentCred \in [Calls -> 0 .. MaxRotations]
        /\ credVersion \in [Names -> 0 .. MaxRotations]
    <2>1. TypeOK /\ MaxRotations \in Nat
      BY CallsAssumption DEF PipelineInv
    <2> QED BY <2>1, Zenon DEF TypeOK
  <1>1. ASSUME NEW c \in Calls, pc[c] \in {"roundtrip", "waiting"} PROVE Target(c) \in Names
    BY <1>1, GuardFacts DEF PipelineInv, OnlyPassedSent, Target
  <1>2. ASSUME NEW c \in Calls, c \in wire PROVE pc[c] \notin {"idle", "roundtrip"}
    BY <1>2 DEF PipelineInv, OnlyPassedSent
  <1>3. ASSUME NEW c \in Calls, NEW a \in Args, Guard(c, a) PROVE CredentialInv'
    <2>1. /\ pc[c] = "idle" /\ c \notin wire /\ UNCHANGED <<wire, sentCred, credVersion>>
          /\ args' = [args EXCEPT ![c] = a]
          /\ \A d \in Calls : d # c => pc'[d] = pc[d] /\ startCred'[d] = startCred[d]
      BY <1>0, <1>2, <1>3 DEF Guard, Return, worldVars
    <2>2. \/ pc'[c] = "returned"
          \/ pc'[c] = "roundtrip" /\ startCred'[c] = credVersion[Resolve(a.name)]
                                 /\ Refusal(a) = "none"
      BY <1>0, <1>3 DEF Guard, Return
    <2>3. pc'[c] = "roundtrip" => startCred'[c] <= credVersion'[Target(c)']
      <3>1. Target(c)' = Resolve(a.name)
        BY <1>0, <2>1 DEF Target
      <3>2. Refusal(a) = "none" => credVersion[Resolve(a.name)] \in Nat
        BY <1>0, GuardFacts
      <3> QED BY <2>1, <2>2, <3>1, <3>2
    <2>4. \A d \in Calls : d # c => args'[d] = args[d]
      BY <1>0, <2>1
    <2> QED BY <2>1, <2>2, <2>3, <2>4 DEF CredentialInv, Target
  <1>4. ASSUME NEW c \in Calls, Send(c) PROVE CredentialInv'
    <2>1. /\ pc[c] = "roundtrip" /\ UNCHANGED <<args, startCred, credVersion>>
          /\ pc'[c] = "waiting" /\ sentCred'[c] = credVersion[Target(c)] /\ wire' = wire \cup {c}
          /\ \A d \in Calls : d # c => pc'[d] = pc[d] /\ sentCred'[d] = sentCred[d]
      BY <1>0, <1>4 DEF Send, Credential
    <2>2. credVersion[Target(c)] >= startCred[c]
      BY <1>0, <1>1, <2>1 DEF CredentialInv
    <2> QED BY <2>1, <2>2 DEF CredentialInv, Target
  <1>5. ASSUME NEW c \in Calls, pc[c] # "idle", UNCHANGED <<args, startCred, sentCred, credVersion>>,
               wire' \subseteq wire,
               \/ \E where \in {"returned", "answered"} : pc' = [pc EXCEPT ![c] = where]
               \/ pc[c] = "waiting" /\ pc' = [pc EXCEPT ![c] = "reading"]
               \/ pc' = pc
        PROVE  CredentialInv'
    BY <1>0, <1>5 DEF CredentialInv, Target
  <1>10. ASSUME NEW c \in Calls, Follow(c) PROVE CredentialInv'
    <2>1. /\ pc[c] = "waiting" /\ pc' = [pc EXCEPT ![c] = "roundtrip"]
          /\ UNCHANGED <<args, startCred, sentCred, wire, credVersion>>
      BY <1>10 DEF Follow, worldVars
    <2> QED BY <1>0, <2>1 DEF CredentialInv, Target
  <1>6. ASSUME NEW c \in Calls, \/ SendFails(c) \/ ReceiveHead(c) \/ GiveUp(c)
                               \/ WaitFails(c) \/ ReadBody(c) \/ ReadFails(c) \/ Record(c)
        PROVE  CredentialInv'
    BY <1>5, <1>6 DEF SendFails, ReceiveHead, GiveUp, WaitFails, ReadBody, ReadFails, Record,
                      Return, worldVars
  <1>7. ASSUME NEW c \in Calls, Apply(c) \/ Reject(c) PROVE CredentialInv'
    <2>1. /\ c \in wire /\ wire' \subseteq wire
          /\ UNCHANGED <<pc, args, startCred, sentCred, credVersion>>
      BY <1>7 DEF Apply, Reject
    <2> QED BY <1>2, <1>5, <2>1
  <1>8. ASSUME NEW d \in FileCredNames, Rotate(d) PROVE CredentialInv'
    <2>1. UNCHANGED <<pc, args, startCred, sentCred, wire>>
      BY <1>8 DEF Rotate, callVars
    <2>2. \A e \in Names : credVersion'[e] >= credVersion[e]
      BY <1>0, <1>8 DEF Rotate
    <2>3. ASSUME NEW c \in Calls, pc[c] \in {"roundtrip", "waiting"}
          PROVE  startCred[c] <= credVersion'[Target(c)]
      <3>1. Target(c) \in Names /\ startCred[c] <= credVersion[Target(c)]
        BY <1>1, <2>3 DEF CredentialInv
      <3>2. /\ startCred[c] \in Nat /\ credVersion[Target(c)] \in Nat
            /\ credVersion'[Target(c)] \in Nat
        BY <1>0, <1>8, <3>1 DEF Rotate
      <3> QED BY <2>2, <3>1, <3>2
    <2> QED BY <2>1, <2>3 DEF CredentialInv, Target
  <1>9. CASE Finished \/ UNCHANGED vars
    BY <1>9 DEF Finished, vars, callVars, worldVars, CredentialInv, Target
  <1> QED BY <1>3, <1>4, <1>6, <1>7, <1>8, <1>9, <1>10 DEF Next, CallStep

\* No request carries a credential older than the file had when its call began,
\* however many rotations happen while calls are under way.
THEOREM CredentialsAreFresh == Spec => []FreshCredential
  <1>1. Init => CredentialInv
    BY DEF Init, CredentialInv
  <1>2. CredentialInv => FreshCredential
    BY DEF CredentialInv, FreshCredential
  <1> QED BY <1>1, <1>2, CredentialStep, Invariance, PTL DEF Spec

=============================================================================
