-------------------- MODULE FilterUpdateControllerProofs --------------------
(***************************************************************************)
(* Proofs about FilterUpdateController, for any set of commands, any rule  *)
(* sets and any limits.  The inductive invariant follows a command from    *)
(* submit_replace to its answer:                                           *)
(*                                                                         *)
(*  CallInv     an unanswered call waits in exactly one place: the queue,  *)
(*              A's hands, or the list of callers a seal() has to answer   *)
(*  QueueInv    the limits of the queue; a sealed queue stays empty        *)
(*  RunInv      what A's position in run says about its command            *)
(*  VersionInv  every later generation has a published command behind it,  *)
(*              which was told so or is the one in A's hands               *)
(*  AnswerInv   what the answers given so far say                          *)
(*  OwnerInv    how far the other threads are when the owner goes on       *)
(***************************************************************************)
EXTENDS FilterUpdateController, TLAPS

Holds(s, c) == \E i \in 1 .. Len(s) : s[i] = c
OnceEach(s) == \A i, j \in 1 .. Len(s) : s[i] = s[j] => i = j

\* the places where a call waits for its answer
Queued(c)     == Holds(pending, c)
Taken(c)      == inflight.command = c
Dropped(s, c) == Holds(cancelled[s], c)
Waits(c)      == Queued(c) \/ Taken(c) \/ \E s \in Sealers : Dropped(s, c)

OnePlace(c) ==
    /\ ~(Queued(c) /\ Taken(c))
    /\ \A s \in Sealers : Dropped(s, c) => ~Queued(c) /\ ~Taken(c)
    /\ Dropped("A", c) => ~Dropped("owner", c)

CallInv ==
    /\ OnceEach(pending)
    /\ \A s \in Sealers : OnceEach(cancelled[s])
    /\ \A c \in Commands : /\ OnePlace(c)
                           /\ Waits(c) <=> (c \in called /\ answers[c] = <<>>)
                           /\ c \notin called => answers[c] = <<>>

QueueInv ==
    /\ queued_rule_bytes <= maximum_queued_rule_bytes
    /\ Len(pending) <= kMaximumPendingUpdates
    /\ sealed => pending = <<>>
    /\ \A s \in Sealers :
           /\ sealing[s] \in {"no", "publication", "queue", "done"} => cancelled[s] = <<>>
           /\ sealing[s] \in {"answer", "drain", "done"} => sealed

\* the published snapshot holds the rules of A's command
Published == runner = "published" \/ inflight.phase = "Committed"

RunInv ==
    /\ runner = "idle" => inflight = Idle
    /\ runner \in {"apply", "acquire", "build"} => inflight.phase = "Building"
    /\ runner \in {"acquire", "build", "publish"} => version < MaxGeneration
    /\ runner \in {"publish", "published"} <=> inflight.phase = "Publishing"
    /\ runner = "publish" => inflight.target = version + 1
    /\ runner = "wait" => inflight.phase = "Committed"
    /\ runner = "applied" => inflight.phase \in {"Building", "Committed"}
    /\ runner = "applied" /\ command_result.code = "Ok" =>
           /\ inflight.phase = "Committed" /\ converged >= inflight.published
           /\ command_result.generation = inflight.published
    /\ runner \in {"finish", "stopped"} => inflight = Idle \/ inflight.phase = "Committed"
    /\ inflight.command = NoCommand => inflight = Idle
    /\ inflight.phase = "Completed" => inflight.command = NoCommand
    /\ Published => /\ inflight.target \in 2 .. version
                    /\ blocklist[inflight.target] = inflight.command
    /\ inflight.phase = "Committed" => inflight.published = inflight.target

VersionInv ==
    /\ converged <= version
    /\ \A w \in Workers : view[w] = 0 \/ view[w] >= converged
    /\ \A g \in 2 .. MaxGeneration :
           blocklist[g] # NoCommand =>
               /\ g <= version
               /\ \/ answers[blocklist[g]] = <<Ok(g)>>
                  \/ Published /\ Taken(blocklist[g]) /\ g = inflight.target

TrueAnswer(c, a) ==
    IF a.code = "Ok" THEN a.generation \in 2 .. converged /\ blocklist[a.generation] = c
                     ELSE \A g \in 2 .. MaxGeneration : blocklist[g] # c

AnswerInv ==
    \A c \in Commands :
        answers[c] = <<>> \/ \E a \in Result : answers[c] = <<a>> /\ TrueAnswer(c, a)

OwnerInv ==
    /\ owner \in {"joined", "detach", "successor", "done"} => sealing["owner"] = "done"
    /\ owner \in {"successor", "done"} => runner = "stopped"
    /\ owner = "done" => inflight = Idle
    /\ runner = "stopped" => sealing["A"] = "done"

\* The inductive invariant: see the head of this module.
InductiveInvariant ==
    CallInv /\ QueueInv /\ RunInv /\ VersionInv /\ AnswerInv /\ OwnerInv

\* When the teardown is over, nobody who called submit_replace is still waiting:
\* neither the queue, nor a seal(), nor A's last command was forgotten.
TornDownMeansAnswered == owner = "done" => \A c \in called : answers[c] # <<>>
-----------------------------------------------------------------------------
(* Lists of commands *)

\* Nothing is in an empty list.
LEMMA EmptyList == /\ <<>> \in Seq(Commands) /\ OnceEach(<<>>) /\ Len(<<>>) = 0
                   /\ \A d : ~Holds(<<>>, d)
BY DEF OnceEach, Holds

\* push_back of a command that was not in the list.
LEMMA AppendedList ==
    ASSUME NEW s \in Seq(Commands), NEW c \in Commands, OnceEach(s), ~Holds(s, c)
    PROVE  /\ Append(s, c) \in Seq(Commands) /\ OnceEach(Append(s, c))
           /\ Len(Append(s, c)) = Len(s) + 1
           /\ \A d : Holds(Append(s, c), d) <=> Holds(s, d) \/ d = c
<1>1. /\ Append(s, c) \in Seq(Commands) /\ Len(Append(s, c)) = Len(s) + 1
      /\ \A i \in 1 .. Len(s) : Append(s, c)[i] = s[i]
      /\ Append(s, c)[Len(s) + 1] = c
      /\ Len(s) \in Nat
  OBVIOUS
<1>2. OnceEach(Append(s, c))
  BY <1>1, SMTT(30) DEF OnceEach, Holds
<1>3. ASSUME NEW d PROVE Holds(Append(s, c), d) <=> Holds(s, d) \/ d = c
  BY <1>1 DEF Holds
<1> QED BY <1>1, <1>2, <1>3

\* pop_front takes exactly the first command away.
LEMMA TailOfList ==
    ASSUME NEW s \in Seq(Commands), s # <<>>, OnceEach(s)
    PROVE  /\ Head(s) \in Commands /\ Holds(s, Head(s))
           /\ Tail(s) \in Seq(Commands) /\ OnceEach(Tail(s))
           /\ Len(Tail(s)) <= Len(s)
           /\ \A d : Holds(Tail(s), d) <=> Holds(s, d) /\ d # Head(s)
<1>1. /\ Head(s) \in Commands /\ Tail(s) \in Seq(Commands)
      /\ Len(Tail(s)) = Len(s) - 1
      /\ \A i \in 1 .. Len(Tail(s)) : Tail(s)[i] = s[i + 1]
      /\ Len(s) \in Nat \ {0} /\ Head(s) = s[1]
  OBVIOUS
<1>2. Holds(s, Head(s))
  BY <1>1 DEF Holds
<1>3. OnceEach(Tail(s))
  BY <1>1 DEF OnceEach
<1>4. ASSUME NEW d PROVE Holds(Tail(s), d) <=> Holds(s, d) /\ d # Head(s)
  <2>1. ASSUME Holds(Tail(s), d) PROVE Holds(s, d) /\ d # Head(s)
    <3>1. PICK i \in 1 .. Len(s) - 1 : s[i + 1] = d
      BY <1>1, <2>1 DEF Holds
    <3>2. i + 1 \in 1 .. Len(s) /\ i + 1 # 1 /\ 1 \in 1 .. Len(s)
      BY <1>1
    <3> QED BY <1>1, <3>1, <3>2 DEF Holds, OnceEach
  <2>2. ASSUME Holds(s, d), d # Head(s) PROVE Holds(Tail(s), d)
    <3>1. PICK i \in 1 .. Len(s) : s[i] = d
      BY <2>2 DEF Holds
    <3>2. i # 1 /\ i - 1 \in 1 .. Len(Tail(s)) /\ (i - 1) + 1 = i
      BY <1>1, <2>2, <3>1
    <3> QED BY <1>1, <3>1, <3>2, Zenon DEF Holds
  <2> QED BY <2>1, <2>2
<1> QED BY <1>1, <1>2, <1>3, <1>4
-----------------------------------------------------------------------------
(* The types, in the groups in which the actions change the variables *)

PubType ==
    /\ version \in 1 .. MaxGeneration /\ converged \in 1 .. MaxGeneration
    /\ view \in [Workers -> 0 .. MaxGeneration]
    /\ blocklist \in [2 .. MaxGeneration -> Commands \cup {NoCommand}]
    /\ credit_held \in BOOLEAN /\ retired_pending \in BOOLEAN /\ reclaimer_active \in BOOLEAN
QueueType == pending \in Seq(Commands) /\ queued_rule_bytes \in Nat /\ sealed \in BOOLEAN
Phases == {"Building", "Publishing", "Committed", "Completed"}
Inflight == [command : Commands \cup {NoCommand}, phase : Phases,
             target : 0 .. MaxGeneration, published : 0 .. MaxGeneration]
RunType ==
    /\ inflight \in Inflight
    /\ runner \in {"idle", "apply", "acquire", "build", "publish", "published", "wait", "applied",
                   "finish", "stopped"}
    /\ command_result \in Result
SealType ==
    /\ publication_sealed \in BOOLEAN /\ build_stop_requested \in BOOLEAN
    /\ sealing \in [Sealers -> {"no", "publication", "queue", "answer", "drain", "done"}]
    /\ cancelled \in [Sealers -> Seq(Commands)]
OwnerType ==
    /\ owner \in {"up", "seal", "joined", "detach", "successor", "done"}
    /\ terminal_detach_requested \in BOOLEAN
CallType == called \subseteq Commands /\ answers \in [Commands -> Seq(Result)]

\* TypeOK is the conjunction of the groups.
LEMMA TypeGroups ==
    /\ TypeOK <=> PubType /\ QueueType /\ RunType /\ SealType /\ OwnerType /\ CallType
    /\ TypeOK' <=> PubType' /\ QueueType' /\ RunType' /\ SealType' /\ OwnerType' /\ CallType'
BY Zenon DEF TypeOK, PubType, QueueType, RunType, Inflight, Phases, SealType,
   OwnerType, CallType

\* A group keeps its types when it is left alone.
LEMMA TypeFrames ==
    /\ PubType /\ UNCHANGED pubVars => PubType'
    /\ QueueType /\ UNCHANGED queueVars => QueueType'
    /\ RunType /\ UNCHANGED runVars => RunType'
    /\ SealType /\ UNCHANGED sealVars => SealType'
    /\ OwnerType /\ UNCHANGED ownerVars => OwnerType'
    /\ CallType /\ UNCHANGED callVars => CallType'
<1>1. PubType /\ UNCHANGED pubVars => PubType'
  BY DEF PubType, pubVars, versionVars, creditVars
<1>2. QueueType /\ UNCHANGED queueVars => QueueType' BY DEF QueueType, queueVars
<1>3. RunType /\ UNCHANGED runVars => RunType' BY DEF RunType, runVars
<1>4. SealType /\ UNCHANGED sealVars => SealType' BY DEF SealType, sealVars
<1>5. OwnerType /\ UNCHANGED ownerVars => OwnerType' BY DEF OwnerType, ownerVars
<1>6. CallType /\ UNCHANGED callVars => CallType' BY Zenon DEF CallType, callVars
<1> QED BY <1>1, <1>2, <1>3, <1>4, <1>5, <1>6, Zenon

-----------------------------------------------------------------------------
(* What most steps leave alone *)

\* A call keeps its place when neither the lists nor A's command change.
LEMMA CallFrame ==
    ASSUME CallInv, UNCHANGED <<pending, cancelled, callVars>>, inflight'.command = inflight.command
    PROVE  CallInv'
BY Zenon DEF CallInv, OnePlace, Waits, Queued, Taken, Dropped, callVars

\* The queue is as it was.
LEMMA QueueFrame ==
    ASSUME QueueInv, UNCHANGED <<queueVars, sealing, cancelled>>
    PROVE  QueueInv'
BY DEF QueueInv, queueVars

\* Answers stay true while no rules are published and convergence only grows.
LEMMA AnswerFrame ==
    ASSUME TypeOK, AnswerInv, UNCHANGED <<blocklist, answers>>,
           converged' \in Nat, converged' >= converged
    PROVE  AnswerInv'
<1>1. ASSUME NEW c \in Commands, NEW a \in Result, TrueAnswer(c, a) PROVE TrueAnswer(c, a)'
  BY <1>1, SMTT(30) DEF TrueAnswer, TypeOK
<1> QED BY <1>1, Zenon DEF AnswerInv

\* A generation keeps the command behind it while A's command stays as published as it was.
LEMMA VersionFrame ==
    ASSUME VersionInv, UNCHANGED <<versionVars, blocklist, answers>>,
           ~Published \/ (Published' /\ UNCHANGED inflight.command /\ UNCHANGED inflight.target)
    PROVE  VersionInv'
<1>1. ASSUME NEW g \in 2 .. MaxGeneration, blocklist[g] # NoCommand
      PROVE  g <= version /\ (\/ answers[blocklist[g]] = <<Ok(g)>>
                              \/ Published' /\ Taken(blocklist[g])' /\ g = inflight'.target)
  BY <1>1, Zenon DEF VersionInv, Taken
<1> QED BY <1>1, Zenon DEF VersionInv, versionVars, Taken

\* The owner waits for nothing that this step takes back.
LEMMA OwnerFrame ==
    ASSUME OwnerInv, runner # "stopped", runner' # "stopped", UNCHANGED <<sealing, owner>>
    PROVE  OwnerInv'
BY DEF OwnerInv

\* A step of A that neither takes, publishes nor answers a command.
LEMMA QuietRunner ==
    ASSUME TypeOK, InductiveInvariant, runner # "stopped", runner' # "stopped",
           UNCHANGED <<queueVars, sealVars, ownerVars, callVars, blocklist, converged>>,
           inflight'.command = inflight.command
    PROVE  CallInv' /\ QueueInv' /\ AnswerInv' /\ OwnerInv'
<1>1. CallInv' BY CallFrame, Zenon DEF InductiveInvariant, queueVars, sealVars
<1>2. QueueInv' BY QueueFrame DEF InductiveInvariant, sealVars
<1>3. AnswerInv'
  <2>1. converged' \in Nat /\ converged' >= converged BY DEF TypeOK
  <2> QED BY <2>1, AnswerFrame, Zenon DEF InductiveInvariant, callVars
<1>4. OwnerInv' BY OwnerFrame, Zenon DEF InductiveInvariant, sealVars, ownerVars
<1> QED BY <1>1, <1>2, <1>3, <1>4, Zenon

-----------------------------------------------------------------------------
(* Answering *)

\* set_value on a promise that was not completed yet.
LEMMA Answering ==
    ASSUME TypeOK, NEW c \in Commands, NEW r \in Result, answers[c] = <<>>
    PROVE  /\ Answered(c, r) \in [Commands -> Seq(Result)]
           /\ Answered(c, r)[c] = <<r>> /\ Answered(c, r)[c] # <<>>
           /\ \A d \in Commands : d # c => Answered(c, r)[d] = answers[d]
<1>1. answers \in [Commands -> Seq(Result)] BY DEF TypeOK
<1>2. Append(answers[c], r) = <<r>> /\ <<r>> \in Seq(Result) /\ <<r>> # <<>>
  BY <1>1
<1> QED BY <1>1, <1>2, Zenon DEF Answered

\* The error codes of this controller.
LEMMA ErrorIsResult ==
    ASSUME NEW code \in {"ShuttingDown", "BuildFailed", "GenerationExhausted", "QueueFull",
                         "RuleCountLimitExceeded", "RuleBytesLimitExceeded",
                         "QueueBytesLimitExceeded", "InternalError"}
    PROVE  Error(code) \in Result /\ Error(code).code # "Ok"
BY LimitsAssumption DEF Error, Result

\* A command that was not answered is published only if it is in A's hands.
LEMMA NotPublished ==
    ASSUME VersionInv, NEW c \in Commands, answers[c] = <<>>, ~(Published /\ Taken(c))
    PROVE  \A g \in 2 .. MaxGeneration : blocklist[g] # c
<1> SUFFICES ASSUME NEW g \in 2 .. MaxGeneration, blocklist[g] = c PROVE FALSE
  OBVIOUS
<1>1. <<Ok(g)>> # <<>> BY Zenon
<1> QED BY <1>1, CommandsAssumption, Zenon DEF VersionInv

\* An error is told only to a caller whose rules were not published.
LEMMA ErrorAnswer ==
    ASSUME TypeOK, VersionInv, AnswerInv, NEW c \in Commands, NEW r \in Result, r.code # "Ok",
           answers[c] = <<>>, ~(Published /\ Taken(c)), answers' = Answered(c, r),
           UNCHANGED <<versionVars, blocklist>>, ~Published \/ UNCHANGED <<runner, inflight>>
    PROVE  VersionInv' /\ AnswerInv'
<1>1. \A g \in 2 .. MaxGeneration : blocklist[g] # c BY NotPublished
<1>2. /\ answers'[c] = <<r>>
      /\ \A d \in Commands : d # c => answers'[d] = answers[d]
  BY Answering, Zenon
<1>3. AnswerInv'
  <2> SUFFICES ASSUME NEW d \in Commands
               PROVE  answers'[d] = <<>>
                      \/ \E a \in Result : answers'[d] = <<a>> /\ TrueAnswer(d, a)'
    BY Zenon DEF AnswerInv
  <2>1. ASSUME NEW a \in Result, TrueAnswer(d, a) PROVE TrueAnswer(d, a)'
    BY <2>1 DEF TrueAnswer, versionVars
  <2>2. TrueAnswer(c, r)' BY <1>1, Zenon DEF TrueAnswer
  <2> QED BY <1>2, <2>1, <2>2, Zenon DEF AnswerInv
<1>4. VersionInv'
  <2>1. ASSUME NEW g \in 2 .. MaxGeneration, blocklist[g] # NoCommand
        PROVE  g <= version /\ (\/ answers'[blocklist[g]] = <<Ok(g)>>
                                \/ Published' /\ Taken(blocklist[g])' /\ g = inflight'.target)
    <3>1. blocklist[g] \in Commands BY <2>1, Zenon DEF TypeOK
    <3>2. answers'[blocklist[g]] = answers[blocklist[g]] BY <1>1, <1>2, <3>1, Zenon
    <3>3. CASE ~Published BY <2>1, <3>2, <3>3, Zenon DEF VersionInv
    <3>4. CASE UNCHANGED <<runner, inflight>>
      BY <2>1, <3>2, <3>4, Zenon DEF VersionInv, Published, Taken
    <3> QED BY <3>3, <3>4, Zenon
  <2> QED BY <2>1, Zenon DEF VersionInv, versionVars, Taken
<1> QED BY <1>3, <1>4, Zenon

\* Success is told to the caller whose rules every worker has reached.
LEMMA OkAnswer ==
    ASSUME TypeOK, VersionInv, AnswerInv, RunInv, NEW c \in Commands, answers[c] = <<>>,
           Taken(c), inflight.phase = "Committed", converged >= inflight.published,
           answers' = Answered(c, Ok(inflight.published)),
           UNCHANGED <<versionVars, blocklist>>
    PROVE  VersionInv' /\ AnswerInv'
<1>1. PICK n \in 0 .. MaxGeneration : n = inflight.published BY Zenon DEF TypeOK
<1>2. n = inflight.target /\ n \in 2 .. version /\ n \in 2 .. converged /\ blocklist[n] = c
  BY <1>1 DEF RunInv, Published, Taken, TypeOK
<1>3. Ok(n) \in Result /\ Ok(n).code = "Ok" /\ Ok(n).generation = n BY <1>1, Zenon
                           DEF Ok, Result
<1>4. /\ answers'[c] = <<Ok(n)>>
      /\ \A d \in Commands : d # c => answers'[d] = answers[d]
  BY <1>1, <1>3, Answering, Zenon
<1>5. AnswerInv'
  <2> SUFFICES ASSUME NEW d \in Commands
               PROVE  answers'[d] = <<>>
                      \/ \E a \in Result : answers'[d] = <<a>> /\ TrueAnswer(d, a)'
    BY Zenon DEF AnswerInv
  <2>1. ASSUME NEW a \in Result, TrueAnswer(d, a) PROVE TrueAnswer(d, a)'
    BY <2>1, Zenon DEF TrueAnswer, versionVars
  <2>2. TrueAnswer(c, Ok(n))' BY <1>2, <1>3, Zenon DEF TrueAnswer, versionVars
  <2> QED BY <1>3, <1>4, <2>1, <2>2, Zenon DEF AnswerInv
<1>6. VersionInv'
  <2>1. ASSUME NEW g \in 2 .. MaxGeneration, blocklist[g] # NoCommand
        PROVE  g <= version /\ answers'[blocklist[g]] = <<Ok(g)>>
    <3>1. blocklist[g] \in Commands BY <2>1, Zenon DEF TypeOK
    <3>2. CASE blocklist[g] = c
      <4>1. <<Ok(g)>> # <<>> OBVIOUS
      <4> QED BY <1>2, <1>4, <2>1, <3>2, <4>1, Zenon DEF VersionInv
    <3>3. CASE blocklist[g] # c
      BY <1>4, <2>1, <3>1, <3>3, Zenon DEF VersionInv, Taken
    <3> QED BY <3>2, <3>3, Zenon
  <2> QED BY <2>1, Zenon DEF VersionInv, versionVars
<1> QED BY <1>5, <1>6, Zenon
-----------------------------------------------------------------------------
(* Callers *)

\* submit_replace refuses: the caller is answered at once.
LEMMA RefusedStep ==
    ASSUME TypeOK, InductiveInvariant, NEW c \in Commands, SubmitRefused(c)
    PROVE  (TypeOK /\ InductiveInvariant)'
<1> USE DEF InductiveInvariant
<1>1. PICK code \in {"InternalError"} \cup
                    (IF RuleErrors(Rules[c]) # {} THEN RuleErrors(Rules[c])
                                                  ELSE QueueErrors(Rules[c])) :
          answers' = Answered(c, Error(code))
  BY Zenon DEF SubmitRefused
<1>2. Error(code) \in Result /\ Error(code).code # "Ok"
  <2>1. code \in {"ShuttingDown", "BuildFailed", "GenerationExhausted", "QueueFull",
                  "RuleCountLimitExceeded", "RuleBytesLimitExceeded",
                  "QueueBytesLimitExceeded", "InternalError"}
    BY <1>1 DEF RuleErrors, QueueErrors
  <2> QED BY <2>1, ErrorIsResult, Zenon
<1>3. c \notin called /\ called' = called \cup {c}
      /\ UNCHANGED <<pubVars, queueVars, runVars, sealVars, ownerVars>>
  BY Zenon DEF SubmitRefused
<1>4. answers[c] = <<>> /\ ~Waits(c)
  BY <1>3, Zenon DEF CallInv
<1>5. /\ answers' \in [Commands -> Seq(Result)] /\ answers'[c] # <<>>
      /\ \A d \in Commands : d # c => answers'[d] = answers[d]
  BY <1>1, <1>2, <1>4, Answering, Zenon
<1>6. TypeOK'
  <2>1. CallType' BY <1>3, <1>5, TypeGroups, Zenon DEF CallType
  <2> QED BY <1>3, <2>1, TypeGroups, TypeFrames, Zenon
<1>7. CallInv'
  <2>1. UNCHANGED <<pending, cancelled, inflight>> BY <1>3, Zenon DEF queueVars,
                           sealVars, runVars
  <2>2. ASSUME NEW d \in Commands
        PROVE  /\ OnePlace(d)'
               /\ Waits(d)' <=> (d \in called' /\ answers'[d] = <<>>)
               /\ d \notin called' => answers'[d] = <<>>
    <3>1. OnePlace(d)' /\ (Waits(d)' <=> Waits(d))
      BY <2>1 DEF CallInv, OnePlace, Waits, Queued, Taken, Dropped
    <3> QED BY <1>3, <1>4, <1>5, <3>1, ZenonT(40) DEF CallInv
  <2> QED BY <2>1, <2>2, Zenon DEF CallInv
<1>8. QueueInv' BY <1>3, QueueFrame, Zenon DEF sealVars
<1>9. RunInv' BY <1>3, Zenon DEF RunInv, Published, pubVars, versionVars, runVars
<1>10. VersionInv' /\ AnswerInv'
  <2>1. ~Taken(c) BY <1>4, Zenon DEF Waits
  <2>2. UNCHANGED <<versionVars, blocklist>> /\ UNCHANGED <<runner, inflight>>
    BY <1>3, Zenon DEF pubVars, runVars
  <2> QED BY <1>1, <1>2, <1>4, <2>1, <2>2, ErrorAnswer, Zenon
<1>11. OwnerInv' BY <1>3, Zenon DEF OwnerInv, runVars, sealVars, ownerVars
<1> QED BY <1>6, <1>7, <1>8, <1>9, <1>10, <1>11, ZenonT(40)

\* submit_replace queues the command within both limits.
LEMMA AcceptedStep ==
    ASSUME TypeOK, InductiveInvariant, NEW c \in Commands, SubmitAccepted(c)
    PROVE  (TypeOK /\ InductiveInvariant)'
<1> USE DEF InductiveInvariant
<1>1. /\ c \notin called /\ QueueErrors(Rules[c]) = {}
      /\ pending' = Append(pending, c) /\ called' = called \cup {c}
      /\ queued_rule_bytes' = queued_rule_bytes + Rules[c].raw
      /\ UNCHANGED <<pubVars, sealed, runVars, sealVars, ownerVars, answers>>
  BY Zenon DEF SubmitAccepted
<1>2. answers[c] = <<>> /\ ~Waits(c)
  BY <1>1, Zenon DEF CallInv
<1>3. /\ pending' \in Seq(Commands) /\ OnceEach(pending')
      /\ Len(pending') = Len(pending) + 1
      /\ \A d : Holds(pending', d) <=> Holds(pending, d) \/ d = c
  <2>1. pending \in Seq(Commands) /\ OnceEach(pending) /\ ~Holds(pending, c)
    BY <1>2, Zenon DEF CallInv, TypeOK, Waits, Queued
  <2> QED BY <1>1, <2>1, AppendedList, Zenon
<1>4. Rules[c].raw \in Nat BY RulesAssumption, Zenon DEF RuleSet
<1>5. TypeOK'
  <2>1. QueueType'
    BY <1>1, <1>3, <1>4, TypeGroups, SMTT(30) DEF QueueType
  <2>2. CallType' BY <1>1, TypeGroups, Zenon DEF CallType
  <2> QED BY <1>1, <2>1, <2>2, TypeGroups, TypeFrames, ZenonT(40)
<1>6. CallInv'
  <2>1. UNCHANGED <<cancelled, inflight, answers>> BY <1>1, Zenon DEF sealVars,
                           runVars
  <2>2. ASSUME NEW d \in Commands
        PROVE  /\ OnePlace(d)'
               /\ Waits(d)' <=> (d \in called' /\ answers'[d] = <<>>)
               /\ d \notin called' => answers'[d] = <<>>
    <3>1. (Queued(d)' <=> Queued(d) \/ d = c) /\ (Taken(d)' <=> Taken(d))
          /\ \A s \in Sealers : Dropped(s, d)' <=> Dropped(s, d)
      BY <1>3, <2>1, Zenon DEF Queued, Taken, Dropped
    <3>2. "A" \in Sealers /\ "owner" \in Sealers BY DEF Sealers
    <3>3. Waits(d)' <=> Waits(d) \/ d = c
      BY <3>1, Zenon DEF Waits
    <3>4. OnePlace(d)'
      BY <1>2, <3>1, <3>2, Zenon DEF CallInv, OnePlace, Waits
    <3> QED BY <1>1, <1>2, <3>3, <3>4, Zenon DEF CallInv
  <2> QED BY <1>3, <2>1, <2>2, Zenon DEF CallInv
<1>7. QueueInv'
  <2>1. /\ ~sealed /\ Len(pending) < kMaximumPendingUpdates
        /\ Rules[c].raw <= maximum_queued_rule_bytes
                           - LeastOf(queued_rule_bytes, maximum_queued_rule_bytes)
    <3>1. Len(pending) \in Nat BY SMTT(30) DEF TypeOK
    <3>2. LeastOf(queued_rule_bytes, maximum_queued_rule_bytes) \in Nat
      BY LimitsAssumption DEF LeastOf, TypeOK
    <3>3. ~sealed /\ ~(Len(pending) >= kMaximumPendingUpdates)
          /\ ~(Rules[c].raw > maximum_queued_rule_bytes
                              - LeastOf(queued_rule_bytes, maximum_queued_rule_bytes))
      BY <1>1, Zenon DEF QueueErrors
    <3> QED BY <1>4, <3>1, <3>2, <3>3, LimitsAssumption, SMTT(30)
  <2>2. queued_rule_bytes + Rules[c].raw <= maximum_queued_rule_bytes
    BY <1>4, <2>1, LimitsAssumption, SMTT(30) DEF QueueInv, LeastOf, TypeOK
  <2>3. Len(pending') <= kMaximumPendingUpdates
    <3>1. Len(pending) \in Nat BY DEF TypeOK
    <3> QED BY <1>3, <2>1, <3>1, LimitsAssumption
  <2> QED BY <1>1, <2>1, <2>2, <2>3, Zenon DEF QueueInv, sealVars
<1>8. RunInv' BY <1>1, ZenonT(40) DEF RunInv, Published, pubVars, versionVars, runVars
<1>9. VersionInv' BY <1>1, Zenon DEF VersionInv, Published, Taken, pubVars,
                     versionVars, runVars
<1>10. AnswerInv' BY <1>1, Zenon DEF AnswerInv, TrueAnswer, pubVars, versionVars
<1>11. OwnerInv' BY <1>1 DEF OwnerInv, runVars, sealVars, ownerVars
<1> QED BY <1>5, <1>6, <1>7, <1>8, <1>9, <1>10, <1>11, Zenon
-----------------------------------------------------------------------------
(* Thread A *)

\* A takes the oldest command out of the queue.
LEMMA TakeStep ==
    ASSUME TypeOK, InductiveInvariant, TakeCommand
    PROVE  (TypeOK /\ InductiveInvariant)'
<1> USE DEF InductiveInvariant
<1>1. PICK c \in Commands : c = Head(pending)
  BY TailOfList, Zenon DEF TakeCommand, CallInv, TypeOK
<1>2. /\ runner = "idle" /\ runner' = "apply" /\ pending # <<>> /\ pending' = Tail(pending)
      /\ inflight' = [command |-> c, phase |-> "Building", target |-> 0, published |-> 0]
      /\ queued_rule_bytes' = queued_rule_bytes - LeastOf(queued_rule_bytes, Rules[c].raw)
      /\ UNCHANGED <<pubVars, sealed, command_result, sealVars, ownerVars, callVars>>
  BY <1>1, ZenonT(40) DEF TakeCommand, Idle
<1>3. inflight = Idle /\ inflight.command = NoCommand /\ inflight.phase = "Completed"
  BY <1>2, SMTT(30) DEF RunInv, Idle
<1>4. /\ Holds(pending, c) /\ pending' \in Seq(Commands) /\ OnceEach(pending')
      /\ Len(pending') <= Len(pending)
      /\ \A d : Holds(pending', d) <=> Holds(pending, d) /\ d # c
  BY <1>1, <1>2, TailOfList, ZenonT(40) DEF CallInv, TypeOK
<1>5. queued_rule_bytes' \in Nat /\ queued_rule_bytes' <= queued_rule_bytes
  <2>1. Rules[c].raw \in Nat /\ queued_rule_bytes \in Nat
    BY RulesAssumption, Zenon DEF RuleSet, TypeOK
  <2> QED BY <1>2, <2>1, SMTT(30) DEF LeastOf
<1>6. TypeOK'
  <2>1. QueueType' BY <1>2, <1>4, <1>5, TypeGroups, Zenon DEF QueueType
  <2>2. RunType'
    <3>1. 0 \in 0 .. MaxGeneration /\ "Building" \in Phases BY LimitsAssumption DEF
                           Phases
    <3>2. inflight' \in Inflight BY <1>1, <1>2, <3>1, ZenonT(40) DEF Inflight
    <3> QED BY <1>2, <3>2, TypeGroups, Zenon DEF RunType
  <2> QED BY <1>2, <2>1, <2>2, TypeGroups, TypeFrames, Zenon
<1>7. CallInv'
  <2>1. UNCHANGED <<cancelled, called, answers>> BY <1>2 DEF sealVars, callVars
  <2>2. ASSUME NEW d \in Commands PROVE OnePlace(d)' /\ (Waits(d)' <=> Waits(d))
    <3>1. (Queued(d)' <=> Queued(d) /\ d # c) /\ (Taken(d)' <=> d = c) /\ ~Taken(d) /\ Queued(c)
          /\ \A s \in Sealers : Dropped(s, d)' <=> Dropped(s, d)
      BY <1>2, <1>3, <1>4, <2>1, CommandsAssumption, Zenon DEF Queued, Taken, Dropped
    <3>2. OnePlace(d) BY DEF CallInv
    <3>3. OnePlace(d)' BY <3>1, <3>2, Zenon DEF OnePlace, Sealers
    <3>4. Waits(d)' <=> Waits(d) BY <3>1, ZenonT(40) DEF Waits
    <3> QED BY <3>3, <3>4, Zenon
  <2> QED BY <1>4, <2>1, <2>2, Zenon DEF CallInv
<1>8. QueueInv'
  <2>1. Len(pending') <= kMaximumPendingUpdates /\ queued_rule_bytes' <= maximum_queued_rule_bytes
    <3>1. Len(pending) \in Nat /\ Len(pending') \in Nat /\ queued_rule_bytes \in Nat
      BY <1>4, SMTT(30) DEF TypeOK
    <3> QED BY <1>4, <1>5, <3>1, LimitsAssumption, SMTT(30) DEF QueueInv
  <2> QED BY <1>2, <2>1, Zenon DEF QueueInv, sealVars
<1>9. RunInv'
  BY <1>1, <1>2, CommandsAssumption, Zenon DEF RunInv, Published
<1>10. VersionInv'
  BY <1>2, <1>3, VersionFrame, Zenon DEF Published, pubVars, callVars
<1>11. AnswerInv' BY <1>2, Zenon DEF AnswerInv, TrueAnswer, pubVars, versionVars,
                     callVars
<1>12. OwnerInv' BY <1>2, OwnerFrame, Zenon DEF sealVars, ownerVars
<1> QED BY <1>6, <1>7, <1>8, <1>9, <1>10, <1>11, <1>12, Zenon

\* apply returns an error: a command that is not committed goes back to Building.
LEMMA ApplyFailsStep ==
    ASSUME TypeOK, InductiveInvariant,
           NEW from \in {"apply", "acquire", "build", "publish", "wait"},
           NEW code \in {"ShuttingDown", "BuildFailed", "GenerationExhausted", "InternalError"},
           ApplyFails(from, code)
    PROVE  (TypeOK /\ InductiveInvariant)'
<1> USE DEF InductiveInvariant
<1>1. /\ runner = from /\ runner' = "applied" /\ command_result' = Error(code)
      /\ credit_held' \in BOOLEAN
      /\ UNCHANGED <<versionVars, blocklist, retired_pending, reclaimer_active, queueVars,
                     sealVars, ownerVars, callVars>>
  BY Zenon DEF ApplyFails
<1>2. Error(code) \in Result /\ Error(code).code # "Ok" BY ErrorIsResult, Zenon
<1>3. /\ inflight.command # NoCommand
      /\ inflight.phase \in {"Building", "Publishing", "Committed"}
      /\ Published => inflight.phase = "Committed"
  BY <1>1, SMTT(30) DEF RunInv, Published, Idle
<1>4. /\ inflight' \in Inflight
      /\ inflight'.command = inflight.command
      /\ inflight.phase = "Committed" => inflight' = inflight
      /\ inflight.phase # "Committed" => inflight'.phase = "Building"
  <2>1. inflight \in Inflight /\ "Building" \in Phases /\ 0 \in 0 .. MaxGeneration
    BY TypeGroups, LimitsAssumption DEF RunType, Phases
  <2>2. inflight' = IF inflight.phase = "Committed" THEN inflight
                   ELSE [inflight EXCEPT !.phase = "Building", !.target = 0]
    BY DEF ApplyFails
  <2>3. CASE inflight.phase = "Committed" BY <2>1, <2>2, <2>3, Zenon
  <2>4. CASE inflight.phase # "Committed"
    <3>1. inflight' = [inflight EXCEPT !.phase = "Building", !.target = 0] BY <2>2,
                           <2>4, Zenon
    <3> QED BY <2>1, <2>4, <3>1, Zenon DEF Inflight
  <2> QED BY <2>3, <2>4, Zenon
<1>5. TypeOK'
  <2>1. PubType' BY <1>1, TypeGroups, Zenon DEF PubType, versionVars
  <2>2. RunType' BY <1>1, <1>2, <1>4, TypeGroups, Zenon DEF RunType
  <2> QED BY <1>1, <2>1, <2>2, TypeGroups, TypeFrames, Zenon
<1>6. CallInv' /\ QueueInv' /\ AnswerInv' /\ OwnerInv'
  BY <1>1, <1>4, QuietRunner, Zenon DEF versionVars
<1>7. Published' <=> Published BY <1>1, <1>3, <1>4, Zenon DEF Published
<1>8. RunInv'
  BY <1>1, <1>2, <1>3, <1>4, <1>7, Zenon DEF RunInv, Published, versionVars
<1>9. VersionInv'
  BY <1>1, <1>3, <1>4, <1>7, VersionFrame, Zenon DEF callVars
<1> QED BY <1>5, <1>6, <1>8, <1>9, Zenon

\* A only moves on: TerminalDetach, ReadCurrent, LeaveToSuccessor.
LEMMA MoveStep ==
    ASSUME TypeOK, InductiveInvariant, TerminalDetach \/ ReadCurrent \/ LeaveToSuccessor
    PROVE  (TypeOK /\ InductiveInvariant)'
<1> USE DEF InductiveInvariant
<1>1. /\ runner \in {"idle", "apply", "applied"} /\ runner' \in {"finish", "acquire"}
      /\ UNCHANGED <<pubVars, queueVars, inflight, command_result, sealVars, ownerVars, callVars>>
  BY Zenon DEF TerminalDetach, ReadCurrent, LeaveToSuccessor
<1>2. TypeOK'
  <2>1. RunType' BY <1>1, TypeGroups, Zenon DEF RunType
  <2> QED BY <1>1, <2>1, TypeGroups, TypeFrames, Zenon
<1>3. CallInv' /\ QueueInv' /\ AnswerInv' /\ OwnerInv'
  BY <1>1, QuietRunner, Zenon DEF pubVars, versionVars
<1>4. RunInv'
  BY <1>1, Zenon DEF RunInv, Published, pubVars, versionVars, TerminalDetach,
     ReadCurrent, LeaveToSuccessor
<1>5. VersionInv'
  BY <1>1, VersionFrame, Zenon DEF pubVars, callVars, Published
<1> QED BY <1>2, <1>3, <1>4, <1>5, Zenon

\* A waits for the credit and builds the next generation.
LEMMA PrepareStep ==
    ASSUME TypeOK, InductiveInvariant, AcquireCredit \/ BuildSucceeds
    PROVE  (TypeOK /\ InductiveInvariant)'
<1> USE DEF InductiveInvariant
<1>1. /\ runner \in {"acquire", "build"} /\ runner' \in {"build", "publish"}
      /\ UNCHANGED <<versionVars, blocklist, retired_pending, reclaimer_active, queueVars,
                     command_result, sealVars, ownerVars, callVars>>
      /\ credit_held' \in BOOLEAN
  BY Zenon DEF AcquireCredit, BuildSucceeds, pubVars, creditVars, TypeOK
<1>2. inflight.phase = "Building" /\ version < MaxGeneration BY <1>1, Zenon DEF RunInv
<1>3. /\ inflight' \in Inflight
      /\ inflight'.command = inflight.command
      /\ runner' = "build" => inflight' = inflight
      /\ runner' = "publish" => inflight'.phase = "Publishing" /\ inflight'.target = version + 1
  <2>1. inflight \in Inflight /\ "Publishing" \in Phases /\ version + 1 \in 0 .. MaxGeneration
    <3>1. version \in 1 .. MaxGeneration /\ inflight \in Inflight
      BY TypeGroups DEF RunType, PubType
    <3> QED BY <1>2, <3>1, LimitsAssumption, SMTT(30) DEF Phases
  <2>2. CASE AcquireCredit BY <2>1, <2>2, Zenon DEF AcquireCredit
  <2>3. CASE BuildSucceeds
    <3>1. inflight' = [inflight EXCEPT !.phase = "Publishing", !.target = version + 1]
          /\ runner' = "publish"
      BY <2>1, <2>3, Zenon DEF BuildSucceeds, Inflight
    <3>2. /\ inflight' \in Inflight /\ inflight'.command = inflight.command
          /\ inflight'.phase = "Publishing" /\ inflight'.target = version + 1
      BY <2>1, <3>1, Zenon DEF Inflight
    <3> QED BY <3>1, <3>2, Zenon
  <2> QED BY <2>2, <2>3, Zenon
<1>4. TypeOK'
  <2>1. PubType' BY <1>1, TypeGroups, Zenon DEF PubType, versionVars
  <2>2. RunType' BY <1>1, <1>3, TypeGroups, Zenon DEF RunType
  <2> QED BY <1>1, <2>1, <2>2, TypeGroups, TypeFrames, Zenon
<1>5. CallInv' /\ QueueInv' /\ AnswerInv' /\ OwnerInv'
  BY <1>1, <1>3, QuietRunner, ZenonT(40) DEF versionVars
<1>6. RunInv'
  BY <1>1, <1>2, <1>3, SMTT(30) DEF RunInv, Published, versionVars, Idle
<1>7. VersionInv'
  BY <1>1, <1>2, VersionFrame, Zenon DEF Published, callVars
<1> QED BY <1>4, <1>5, <1>6, <1>7, Zenon
\* A's command is called and not answered.
LEMMA TakenIsWaiting ==
    ASSUME TypeOK, InductiveInvariant, inflight.command # NoCommand
    PROVE  /\ inflight.command \in Commands /\ inflight.command \in called
           /\ answers[inflight.command] = <<>>
<1>1. inflight.command \in Commands BY DEF TypeOK
<1>2. Waits(inflight.command) BY Zenon DEF Waits, Taken
<1> QED BY <1>1, <1>2, Zenon DEF InductiveInvariant, CallInv

\* commit: the rules of A's command become the next generation.
LEMMA CommitStep ==
    ASSUME TypeOK, InductiveInvariant, Commit
    PROVE  (TypeOK /\ InductiveInvariant)'
<1> USE DEF InductiveInvariant
<1>1. /\ runner = "publish" /\ runner' = "published" /\ converged = version
      /\ version' = version + 1 /\ UNCHANGED <<view, converged>>
      /\ blocklist' = [blocklist EXCEPT ![version + 1] = inflight.command]
      /\ retired_pending' = TRUE
      /\ UNCHANGED <<credit_held, reclaimer_active, queueVars, inflight, command_result,
                     sealVars, ownerVars, callVars>>
  BY Zenon DEF Commit, Versions!Publish
<1>2. /\ inflight.phase = "Publishing" /\ inflight.target = version + 1 /\ version < MaxGeneration
      /\ ~Published
  BY <1>1, Zenon DEF RunInv, Published
<1>3. inflight.command # NoCommand BY <1>2, SMTT(30) DEF RunInv, Idle
<1>4. inflight.command \in Commands /\ answers[inflight.command] = <<>>
  BY <1>3, TakenIsWaiting, Zenon
<1>5. /\ version \in Nat /\ version + 1 \in 2 .. MaxGeneration
      /\ \A g \in 2 .. version : g \in 2 .. MaxGeneration /\ g # version + 1
  BY <1>2, LimitsAssumption, SMTT(30) DEF TypeOK
<1>6. /\ blocklist' \in [2 .. MaxGeneration -> Commands \cup {NoCommand}]
      /\ blocklist'[version + 1] = inflight.command
      /\ \A g \in 2 .. MaxGeneration : g # version + 1 => blocklist'[g] = blocklist[g]
  BY <1>1, <1>4, <1>5, Zenon DEF TypeOK
<1>7. TypeOK'
  <2>1. PubType' BY <1>1, <1>5, <1>6, TypeGroups, LimitsAssumption, SMTT(30) DEF
                    PubType
  <2>2. RunType' BY <1>1, TypeGroups, Zenon DEF RunType
  <2> QED BY <1>1, <2>1, <2>2, TypeGroups, TypeFrames, ZenonT(40)
<1>8. CallInv' BY <1>1, CallFrame, Zenon DEF queueVars, sealVars
<1>9. QueueInv' BY <1>1, QueueFrame, Zenon DEF sealVars
<1>10. OwnerInv' BY <1>1, OwnerFrame, Zenon DEF sealVars, ownerVars
<1>11. RunInv'
  <2>1. inflight'.target \in 2 .. version' /\ blocklist'[inflight'.target] = inflight'.command
    BY <1>1, <1>2, <1>5, <1>6, SMTT(30)
  <2> QED BY <1>1, <1>2, <1>3, <2>1, ZenonT(40) DEF RunInv, Published
<1>12. VersionInv'
  <2>1. ASSUME NEW g \in 2 .. MaxGeneration, blocklist'[g] # NoCommand
        PROVE  g <= version' /\ (\/ answers'[blocklist'[g]] = <<Ok(g)>>
                                 \/ /\ Published' /\ inflight'.command = blocklist'[g]
                                    /\ g = inflight'.target)
    <3>1. CASE g = version + 1
      <4>1. g <= version' BY <1>1, <1>5, <3>1, SMTT(30)
      <4>2. Published' BY <1>1, Zenon DEF Published
      <4>3. inflight'.command = blocklist'[g] /\ g = inflight'.target
        BY <1>1, <1>2, <1>6, <3>1, ZenonT(40)
      <4> QED BY <4>1, <4>2, <4>3, Zenon
    <3>2. CASE g # version + 1
      <4>1. g <= version /\ answers[blocklist[g]] = <<Ok(g)>>
        BY <1>2, <1>6, <2>1, <3>2, ZenonT(40) DEF VersionInv
      <4> QED BY <1>1, <1>5, <1>6, <3>2, <4>1, SMTT(30) DEF callVars
    <3> QED BY <3>1, <3>2, Zenon
  <2>2. converged' <= version' BY <1>1, <1>5, SMTT(30)
  <2>3. \A w \in Workers : view'[w] = 0 \/ view'[w] >= converged'
    BY <1>1, Zenon DEF VersionInv
  <2> QED BY <2>1, <2>2, <2>3, Zenon DEF VersionInv, Taken
<1>13. AnswerInv'
  <2> SUFFICES ASSUME NEW c \in Commands
               PROVE  answers'[c] = <<>>
                      \/ \E a \in Result : answers'[c] = <<a>> /\ TrueAnswer(c, a)'
    BY Zenon DEF AnswerInv
  <2>1. ASSUME NEW a \in Result, answers[c] = <<a>>, TrueAnswer(c, a)
        PROVE  TrueAnswer(c, a)'
    <3>1. c # inflight.command
      <4>1. <<a>> # <<>> BY Zenon
      <4> QED BY <1>4, <2>1, <4>1, Zenon
    <3>2. CASE a.code = "Ok"
      <4>1. a.generation \in 2 .. converged /\ blocklist[a.generation] = c
        BY <2>1, <3>2, Zenon DEF TrueAnswer
      <4>2. a.generation \in 2 .. MaxGeneration /\ a.generation # version + 1
        BY <1>1, <1>5, <4>1, Zenon
      <4>3. a.generation \in 2 .. converged' /\ blocklist'[a.generation] = c
        BY <1>1, <1>6, <4>1, <4>2, ZenonT(40)
      <4> QED BY <3>2, <4>3, Zenon DEF TrueAnswer
    <3>3. CASE a.code # "Ok"
      <4>1. \A g \in 2 .. MaxGeneration : blocklist'[g] # c
        BY <1>6, <2>1, <3>1, <3>3, ZenonT(40) DEF TrueAnswer
      <4> QED BY <3>3, <4>1, Zenon DEF TrueAnswer
    <3> QED BY <3>2, <3>3, Zenon
  <2> QED BY <1>1, <2>1, Zenon DEF AnswerInv, callVars
<1> QED BY <1>7, <1>8, <1>9, <1>10, <1>11, <1>12, <1>13, Zenon

\* apply writes down the commit, and later that every worker reached it.
LEMMA AfterCommitStep ==
    ASSUME TypeOK, InductiveInvariant, RecordCommitted \/ Converged
    PROVE  (TypeOK /\ InductiveInvariant)'
<1> USE DEF InductiveInvariant
<1>1. /\ runner \in {"published", "wait"} /\ runner' \in {"wait", "applied"}
      /\ UNCHANGED <<pubVars, queueVars, sealVars, ownerVars, callVars>>
  BY Zenon DEF RecordCommitted, Converged
<1>2. Published BY <1>1, ZenonT(40) DEF RunInv, Published
<1>3. inflight.command # NoCommand BY <1>1, SMTT(30) DEF RunInv, Idle
<1>4. inflight \in Inflight BY TypeGroups, Zenon DEF RunType
<1>5. /\ inflight' \in Inflight /\ inflight'.command = inflight.command
      /\ inflight'.target = inflight.target /\ inflight'.phase = "Committed"
      /\ inflight'.published = inflight.target
  <2>1. CASE RecordCommitted
    <3>1. inflight' = [inflight EXCEPT !.phase = "Committed", !.published = inflight.target]
      BY <2>1, Zenon DEF RecordCommitted
    <3> QED BY <1>4, <3>1, Zenon DEF Inflight, Phases
  <2>2. CASE Converged BY <1>4, <2>2, Zenon DEF Converged, RunInv
  <2> QED BY <2>1, <2>2, Zenon
<1>6. /\ command_result' \in Result
      /\ runner' = "wait" \/ (/\ runner' = "applied" /\ command_result' = Ok(inflight.published)
                              /\ UNCHANGED inflight /\ converged >= inflight.published)
  <2>1. CASE RecordCommitted BY <2>1, Zenon DEF RecordCommitted, TypeOK
  <2>2. CASE Converged
    <3>1. Ok(inflight.published) \in Result BY <1>4, Zenon DEF Ok, Result, Inflight
    <3> QED BY <2>2, <3>1, Zenon DEF Converged
  <2> QED BY <2>1, <2>2, Zenon
<1>7. TypeOK'
  <2>1. RunType' BY <1>1, <1>5, <1>6, Zenon DEF RunType
  <2> QED BY <1>1, <2>1, TypeGroups, TypeFrames, Zenon
<1>8. CallInv' /\ QueueInv' /\ AnswerInv' /\ OwnerInv'
  BY <1>1, <1>5, QuietRunner, Zenon DEF pubVars, versionVars
<1>9. RunInv'
  <2>1. /\ inflight'.target \in 2 .. version' /\ blocklist'[inflight'.target] = inflight'.command
    BY <1>1, <1>2, <1>5, Zenon DEF RunInv, pubVars, versionVars
  <2>2. runner' = "applied" => /\ converged' >= inflight'.published
                               /\ command_result'.generation = inflight'.published
    BY <1>1, <1>6, SMTT(30) DEF Ok, pubVars, versionVars
  <2> QED BY <1>1, <1>3, <1>5, <2>1, <2>2, Zenon DEF RunInv, Published
<1>10. VersionInv'
  BY <1>1, <1>2, <1>5, VersionFrame, Zenon DEF pubVars, callVars, Published
<1> QED BY <1>7, <1>8, <1>9, <1>10, Zenon
\* The caller of A's command is answered, and A's hands are empty.
LEMMA TakenIsAnswered ==
    ASSUME TypeOK, CallInv, NEW c \in Commands, Taken(c), answers[c] = <<>>, NEW r \in Result,
           answers' = Answered(c, r), inflight' = Idle, UNCHANGED <<pending, cancelled, called>>
    PROVE  CallInv'
<1>1. /\ answers'[c] # <<>>
      /\ \A d \in Commands : d # c => answers'[d] = answers[d]
  BY Answering, Zenon
<1>2. ASSUME NEW d \in Commands
      PROVE  /\ OnePlace(d)'
             /\ Waits(d)' <=> (d \in called' /\ answers'[d] = <<>>)
             /\ d \notin called' => answers'[d] = <<>>
  <2>1. (Queued(d)' <=> Queued(d)) /\ ~Taken(d)' /\ (Taken(d) <=> d = c)
        /\ \A s \in Sealers : Dropped(s, d)' <=> Dropped(s, d)
    BY CommandsAssumption, Zenon DEF Queued, Taken, Dropped, Idle
  <2>2. OnePlace(d) /\ (Waits(d) <=> (d \in called /\ answers[d] = <<>>)) BY Zenon
                           DEF CallInv
  <2>3. OnePlace(d)' BY <2>1, <2>2, Zenon DEF OnePlace, Sealers
  <2>4. Waits(d)' <=> Waits(d) /\ d # c
    BY <2>1, <2>2, ZenonT(40) DEF Waits, OnePlace
  <2>5. c \in called BY Zenon DEF CallInv, Waits
  <2> QED BY <1>1, <2>2, <2>3, <2>4, <2>5, Zenon DEF CallInv
<1> QED BY <1>2, Zenon DEF CallInv

\* A completes its command, with the version it published or with an error.
LEMMA CompleteStep ==
    ASSUME TypeOK, InductiveInvariant, CompleteCommand
    PROVE  (TypeOK /\ InductiveInvariant)'
<1> USE DEF InductiveInvariant
<1>1. /\ runner = "applied" /\ runner' = "idle" /\ inflight' = Idle
      /\ command_result.code = "Ok" \/ inflight.phase # "Committed"
      /\ answers' = Answered(inflight.command, command_result)
      /\ UNCHANGED <<pubVars, queueVars, command_result, sealVars, ownerVars, called>>
  BY ZenonT(40) DEF CompleteCommand
<1>2. inflight.command # NoCommand BY <1>1, SMTT(30) DEF RunInv, Idle
<1>3. PICK c \in Commands : c = inflight.command BY <1>2, TakenIsWaiting, Zenon
<1>4. answers[c] = <<>> /\ Taken(c) BY <1>2, <1>3, TakenIsWaiting, Zenon DEF Taken
<1>5. command_result \in Result BY Zenon DEF TypeOK
<1>6. TypeOK'
  <2>1. CallType' BY <1>1, <1>3, <1>4, <1>5, Answering, TypeGroups, ZenonT(40) DEF
                     CallType
  <2>2. RunType' BY <1>1, LimitsAssumption, TypeGroups, SMTT(30) DEF RunType, Idle,
                    Inflight, Phases
  <2> QED BY <1>1, <2>1, <2>2, TypeGroups, TypeFrames, Zenon
<1>7. CallInv'
  BY <1>1, <1>3, <1>4, <1>5, TakenIsAnswered, Zenon DEF queueVars, sealVars
<1>8. QueueInv' BY <1>1, QueueFrame, Zenon DEF sealVars
<1>9. OwnerInv' BY <1>1, OwnerFrame, Zenon DEF sealVars, ownerVars
<1>10. RunInv' BY <1>1, Zenon DEF RunInv, Published, Idle
<1>11. VersionInv' /\ AnswerInv'
  <2>1. UNCHANGED <<versionVars, blocklist>> BY <1>1, Zenon DEF pubVars
  <2>2. CASE command_result.code = "Ok"
    <3>1. /\ inflight.phase = "Committed" /\ converged >= inflight.published
          /\ command_result = Ok(inflight.published)
      BY <1>1, <1>5, <2>2, Zenon DEF RunInv, Ok, Result
    <3> QED BY <1>1, <1>3, <1>4, <2>1, <3>1, OkAnswer, Zenon
  <2>3. CASE command_result.code # "Ok"
    <3>1. ~Published BY <1>1, <2>3, Zenon DEF Published
    <3> QED BY <1>1, <1>3, <1>4, <1>5, <2>1, <2>3, <3>1, ErrorAnswer, Zenon
  <2> QED BY <2>2, <2>3, Zenon
<1> QED BY <1>6, <1>7, <1>8, <1>9, <1>10, <1>11, Zenon

\* A stops: what it leaves behind, if anything, was published.
LEMMA FinishStep ==
    ASSUME TypeOK, InductiveInvariant, FinishRun
    PROVE  (TypeOK /\ InductiveInvariant)'
<1> USE DEF InductiveInvariant
<1>1. runner = "finish" /\ (inflight = Idle \/ inflight.phase = "Committed")
  BY Zenon DEF FinishRun, RunInv
<1>2. Reconciled(inflight) = inflight
  BY <1>1, SMTT(30) DEF Reconciled, Idle
<1>3. /\ runner' = "stopped" /\ sealing["A"] = "done" /\ UNCHANGED <<inflight, answers>>
      /\ UNCHANGED <<pubVars, queueVars, command_result, sealVars, ownerVars, called>>
  BY <1>1, <1>2, SMTT(30) DEF FinishRun, Idle
<1>4. TypeOK'
  <2>1. RunType' BY <1>3, TypeGroups, Zenon DEF RunType
  <2>2. UNCHANGED callVars BY <1>3, Zenon DEF callVars
  <2> QED BY <1>3, <2>1, <2>2, TypeGroups, TypeFrames, Zenon
<1>5. CallInv' BY <1>3, CallFrame, Zenon DEF queueVars, sealVars, callVars
<1>6. QueueInv' BY <1>3, QueueFrame, Zenon DEF sealVars
<1>7. RunInv' BY <1>1, <1>3, Zenon DEF RunInv, Published, pubVars, versionVars
<1>8. VersionInv'
  BY <1>1, <1>3, VersionFrame, Zenon DEF Published, pubVars
<1>9. AnswerInv' BY <1>3, Zenon DEF AnswerInv, TrueAnswer, pubVars, versionVars
<1>10. OwnerInv' BY <1>1, <1>3, Zenon DEF OwnerInv, sealVars, ownerVars
<1> QED BY <1>4, <1>5, <1>6, <1>7, <1>8, <1>9, <1>10, Zenon

\* The successor answers what A left behind.
LEMMA SuccessorStep ==
    ASSUME TypeOK, InductiveInvariant, CompleteBySuccessor
    PROVE  (TypeOK /\ InductiveInvariant)'
<1> USE DEF InductiveInvariant
<1>1. runner = "stopped" /\ owner = "successor" /\ (inflight = Idle \/ inflight.phase = "Committed")
  BY DEF CompleteBySuccessor, RunInv, OwnerInv
<1>2. Reconciled(inflight) = inflight
  BY <1>1, SMTT(30) DEF Reconciled, Idle
<1>3. /\ inflight' = Idle /\ owner' = "done"
      /\ UNCHANGED <<pubVars, queueVars, runner, command_result, sealVars,
                     terminal_detach_requested, called>>
  BY ZenonT(40) DEF CompleteBySuccessor
<1>4. /\ RunType' /\ OwnerType'
  BY <1>3, LimitsAssumption, TypeGroups, SMTT(30) DEF RunType, Idle, Inflight,
     Phases, OwnerType
<1>5. QueueInv' BY <1>3, QueueFrame, Zenon DEF sealVars
<1>6. RunInv' BY <1>1, <1>3, Zenon DEF RunInv, Published, Idle
<1>7. OwnerInv' BY <1>1, <1>3, Zenon DEF OwnerInv, sealVars
<1>8. CASE inflight.command = NoCommand /\ UNCHANGED answers
  <2>1. inflight = Idle BY <1>8, Zenon DEF RunInv
  <2>2. TypeOK' BY <1>3, <1>4, <1>8, TypeGroups, TypeFrames, Zenon DEF callVars
  <2>3. CallInv' BY <1>3, <1>8, <2>1, CallFrame, Zenon DEF queueVars, sealVars,
                    callVars
  <2>4. AnswerInv' BY <1>3, <1>8, Zenon DEF AnswerInv, TrueAnswer, pubVars,
                      versionVars
  <2>5. VersionInv'
    <3>1. ~Published BY <1>1, <2>1, Zenon DEF Published, Idle
    <3> QED BY <1>3, <1>8, <3>1, VersionFrame, Zenon DEF pubVars
  <2> QED BY <1>5, <1>6, <1>7, <2>2, <2>3, <2>4, <2>5, Zenon
<1>9. CASE /\ inflight.command # NoCommand /\ inflight.phase = "Committed"
           /\ converged >= inflight.published
           /\ answers' = Answered(inflight.command, Ok(inflight.published))
  <2>1. PICK c \in Commands : c = inflight.command BY <1>9, TakenIsWaiting, Zenon
  <2>2. answers[c] = <<>> /\ Taken(c) BY <1>9, <2>1, TakenIsWaiting, Zenon DEF Taken
  <2>3. Ok(inflight.published) \in Result
    BY TypeGroups, Zenon DEF Ok, Result, RunType, Inflight
  <2>4. TypeOK'
    <3>1. CallType' BY <1>3, <1>9, <2>1, <2>2, <2>3, Answering, TypeGroups, Zenon
                       DEF CallType
    <3> QED BY <1>3, <1>4, <3>1, TypeGroups, TypeFrames, Zenon
  <2>5. CallInv'
    BY <1>3, <1>9, <2>1, <2>2, <2>3, TakenIsAnswered, Zenon DEF queueVars, sealVars
  <2>6. VersionInv' /\ AnswerInv'
    BY <1>3, <1>9, <2>1, <2>2, OkAnswer, Zenon DEF pubVars
  <2> QED BY <1>5, <1>6, <1>7, <2>4, <2>5, <2>6, Zenon
<1> QED BY <1>2, <1>8, <1>9, ZenonT(40) DEF CompleteBySuccessor
-----------------------------------------------------------------------------
(* seal, executed by A and by the owner *)

\* What seal() does not touch.
LEMMA SealFrame ==
    ASSUME TypeOK, InductiveInvariant, UNCHANGED <<pubVars, runVars, ownerVars>>,
           \A s \in Sealers : sealing[s] = "done" => sealing'[s] = "done"
    PROVE  /\ PubType' /\ RunType' /\ OwnerType' /\ RunInv' /\ OwnerInv'
           /\ UNCHANGED answers => VersionInv' /\ AnswerInv'
<1> USE DEF InductiveInvariant
<1>1. PubType' /\ RunType' /\ OwnerType' BY TypeGroups, TypeFrames, Zenon
<1>2. RunInv' BY Zenon DEF RunInv, Published, pubVars, versionVars, runVars
<1>3. OwnerInv' BY Zenon DEF OwnerInv, runVars, ownerVars, Sealers
<1>4. UNCHANGED answers => VersionInv'
  BY Zenon DEF VersionInv, Published, Taken, pubVars, versionVars, runVars
<1>5. UNCHANGED answers => AnswerInv'
  BY ZenonT(40) DEF AnswerInv, TrueAnswer, pubVars, versionVars
<1> QED BY <1>1, <1>2, <1>3, <1>4, <1>5, Zenon

\* The steps of seal() that leave the queue and the callers alone.
LEMMA SealQuietStep ==
    ASSUME TypeOK, InductiveInvariant, NEW s \in Sealers,
           SealBegin(s) \/ SealPublication(s) \/ Sealed(s)
    PROVE  (TypeOK /\ InductiveInvariant)'
<1> USE DEF InductiveInvariant
<1>1. /\ UNCHANGED <<pubVars, queueVars, runVars, cancelled, ownerVars, callVars>>
      /\ publication_sealed' \in BOOLEAN /\ build_stop_requested' \in BOOLEAN
  BY Zenon DEF SealBegin, SealPublication, Sealed, TypeOK
<1>2. PICK to \in {"publication", "queue", "done"} :
          /\ sealing' = [sealing EXCEPT ![s] = to]
          /\ to # "done" => sealing[s] \in {"no", "publication"}
          /\ to = "done" => sealing[s] \in {"answer", "drain"} /\ cancelled[s] = <<>>
  BY Zenon DEF SealBegin, SealPublication, Sealed, SealStep
<1>3. sealing \in [Sealers -> {"no", "publication", "queue", "answer", "drain", "done"}]
  BY Zenon DEF TypeOK
<1>4. /\ sealing' \in [Sealers -> {"no", "publication", "queue", "answer", "drain", "done"}]
      /\ \A t \in Sealers : sealing'[t] = IF t = s THEN to ELSE sealing[t]
  BY <1>2, <1>3, Zenon
<1>5. \A t \in Sealers : sealing[t] = "done" => sealing'[t] = "done"
  BY <1>2, <1>4, Zenon
<1>6. UNCHANGED answers BY <1>1, Zenon DEF callVars
<1>7. /\ PubType' /\ RunType' /\ OwnerType' /\ RunInv' /\ OwnerInv' /\ VersionInv' /\ AnswerInv'
  BY <1>1, <1>5, <1>6, SealFrame, Zenon
<1>8. TypeOK'
  <2>1. SealType' BY <1>1, <1>4, TypeGroups, Zenon DEF SealType
  <2> QED BY <1>1, <1>7, <2>1, TypeGroups, TypeFrames, Zenon
<1>9. CallInv' BY <1>1, CallFrame, Zenon DEF queueVars, runVars
<1>10. QueueInv'
  <2>1. ASSUME NEW t \in Sealers
        PROVE  /\ sealing'[t] \in {"no", "publication", "queue", "done"} => cancelled[t] = <<>>
               /\ sealing'[t] \in {"answer", "drain", "done"} => sealed
    BY <1>2, <1>4, Zenon DEF QueueInv
  <2> QED BY <1>1, <2>1, Zenon DEF QueueInv, queueVars
<1> QED BY <1>7, <1>8, <1>9, <1>10, Zenon

\* The queue is swapped out: its callers now wait for this seal() to answer them.
LEMMA SwapOut ==
    ASSUME TypeOK, CallInv, NEW s \in Sealers, cancelled[s] = <<>>,
           cancelled' = [cancelled EXCEPT ![s] = pending], pending' = <<>>,
           UNCHANGED <<inflight, callVars>>
    PROVE  CallInv' /\ pending' \in Seq(Commands) /\ cancelled' \in [Sealers -> Seq(Commands)]
<1>1. pending \in Seq(Commands) /\ cancelled \in [Sealers -> Seq(Commands)] BY Zenon
                           DEF TypeOK
<1>2. /\ cancelled' \in [Sealers -> Seq(Commands)]
      /\ \A t \in Sealers : cancelled'[t] = IF t = s THEN pending ELSE cancelled[t]
  BY <1>1, Zenon
<1>3. /\ pending' \in Seq(Commands) /\ OnceEach(pending')
      /\ \A d : ~Holds(pending', d) /\ ~Holds(cancelled[s], d)
  BY EmptyList, Zenon
<1>4. \A t \in Sealers : OnceEach(cancelled'[t]) BY <1>2, Zenon DEF CallInv
<1>5. ASSUME NEW d \in Commands PROVE OnePlace(d)' /\ (Waits(d)' <=> Waits(d))
  <2>1. ~Queued(d)' /\ (Taken(d)' <=> Taken(d)) /\ ~Dropped(s, d) /\ (Dropped(s, d)' <=> Queued(d))
        /\ \A t \in Sealers : t # s => (Dropped(t, d)' <=> Dropped(t, d))
    BY <1>2, <1>3, Zenon DEF Queued, Taken, Dropped
  <2>2. OnePlace(d) BY Zenon DEF CallInv
  <2>3. s = "A" \/ s = "owner" BY Zenon DEF Sealers
  <2>4. OnePlace(d)' BY <2>1, <2>2, <2>3, Zenon DEF OnePlace, Sealers
  <2>5. Waits(d)' <=> Waits(d) BY <2>1, Zenon DEF Waits
  <2> QED BY <2>4, <2>5, Zenon
<1>6. UNCHANGED <<called, answers>> BY Zenon DEF callVars
<1> QED BY <1>2, <1>3, <1>4, <1>5, <1>6, Zenon DEF CallInv

\* seal() closes the queue; in finish_run, cancel_pending empties it once more.
LEMMA SealQueueStep ==
    ASSUME TypeOK, InductiveInvariant, NEW s \in Sealers,
           SealQueue(s) \/ (s = "A" /\ CancelPending)
    PROVE  (TypeOK /\ InductiveInvariant)'
<1> USE DEF InductiveInvariant
<1>1. UNCHANGED <<pubVars, runVars, publication_sealed, build_stop_requested, ownerVars, callVars>>
  BY Zenon DEF SealQueue, CancelPending
<1>2. PICK to \in {"answer", "drain"} :
          /\ sealing' = [sealing EXCEPT ![s] = to]
          /\ sealing[s] \in {"queue", "answer"} /\ cancelled[s] = <<>> /\ sealed' = TRUE
  <2>1. CASE SealQueue(s)
    BY <2>1, ZenonT(40) DEF SealQueue, SealStep, QueueInv, queueVars, TypeOK
  <2>2. CASE s = "A" /\ CancelPending
    BY <2>2, ZenonT(40) DEF CancelPending, SealStep, QueueInv, TypeOK
  <2> QED BY <2>1, <2>2, ZenonT(40)
<1>3. \/ UNCHANGED <<queueVars, cancelled>> /\ pending = <<>>
      \/ /\ cancelled' = [cancelled EXCEPT ![s] = pending]
         /\ pending' = <<>> /\ queued_rule_bytes' = 0
  BY Zenon DEF SealQueue, CancelPending, QueueInv
<1>4. /\ sealing' \in [Sealers -> {"no", "publication", "queue", "answer", "drain", "done"}]
      /\ \A t \in Sealers : sealing'[t] = IF t = s THEN to ELSE sealing[t]
  BY <1>2, Zenon DEF TypeOK
<1>5. \A t \in Sealers : sealing[t] = "done" => sealing'[t] = "done"
  BY <1>2, <1>4, Zenon
<1>6. UNCHANGED <<answers, inflight>> BY <1>1, Zenon DEF callVars, runVars
<1>7. /\ PubType' /\ RunType' /\ OwnerType' /\ RunInv' /\ OwnerInv' /\ VersionInv' /\ AnswerInv'
  BY <1>1, <1>5, <1>6, SealFrame, Zenon
<1>8. CallInv' /\ pending' \in Seq(Commands) /\ cancelled' \in [Sealers -> Seq(Commands)]
  <2>1. CASE UNCHANGED <<queueVars, cancelled>>
    <3>1. CallInv' BY <1>1, <1>6, <2>1, CallFrame, Zenon DEF queueVars
    <3> QED BY <2>1, <3>1, Zenon DEF TypeOK, queueVars
  <2>2. CASE cancelled' = [cancelled EXCEPT ![s] = pending] /\ pending' = <<>>
    BY <1>1, <1>2, <1>6, <2>2, SwapOut, ZenonT(40)
  <2> QED BY <1>3, <2>1, <2>2, Zenon
<1>9. pending' = <<>> /\ queued_rule_bytes' \in Nat
      /\ queued_rule_bytes' <= maximum_queued_rule_bytes
  BY <1>3, LimitsAssumption, SMTT(30) DEF queueVars, QueueInv, TypeOK
<1>10. TypeOK'
  <2>1. SealType' BY <1>1, <1>4, <1>8, TypeGroups, Zenon DEF SealType
  <2>2. QueueType' BY <1>2, <1>8, <1>9, Zenon DEF QueueType
  <2> QED BY <1>1, <1>7, <2>1, <2>2, TypeGroups, TypeFrames, Zenon
<1>11. QueueInv'
  <2>1. \A t \in Sealers : t # s => cancelled'[t] = cancelled[t]
    BY <1>3, Zenon DEF TypeOK
  <2>2. ASSUME NEW t \in Sealers
        PROVE  sealing'[t] \in {"no", "publication", "queue", "done"} => cancelled'[t] = <<>>
    BY <1>2, <1>4, <2>1, Zenon DEF QueueInv
  <2>3. Len(pending') <= kMaximumPendingUpdates BY <1>9, EmptyList,
                           LimitsAssumption, SMTT(30)
  <2> QED BY <1>2, <1>9, <2>2, <2>3, Zenon DEF QueueInv
<1> QED BY <1>7, <1>8, <1>10, <1>11, Zenon

\* One of the callers that seal() swapped out is told ShuttingDown.
LEMMA AnswerCancelledStep ==
    ASSUME TypeOK, InductiveInvariant, NEW s \in Sealers, AnswerCancelled(s)
    PROVE  (TypeOK /\ InductiveInvariant)'
<1> USE DEF InductiveInvariant
<1>1. /\ cancelled[s] \in Seq(Commands) /\ cancelled[s] # <<>> /\ OnceEach(cancelled[s])
      /\ cancelled \in [Sealers -> Seq(Commands)]
  BY Zenon DEF AnswerCancelled, CallInv, TypeOK
<1>2. PICK c \in Commands : c = Head(cancelled[s]) BY <1>1, TailOfList, Zenon
<1>3. /\ answers' = Answered(c, Error("ShuttingDown"))
      /\ cancelled' = [cancelled EXCEPT ![s] = Tail(cancelled[s])]
      /\ sealing[s] \in {"answer", "drain"}
      /\ UNCHANGED <<pubVars, queueVars, runVars, publication_sealed, build_stop_requested,
                     sealing, ownerVars, called>>
  BY <1>2, Zenon DEF AnswerCancelled
<1>4. /\ Holds(cancelled[s], c) /\ Tail(cancelled[s]) \in Seq(Commands)
      /\ OnceEach(Tail(cancelled[s]))
      /\ \A d : Holds(Tail(cancelled[s]), d) <=> Holds(cancelled[s], d) /\ d # c
  BY <1>1, <1>2, TailOfList, Zenon
<1>5. /\ cancelled' \in [Sealers -> Seq(Commands)] /\ cancelled'[s] = Tail(cancelled[s])
      /\ \A t \in Sealers : t # s => cancelled'[t] = cancelled[t]
  BY <1>1, <1>3, <1>4, Zenon
<1>6. Dropped(s, c) /\ ~Taken(c) /\ c \in called /\ answers[c] = <<>>
  <2>1. Dropped(s, c) BY <1>4, Zenon DEF Dropped
  <2>2. OnePlace(c) /\ (Waits(c) <=> (c \in called /\ answers[c] = <<>>)) BY Zenon
                           DEF CallInv
  <2> QED BY <2>1, <2>2, Zenon DEF OnePlace, Waits
<1>7. Error("ShuttingDown") \in Result /\ Error("ShuttingDown").code # "Ok" BY
                           ErrorIsResult, Zenon
<1>8. /\ answers' \in [Commands -> Seq(Result)] /\ answers'[c] # <<>>
      /\ \A d \in Commands : d # c => answers'[d] = answers[d]
  BY <1>3, <1>6, <1>7, Answering, Zenon
<1>9. PubType' /\ RunType' /\ OwnerType' /\ RunInv' /\ OwnerInv'
  BY <1>3, SealFrame, Zenon
<1>10. TypeOK'
  <2>1. SealType' BY <1>3, <1>5, TypeGroups, Zenon DEF SealType
  <2>2. CallType' BY <1>3, <1>8, TypeGroups, Zenon DEF CallType
  <2> QED BY <1>3, <1>9, <2>1, <2>2, TypeGroups, TypeFrames, Zenon
<1>11. VersionInv' /\ AnswerInv'
  BY <1>3, <1>6, <1>7, ErrorAnswer, Zenon DEF pubVars, runVars
<1>12. CallInv'
  <2>1. UNCHANGED <<pending, inflight, called>> BY <1>3, Zenon DEF queueVars, runVars
  <2>2. \A t \in Sealers : OnceEach(cancelled'[t]) BY <1>4, <1>5, Zenon DEF CallInv
  <2>3. ASSUME NEW d \in Commands
        PROVE  /\ OnePlace(d)'
               /\ Waits(d)' <=> (d \in called' /\ answers'[d] = <<>>)
               /\ d \notin called' => answers'[d] = <<>>
    <3>1. /\ (Queued(d)' <=> Queued(d)) /\ (Taken(d)' <=> Taken(d))
          /\ (Dropped(s, d)' <=> Dropped(s, d) /\ d # c)
          /\ \A t \in Sealers : t # s => (Dropped(t, d)' <=> Dropped(t, d))
      BY <1>4, <1>5, <2>1, Zenon DEF Queued, Taken, Dropped
    <3>2. OnePlace(d) /\ OnePlace(c) /\ (Waits(d) <=> (d \in called /\ answers[d] = <<>>))
      BY Zenon DEF CallInv
    <3>3. s = "A" \/ s = "owner" BY Zenon DEF Sealers
    <3>4. OnePlace(d)' BY <3>1, <3>2, <3>3, Zenon DEF OnePlace, Sealers
    <3>5. Waits(d)' <=> Waits(d) /\ d # c
      BY <1>6, <3>1, <3>2, <3>3, Zenon DEF Waits, OnePlace, Sealers
    <3> QED BY <1>3, <1>6, <1>8, <3>2, <3>4, <3>5, ZenonT(40) DEF CallInv
  <2> QED BY <2>1, <2>2, <2>3, Zenon DEF CallInv
<1>13. QueueInv'
  <2>1. ASSUME NEW t \in Sealers
        PROVE  sealing[t] \in {"no", "publication", "queue", "done"} => cancelled'[t] = <<>>
    BY <1>3, <1>5, Zenon DEF QueueInv
  <2> QED BY <1>3, <2>1, Zenon DEF QueueInv, queueVars
<1> QED BY <1>9, <1>10, <1>11, <1>12, <1>13, ZenonT(40)
-----------------------------------------------------------------------------
(* Workers, thread B and the owner *)

\* Views and convergence move on; the commands are not concerned.
LEMMA ReadersStep ==
    ASSUME TypeOK, InductiveInvariant,
           UNCHANGED <<version, blocklist, queueVars, runVars, sealVars, ownerVars, callVars>>,
           credit_held' \in BOOLEAN, retired_pending' \in BOOLEAN, reclaimer_active' \in BOOLEAN,
           converged' \in {converged, version}, view' \in [Workers -> 0 .. MaxGeneration],
           \A w \in Workers : view'[w] = 0 \/ view'[w] >= converged'
    PROVE  (TypeOK /\ InductiveInvariant)'
<1> USE DEF InductiveInvariant
<1>1. /\ converged \in 1 .. MaxGeneration /\ version \in 1 .. MaxGeneration
      /\ converged <= version
  BY Zenon DEF TypeOK, VersionInv
<1>2. /\ converged' \in 1 .. MaxGeneration /\ converged' <= version /\ converged <= converged'
      /\ converged' \in Nat
  BY <1>1, LimitsAssumption, SMTT(30)
<1>3. TypeOK'
  <2>1. PubType' BY <1>2, TypeGroups, Zenon DEF PubType
  <2> QED BY <2>1, TypeGroups, TypeFrames, Zenon
<1>4. CallInv' BY CallFrame, Zenon DEF queueVars, sealVars, runVars
<1>5. QueueInv' BY QueueFrame, Zenon DEF sealVars
<1>6. RunInv'
  <2>1. converged >= inflight.published => converged' >= inflight.published
    <3>1. inflight.published \in Nat BY TypeGroups, SMTT(30) DEF RunType, Inflight
    <3> QED BY <1>1, <1>2, <3>1, SMTT(30)
  <2> QED BY <2>1, Zenon DEF RunInv, Published, runVars
<1>7. VersionInv'
  BY <1>2, Zenon DEF VersionInv, Published, Taken, runVars, callVars
<1>8. AnswerInv'
  <2>1. converged' >= converged BY <1>1, <1>2, Zenon
  <2> QED BY <1>2, <2>1, AnswerFrame, Zenon DEF callVars
<1>9. OwnerInv' BY Zenon DEF OwnerInv, sealVars, runVars, ownerVars
<1> QED BY <1>3, <1>4, <1>5, <1>6, <1>7, <1>8, <1>9, ZenonT(40)

\* A worker reads the newest snapshot, or leaves; B fails or finds everyone converged.
LEMMA ReaderActions ==
    ASSUME TypeOK, InductiveInvariant,
           \/ \E w \in Workers : WorkerObserves(w) \/ WorkerLeaves(w)
           \/ ReclaimerConverges \/ ReclaimerReturnsCredit \/ ReclaimerFails \/ EmergencyReclaim
    PROVE  (TypeOK /\ InductiveInvariant)'
<1>1. /\ converged \in 1 .. MaxGeneration /\ version \in 1 .. MaxGeneration
      /\ converged <= version /\ view \in [Workers -> 0 .. MaxGeneration]
      /\ \A w \in Workers : view[w] = 0 \/ view[w] >= converged
  BY Zenon DEF TypeOK, InductiveInvariant, VersionInv
<1>2. ASSUME NEW w \in Workers, WorkerObserves(w) \/ WorkerLeaves(w)
      PROVE  (TypeOK /\ InductiveInvariant)'
  <2>1. /\ UNCHANGED <<version, converged, blocklist, creditVars, reclaimer_active, queueVars,
                       runVars, sealVars, ownerVars, callVars>>
        /\ view' = [view EXCEPT ![w] = version] \/ view' = [view EXCEPT ![w] = 0]
    BY <1>2, Zenon DEF WorkerObserves, WorkerLeaves, Versions!Observe, Versions!Leave
  <2>2. /\ view' \in [Workers -> 0 .. MaxGeneration]
        /\ \A x \in Workers : view'[x] = view[x] \/ view'[x] \in {0, version}
    <3>1. PICK n \in {0, version} : view' = [view EXCEPT ![w] = n] BY <2>1, Zenon
    <3>2. n \in 0 .. MaxGeneration BY <1>1, <3>1, LimitsAssumption, SMTT(30)
    <3> QED BY <1>1, <3>1, <3>2, Zenon
  <2>3. \A x \in Workers : view'[x] = 0 \/ view'[x] >= converged'
    BY <1>1, <2>1, <2>2, Zenon
  <2>4. credit_held' \in BOOLEAN /\ retired_pending' \in BOOLEAN /\ reclaimer_active' \in BOOLEAN
    BY <2>1, Zenon DEF TypeOK, creditVars
  <2> QED BY <2>1, <2>2, <2>3, <2>4, ReadersStep, Zenon
<1>3. CASE ReclaimerConverges \/ EmergencyReclaim
  <2>1. /\ UNCHANGED <<version, view, blocklist, reclaimer_active, queueVars, runVars, sealVars,
                       ownerVars, callVars>>
        /\ converged' = version /\ \A w \in Workers : view[w] \in {0, version}
        /\ credit_held' \in BOOLEAN /\ retired_pending' \in BOOLEAN
    BY <1>3, ZenonT(40) DEF ReclaimerConverges, EmergencyReclaim, Versions!Converge,
       creditVars, TypeOK
  <2>2. \A w \in Workers : view'[w] = 0 \/ view'[w] >= converged'
    BY <1>1, <2>1, SMTT(30)
  <2>3. reclaimer_active' \in BOOLEAN BY <2>1, ZenonT(40) DEF TypeOK
  <2> QED BY <1>1, <2>1, <2>2, <2>3, ReadersStep, ZenonT(40)
<1>4. CASE ReclaimerReturnsCredit \/ ReclaimerFails
  <2>1. /\ UNCHANGED <<versionVars, blocklist, queueVars, runVars, sealVars, ownerVars, callVars>>
        /\ credit_held' \in BOOLEAN /\ retired_pending' \in BOOLEAN /\ reclaimer_active' \in BOOLEAN
    BY <1>4, ZenonT(40) DEF ReclaimerReturnsCredit, ReclaimerFails, creditVars, TypeOK
  <2> QED BY <1>1, <2>1, ReadersStep, ZenonT(40) DEF versionVars
<1> QED BY <1>2, <1>3, <1>4, Zenon

\* The owner goes on: StopService, JoinWorkers, RequestTerminalDetach, JoinCoordinator.
LEMMA OwnerMoves ==
    ASSUME TypeOK, InductiveInvariant,
           StopService \/ JoinWorkers \/ RequestTerminalDetach \/ JoinCoordinator
    PROVE  (TypeOK /\ InductiveInvariant)'
<1> USE DEF InductiveInvariant
<1>1. UNCHANGED <<pubVars, queueVars, runVars, sealVars, callVars>>
  BY DEF StopService, JoinWorkers, RequestTerminalDetach, JoinCoordinator
<1>2. OwnerType' /\ owner' # "done"
  BY TypeGroups, Zenon DEF OwnerType, StopService, JoinWorkers,
     RequestTerminalDetach, JoinCoordinator
<1>3. TypeOK' BY <1>1, <1>2, TypeGroups, TypeFrames, ZenonT(40)
<1>4. CallInv' BY <1>1, CallFrame, Zenon DEF queueVars, sealVars, runVars
<1>5. QueueInv' BY <1>1, QueueFrame, Zenon DEF sealVars
<1>6. RunInv' BY <1>1, Zenon DEF RunInv, Published, pubVars, versionVars, runVars
<1>7. VersionInv' BY <1>1, Zenon DEF VersionInv, Published, Taken, pubVars,
                     versionVars, runVars, callVars
<1>8. AnswerInv' BY <1>1, Zenon DEF AnswerInv, TrueAnswer, pubVars, versionVars,
                    callVars
<1>9. OwnerInv'
  BY <1>1, <1>2, Zenon DEF OwnerInv, runVars, sealVars, StopService, JoinWorkers,
     RequestTerminalDetach, JoinCoordinator
<1> QED BY <1>3, <1>4, <1>5, <1>6, <1>7, <1>8, <1>9, ZenonT(40)

\* Nothing changes.
LEMMA StutteringStep ==
    ASSUME TypeOK, InductiveInvariant, UNCHANGED vars
    PROVE  (TypeOK /\ InductiveInvariant)'
<1> USE DEF InductiveInvariant
<1>1. UNCHANGED <<pubVars, queueVars, runVars, sealVars, ownerVars, callVars>> BY
                           Zenon DEF vars
<1>2. TypeOK' BY <1>1, TypeGroups, TypeFrames, Zenon
<1>3. CallInv' BY <1>1, CallFrame, Zenon DEF queueVars, sealVars, runVars
<1>4. QueueInv' BY <1>1, QueueFrame, Zenon DEF sealVars
<1>5. RunInv' BY <1>1, Zenon DEF RunInv, Published, pubVars, versionVars, runVars
<1>6. VersionInv' BY <1>1, Zenon DEF VersionInv, Published, Taken, pubVars,
                     versionVars, runVars, callVars
<1>7. AnswerInv' BY <1>1, Zenon DEF AnswerInv, TrueAnswer, pubVars, versionVars,
                    callVars
<1>8. OwnerInv' BY <1>1, Zenon DEF OwnerInv, runVars, sealVars, ownerVars
<1> QED BY <1>2, <1>3, <1>4, <1>5, <1>6, <1>7, <1>8, Zenon

-----------------------------------------------------------------------------
(* The theorems *)

\* The controller starts with an empty queue, nobody waiting and generation 1.
LEMMA InitInvariant == Init => TypeOK /\ InductiveInvariant
<1> SUFFICES ASSUME Init PROVE TypeOK /\ InductiveInvariant
  BY Zenon
<1> USE DEF Init, Versions!Init
<1>1. /\ inflight = Idle /\ inflight \in Inflight /\ ~Published /\ inflight.command = NoCommand
      /\ inflight.phase = "Completed"
  BY LimitsAssumption, SMTT(30) DEF Idle, Inflight, Phases, Published
<1>2. TypeOK
  <2>1. PubType
    <3>1. 1 \in 1 .. MaxGeneration /\ 0 \in 0 .. MaxGeneration BY LimitsAssumption,
                           SMTT(30)
    <3> QED BY <3>1, ZenonT(40) DEF PubType
  <2>2. QueueType BY EmptyList, Zenon DEF QueueType
  <2>3. RunType BY <1>1, ErrorIsResult, Zenon DEF RunType
  <2>4. SealType BY EmptyList, Zenon DEF SealType
  <2>5. OwnerType BY Zenon DEF OwnerType
  <2>6. CallType BY SMTT(30) DEF CallType
  <2> QED BY <2>1, <2>2, <2>3, <2>4, <2>5, <2>6, TypeGroups, ZenonT(40)
<1>3. CallInv
  BY <1>1, EmptyList, CommandsAssumption, ZenonT(40) DEF CallInv, OnePlace, Waits,
     Queued, Taken, Dropped, Sealers
<1>4. QueueInv BY EmptyList, LimitsAssumption, SMTT(30) DEF QueueInv
<1>5. RunInv BY <1>1, Zenon DEF RunInv
<1>6. VersionInv BY SMTT(30) DEF VersionInv
<1>7. AnswerInv BY Zenon DEF AnswerInv
<1>8. OwnerInv BY Zenon DEF OwnerInv
<1> QED BY <1>2, <1>3, <1>4, <1>5, <1>6, <1>7, <1>8, ZenonT(40) DEF InductiveInvariant

\* Every step keeps the inductive invariant.
LEMMA InvariantStep == TypeOK /\ InductiveInvariant /\ [Next]_vars => (TypeOK /\ InductiveInvariant)'
<1> SUFFICES ASSUME TypeOK, InductiveInvariant, [Next]_vars PROVE (TypeOK /\ InductiveInvariant)'
  BY Zenon
<1>1. ASSUME NEW c \in Commands, SubmitRefused(c) \/ SubmitAccepted(c)
      PROVE  (TypeOK /\ InductiveInvariant)'
  BY <1>1, RefusedStep, AcceptedStep, Zenon
<1>2. CASE RunnerStep \/ PostcommitFailure
  <2>1. CASE \E from \in {"apply", "acquire", "build", "publish", "wait"},
                code \in {"ShuttingDown", "BuildFailed", "GenerationExhausted", "InternalError"} :
                ApplyFails(from, code)
    BY <2>1, ApplyFailsStep, Zenon
  <2>2. \/ TakeCommand \/ TerminalDetach \/ ReadCurrent \/ AcquireCredit \/ BuildSucceeds
        \/ Commit \/ RecordCommitted \/ Converged \/ LeaveToSuccessor \/ CompleteCommand
        \/ FinishRun
        \/ \E from \in {"apply", "acquire", "build", "publish", "wait"},
              code \in {"ShuttingDown", "BuildFailed", "GenerationExhausted", "InternalError"} :
              ApplyFails(from, code)
    BY <1>2, Zenon DEF RunnerStep, StopRequested, GenerationExhausted,
       AcquireRefused, BuildFails, CommitRefused, ReclaimerUnavailable,
       PostcommitFailure
  <2> QED BY <2>1, <2>2, TakeStep, MoveStep, PrepareStep, CommitStep,
             AfterCommitStep, CompleteStep, FinishStep, ZenonT(40)
<1>3. CASE CancelPending
  BY <1>3, SealQueueStep, Zenon DEF Sealers
<1>4. CASE OwnerStep \/ StopService
  BY <1>4, OwnerMoves, ReaderActions, SuccessorStep, Zenon DEF OwnerStep
<1>5. ASSUME NEW s \in Sealers, SealerStep(s) PROVE (TypeOK /\ InductiveInvariant)'
  BY <1>5, SealQuietStep, SealQueueStep, AnswerCancelledStep, Zenon DEF SealerStep
<1>6. CASE \/ \E w \in Workers : WorkerObserves(w) \/ WorkerLeaves(w)
           \/ ReclaimerConverges \/ ReclaimerReturnsCredit \/ ReclaimerFails
  BY <1>6, ReaderActions, Zenon
<1>7. CASE TornDown \/ UNCHANGED vars
  BY <1>7, StutteringStep, Zenon DEF TornDown
<1> QED BY <1>1, <1>2, <1>3, <1>4, <1>5, <1>6, <1>7, ZenonT(40) DEF Next

\* The inductive invariant holds in every reachable state.
THEOREM Invariance == Spec => [](TypeOK /\ InductiveInvariant)
<1>1. Init => TypeOK /\ InductiveInvariant BY InitInvariant, Zenon
<1>2. TypeOK /\ InductiveInvariant /\ [Next]_vars => (TypeOK /\ InductiveInvariant)'
  BY InvariantStep
<1> QED BY <1>1, <1>2, PTL DEF Spec

\* A caller is told the truth, once, whatever was stopping at the time: for any
\* number of callers, workers and generations.
THEOREM EveryAnswerIsTrue == Spec => []AnswersAreTrue
<1>1. TypeOK /\ InductiveInvariant => AnswersAreTrue
  <2> SUFFICES ASSUME TypeOK, InductiveInvariant, NEW c \in Commands
               PROVE  /\ Len(answers[c]) <= 1
                      /\ \A i \in DOMAIN answers[c] :
                             LET a == answers[c][i]
                             IN  IF a.code = "Ok"
                                 THEN /\ a.generation \in DOMAIN blocklist
                                      /\ blocklist[a.generation] = c
                                      /\ \A w \in Workers : view[w] = 0 \/ view[w] >= a.generation
                                 ELSE \A g \in 2 .. MaxGeneration : blocklist[g] # c
    BY Zenon DEF AnswersAreTrue
  <2>1. CASE answers[c] = <<>>
    <3>1. Len(<<>>) <= 1 /\ DOMAIN <<>> = {} OBVIOUS
    <3> QED BY <2>1, <3>1, Zenon
  <2>2. ASSUME NEW a \in Result, answers[c] = <<a>>, TrueAnswer(c, a)
        PROVE  IF a.code = "Ok"
               THEN /\ a.generation \in DOMAIN blocklist
                    /\ blocklist[a.generation] = c
                    /\ \A w \in Workers : view[w] = 0 \/ view[w] >= a.generation
               ELSE \A g \in 2 .. MaxGeneration : blocklist[g] # c
    <3>1. CASE a.code # "Ok" BY <2>2, <3>1, Zenon DEF TrueAnswer
    <3>2. CASE a.code = "Ok"
      <4>1. a.generation \in 2 .. converged /\ blocklist[a.generation] = c
        BY <2>2, <3>2, Zenon DEF TrueAnswer
      <4>2. /\ converged \in 1 .. MaxGeneration /\ DOMAIN blocklist = 2 .. MaxGeneration
            /\ view \in [Workers -> 0 .. MaxGeneration]
        BY Zenon DEF TypeOK
      <4>3. a.generation \in DOMAIN blocklist
        BY <4>1, <4>2, LimitsAssumption, SMTT(30)
      <4>4. ASSUME NEW w \in Workers PROVE view[w] = 0 \/ view[w] >= a.generation
        BY <4>1, <4>2, SMTT(30) DEF InductiveInvariant, VersionInv
      <4> QED BY <3>2, <4>1, <4>3, <4>4, Zenon
    <3> QED BY <3>1, <3>2, Zenon
  <2>3. ASSUME NEW a \in Result, answers[c] = <<a>>, TrueAnswer(c, a)
        PROVE  /\ Len(answers[c]) <= 1 /\ DOMAIN answers[c] = {1} /\ answers[c][1] = a
    BY <2>3
  <2> QED BY <2>1, <2>2, <2>3, ZenonT(40) DEF InductiveInvariant, AnswerInv
<1> QED BY <1>1, Invariance, PTL

\* A teardown that is over leaves no caller of submit_replace waiting.
THEOREM NobodyIsForgotten == Spec => []TornDownMeansAnswered
<1>1. TypeOK /\ InductiveInvariant => TornDownMeansAnswered
  <2> SUFFICES ASSUME TypeOK, InductiveInvariant, owner = "done", NEW c \in called,
                      answers[c] = <<>>
               PROVE  FALSE
    BY Zenon DEF TornDownMeansAnswered
  <2>1. c \in Commands BY Zenon DEF TypeOK
  <2>2. Waits(c) BY <2>1, Zenon DEF InductiveInvariant, CallInv
  <2>3. inflight = Idle /\ sealing["A"] = "done" /\ sealing["owner"] = "done"
    BY Zenon DEF InductiveInvariant, OwnerInv
  <2>4. pending = <<>> /\ \A s \in Sealers : cancelled[s] = <<>>
    BY <2>3, Zenon DEF InductiveInvariant, QueueInv, Sealers
  <2> QED BY <2>1, <2>2, <2>3, <2>4, EmptyList, CommandsAssumption, Zenon DEF Waits,
             Queued, Taken, Dropped, Idle
<1> QED BY <1>1, Invariance, PTL

\* Every step hands the credit on with the record or the build it belongs to.
LEMMA CreditStep ==
    ASSUME TypeOK, CreditHasOneHolder, [Next]_vars
    PROVE  CreditHasOneHolder'
<1> USE DEF CreditHasOneHolder, pubVars, creditVars, runVars
<1>0. credit_held \in BOOLEAN /\ retired_pending \in BOOLEAN BY Zenon DEF TypeOK
<1>1. CASE UNCHANGED <<creditVars, runner>> BY <1>1, Zenon
<1>2. CASE TakeCommand \/ TerminalDetach \/ ReadCurrent \/ BuildSucceeds \/ RecordCommitted
           \/ Converged \/ LeaveToSuccessor \/ CompleteCommand \/ FinishRun
  <2>1. /\ UNCHANGED creditVars
        /\ \/ runner = "build" /\ runner' = "publish"
           \/ /\ runner \in {"idle", "apply", "published", "wait", "applied", "finish"}
              /\ runner' \in {"apply", "finish", "acquire", "wait", "applied", "idle", "stopped"}
    BY <1>2, Zenon DEF TakeCommand, TerminalDetach, ReadCurrent, BuildSucceeds, RecordCommitted,
       Converged, LeaveToSuccessor, CompleteCommand, FinishRun
  <2>2. runner \in {"build", "publish"} <=> runner' \in {"build", "publish"} BY <2>1
  <2> QED BY <2>1, <2>2, Zenon
<1>3. CASE AcquireCredit BY <1>0, <1>3, Zenon DEF AcquireCredit
<1>4. CASE Commit BY <1>0, <1>4, Zenon DEF Commit
<1>5. ASSUME NEW from \in {"apply", "acquire", "build", "publish", "wait"}, NEW code,
             ApplyFails(from, code)
      PROVE  CreditHasOneHolder'
  BY <1>0, <1>5, Zenon DEF ApplyFails
<1>6. CASE ReclaimerReturnsCredit \/ EmergencyReclaim
  BY <1>6, Zenon DEF ReclaimerReturnsCredit, EmergencyReclaim
<1>7. CASE RunnerStep \/ PostcommitFailure
  <2>1. \/ TakeCommand \/ TerminalDetach \/ ReadCurrent \/ BuildSucceeds \/ RecordCommitted
        \/ Converged \/ LeaveToSuccessor \/ CompleteCommand \/ FinishRun
        \/ AcquireCredit \/ Commit
        \/ \E from \in {"apply", "acquire", "build", "publish", "wait"},
              code \in {"ShuttingDown", "BuildFailed", "GenerationExhausted", "InternalError"} :
              ApplyFails(from, code)
    BY <1>7, Zenon DEF RunnerStep, StopRequested, GenerationExhausted, AcquireRefused,
       BuildFails, CommitRefused, ReclaimerUnavailable, PostcommitFailure
  <2> HIDE DEF CreditHasOneHolder
  <2> QED BY <1>2, <1>3, <1>4, <1>5, <2>1, Zenon
<1>8. CASE \/ \E c \in Commands : SubmitRefused(c) \/ SubmitAccepted(c)
           \/ CancelPending \/ StopService \/ \E s \in Sealers : SealerStep(s)
  BY <1>1, <1>8, Zenon DEF SubmitRefused, SubmitAccepted, CancelPending, StopService, SealerStep,
     SealBegin, SealPublication, SealQueue, AnswerCancelled, Sealed
<1>9. CASE OwnerStep
  BY <1>1, <1>6, <1>9, Zenon DEF OwnerStep, JoinWorkers, RequestTerminalDetach, JoinCoordinator,
     CompleteBySuccessor
<1>10. CASE \/ \E w \in Workers : WorkerObserves(w) \/ WorkerLeaves(w)
            \/ ReclaimerConverges \/ ReclaimerFails \/ TornDown \/ UNCHANGED vars
  BY <1>1, <1>10, Zenon DEF WorkerObserves, WorkerLeaves, ReclaimerConverges, ReclaimerFails,
     TornDown, vars
<1> HIDE DEF CreditHasOneHolder
<1> QED BY <1>6, <1>7, <1>8, <1>9, <1>10, ZenonT(40) DEF Next

\* The retirement credit is with A's build or with the retired snapshot, never with
\* both and never with nobody, whichever way an update ends and whoever reclaims.
THEOREM CreditIsNeverLost == Spec => []CreditHasOneHolder
<1>1. Init => CreditHasOneHolder BY Zenon DEF Init, CreditHasOneHolder
<1>2. TypeOK /\ CreditHasOneHolder /\ [Next]_vars => CreditHasOneHolder' BY CreditStep
<1> QED BY <1>1, <1>2, Invariance, PTL DEF Spec
-----------------------------------------------------------------------------
(* The bytes of a list of commands *)

LOCAL INSTANCE WellFoundedInduction

\* A set with 0 in it that has every successor has every number.
LEMMA SetInduction ==
    ASSUME NEW S, 0 \in S, \A n \in Nat : n \in S => n + 1 \in S
    PROVE  Nat \subseteq S
<1> SUFFICES ASSUME NEW m \in Nat, m \notin S PROVE FALSE
  OBVIOUS
<1>1. \A x, y \in Nat : y < x => <<y, x>> \in OpToRel(<, Nat)
  <2>1. ASSUME NEW x \in Nat, NEW y \in Nat, y < x
        PROVE  <<y, x>> \in {ss \in Nat \X Nat : ss[1] < ss[2]}
    BY <2>1
  <2> QED BY <2>1 DEF OpToRel
<1>2. PICK R : IsWellFoundedOn(R, Nat) /\ \A x, y \in Nat : y < x => <<y, x>> \in R
  BY <1>1, NatLessThanWellFounded, Zenon
<1>3. Nat \ S # {} /\ Nat \ S \in SUBSET Nat OBVIOUS
<1>4. PICK x \in Nat \ S : \A y \in Nat \ S : ~(<<y, x>> \in R) BY <1>2, <1>3,
                           WFMin, Zenon
<1>5. x # 0 BY <1>4
<1>6. x - 1 \in Nat /\ x - 1 < x /\ (x - 1) + 1 = x BY <1>4, <1>5
<1>7. x - 1 \notin S BY <1>4, <1>6, Zenon
<1> QED BY <1>2, <1>4, <1>6, <1>7, Zenon

\* f solves the recursion of RawBytes
Rec(s, f) == f = [n \in 0 .. Len(s) |-> IF n = 0 THEN 0 ELSE f[n - 1] + Rules[s[n]].raw]
\* f adds up the sizes of the commands of s, one after the other
AddsUp(s, f) ==
    /\ f \in [0 .. Len(s) -> Nat] /\ f[0] = 0
    /\ \A n \in 1 .. Len(s) : f[n] = f[n - 1] + Rules[s[n]].raw

\* What a command counts is a number.
LEMMA RawIsNat == \A c \in Commands : Rules[c].raw \in Nat
<1> SUFFICES ASSUME NEW c \in Commands PROVE Rules[c].raw \in Nat
  BY Zenon
<1>1. Rules[c] \in RuleSet BY RulesAssumption
<1> QED BY <1>1 DEF RuleSet

\* Adding up always succeeds: RawBytes' recursion has a solution.
LEMMA SumExists ==
    ASSUME NEW s \in Seq(Commands)
    PROVE  \E f : AddsUp(s, f)
<1> DEFINE Upto(m, f) == /\ f \in [0 .. m -> Nat] /\ f[0] = 0
                         /\ \A n \in 1 .. m : f[n] = f[n - 1] + Rules[s[n]].raw
           Summed(m) == m <= Len(s) => \E f : Upto(m, f)
           S == {m \in Nat : Summed(m)}
<1>1. 0 \in S
  <2>1. Upto(0, [n \in 0 .. 0 |-> 0]) OBVIOUS
  <2> QED BY <2>1, Zenon
<1> HIDE DEF Upto, Summed
<1>2. ASSUME NEW m \in Nat, m \in S PROVE m + 1 \in S
  <2>0. m + 1 \in Nat OBVIOUS
  <2> SUFFICES Summed(m + 1)
    BY <2>0, Zenon
  <2> USE DEF Upto, Summed
  <2> HAVE m + 1 <= Len(s)
  <2>5. m <= Len(s) /\ m + 1 \in 1 .. Len(s) OBVIOUS
  <2>1. PICK f : Upto(m, f) BY <1>2, <2>5, Zenon
  <2>2. PICK r \in Nat : r = Rules[s[m + 1]].raw BY <2>5, RawIsNat
  <2> DEFINE g == [n \in 0 .. m + 1 |-> IF n = m + 1 THEN f[m] + r ELSE f[n]]
  <2>3. g \in [0 .. m + 1 -> Nat] /\ g[0] = 0 BY <2>1
  <2>4. ASSUME NEW n \in 1 .. m + 1 PROVE g[n] = g[n - 1] + Rules[s[n]].raw
    <3>1. CASE n = m + 1
      <4>1. n - 1 = m /\ m \in 0 .. m + 1 /\ m # m + 1 BY <3>1
      <4> QED BY <2>2, <3>1, <4>1
    <3>2. CASE n # m + 1
      <4>1. n \in 1 .. m /\ n - 1 \in 0 .. m + 1 /\ n - 1 # m + 1 BY <3>2
      <4> QED BY <2>1, <3>2, <4>1
    <3> QED BY <3>1, <3>2, Zenon
  <2> QED BY <2>3, <2>4, Zenon
<1>3. Nat \subseteq S
  <2> HIDE DEF S
  <2> QED BY <1>1, <1>2, SetInduction, Zenon
<1>4. Len(s) \in Nat /\ Len(s) <= Len(s) OBVIOUS
<1>5. \E f : Upto(Len(s), f) BY <1>3, <1>4, Zenon DEF Summed
<1> QED BY <1>5, Zenon DEF AddsUp, Upto

\* RawBytes is where adding up ends.
LEMMA RawBytesIs ==
    ASSUME NEW s \in Seq(Commands), NEW f, AddsUp(s, f)
    PROVE  RawBytes(s) = f[Len(s)] /\ RawBytes(s) \in Nat
<1> DEFINE sum == CHOOSE h : Rec(s, h)
<1>1. Rec(s, f) BY DEF AddsUp, Rec
<1>2. Rec(s, sum) BY <1>1, Zenon
<1> HIDE DEF sum
<1>3. \A n \in 0 .. Len(s) : sum[n] = IF n = 0 THEN 0 ELSE sum[n - 1] + Rules[s[n]].raw
  BY <1>2, Zenon DEF Rec
<1> DEFINE S == {m \in Nat : m <= Len(s) => sum[m] = f[m]}
<1>4. 0 \in S BY <1>3 DEF AddsUp
<1>5. ASSUME NEW m \in Nat, m \in S PROVE m + 1 \in S
  BY <1>3, <1>5 DEF AddsUp
<1>6. Nat \subseteq S
  <2> HIDE DEF S
  <2> QED BY <1>4, <1>5, SetInduction, Zenon
<1>7. sum[Len(s)] = f[Len(s)] /\ f[Len(s)] \in Nat BY <1>6 DEF AddsUp
<1>8. RawBytes(s) = sum[Len(s)] BY DEF RawBytes, Rec, sum
<1> QED BY <1>7, <1>8, Zenon

\* An empty queue holds nothing.
LEMMA RawBytesNone == RawBytes(<<>>) = 0
<1>1. AddsUp(<<>>, [n \in 0 .. 0 |-> 0]) BY DEF AddsUp
<1>2. <<>> \in Seq(Commands) /\ Len(<<>>) = 0 OBVIOUS
<1>3. RawBytes(<<>>) = [n \in 0 .. 0 |-> 0][Len(<<>>)] BY <1>1, <1>2, RawBytesIs,
                           Zenon
<1> QED BY <1>2, <1>3

\* push_back adds its command's size.
LEMMA RawBytesAppend ==
    ASSUME NEW s \in Seq(Commands), NEW c \in Commands
    PROVE  RawBytes(Append(s, c)) = RawBytes(s) + Rules[c].raw
<1>1. PICK f : AddsUp(Append(s, c), f)
  <2>1. Append(s, c) \in Seq(Commands) OBVIOUS
  <2> QED BY <2>1, SumExists, Zenon
<1> DEFINE g == [n \in 0 .. Len(s) |-> f[n]]
<1>2. AddsUp(s, g) BY <1>1 DEF AddsUp
<1>3. f[Len(s) + 1] = f[Len(s)] + Rules[c].raw BY <1>1, SMTT(30) DEF AddsUp
<1>4. Append(s, c) \in Seq(Commands) /\ Len(Append(s, c)) = Len(s) + 1 OBVIOUS
<1>5. RawBytes(Append(s, c)) = f[Len(s) + 1] 
  <2>1. RawBytes(Append(s, c)) = f[Len(Append(s, c))] BY <1>1, <1>4, RawBytesIs, Zenon
  <2> QED BY <1>4, <2>1, Zenon
<1>6. RawBytes(s) = g[Len(s)] BY <1>2, RawBytesIs, Zenon
<1> QED BY <1>3, <1>5, <1>6

\* pop_front takes its command's size away.
LEMMA RawBytesTail ==
    ASSUME NEW s \in Seq(Commands), s # <<>>
    PROVE  /\ RawBytes(s) \in Nat /\ Rules[Head(s)].raw \in 0 .. RawBytes(s)
           /\ RawBytes(Tail(s)) = RawBytes(s) - Rules[Head(s)].raw
<1>1. PICK f : AddsUp(Tail(s), f)
  <2>1. Tail(s) \in Seq(Commands) OBVIOUS
  <2> QED BY <2>1, SumExists, Zenon
<1>2. PICK r \in Nat : r = Rules[Head(s)].raw
  <2>1. Head(s) \in Commands OBVIOUS
  <2> QED BY <2>1, RawIsNat, Zenon
<1> DEFINE g == [n \in 0 .. Len(s) |-> IF n = 0 THEN 0 ELSE f[n - 1] + r]
<1>3. AddsUp(s, g)
  <2>1. /\ Len(s) \in Nat \ {0} /\ Len(Tail(s)) = Len(s) - 1 /\ Head(s) = s[1]
        /\ \A n \in 1 .. Len(s) - 1 : Tail(s)[n] = s[n + 1]
    OBVIOUS
  <2>2. /\ f \in [0 .. Len(s) - 1 -> Nat] /\ f[0] = 0
        /\ \A n \in 1 .. Len(s) - 1 : f[n] = f[n - 1] + Rules[s[n + 1]].raw
    BY <1>1, <2>1 DEF AddsUp
  <2>3. g \in [0 .. Len(s) -> Nat] /\ g[0] = 0 BY <2>1, <2>2
  <2>4. ASSUME NEW n \in 1 .. Len(s) PROVE g[n] = g[n - 1] + Rules[s[n]].raw
    <3>1. CASE n = 1 BY <1>2, <2>1, <2>2, <3>1
    <3>2. CASE n # 1
      <4>1. n - 1 \in 1 .. Len(s) - 1 /\ (n - 1) + 1 = n /\ n - 1 # 0 /\ n # 0 BY
                           <2>1, <3>2
      <4>2. f[n - 1] = f[n - 1 - 1] + Rules[s[n]].raw BY <2>2, <4>1
      <4>3. Rules[s[n]].raw \in Nat
        <5>1. s[n] \in Commands OBVIOUS
        <5> QED BY <5>1, RawIsNat, Zenon
      <4>4. f[n - 1] \in Nat /\ f[n - 1 - 1] \in Nat
        <5>1. n - 1 \in 0 .. Len(s) - 1 /\ n - 1 - 1 \in 0 .. Len(s) - 1 BY <2>1,
                           <3>2, SMTT(30)
        <5> HIDE DEF g
        <5> QED BY <2>2, <5>1, Zenon
      <4>5. g[n] = f[n - 1] + r /\ g[n - 1] = f[n - 1 - 1] + r BY <2>1, <4>1
      <4> HIDE DEF g
      <4> QED BY <4>2, <4>3, <4>4, <4>5, SMTT(30)
    <3> QED BY <3>1, <3>2
  <2> QED BY <2>3, <2>4, Zenon DEF AddsUp
<1>4. /\ Tail(s) \in Seq(Commands) /\ Len(Tail(s)) = Len(s) - 1 /\ Len(s) \in Nat \ {0}
  OBVIOUS
<1>5. RawBytes(Tail(s)) = f[Len(s) - 1] /\ RawBytes(Tail(s)) \in Nat 
  <2>1. RawBytes(Tail(s)) = f[Len(Tail(s))] /\ RawBytes(Tail(s)) \in Nat
    BY <1>1, <1>4, RawBytesIs, Zenon
  <2> QED BY <1>4, <2>1, Zenon
<1>6. RawBytes(s) = g[Len(s)]
  <2> HIDE DEF g
  <2> QED BY <1>3, RawBytesIs, Zenon
<1> QED BY <1>2, <1>4, <1>5, <1>6, SMTT(30)

\* Accepting, taking and dropping commands keep the counter at the sum of their sizes.
LEMMA BytesStep ==
    ASSUME TypeOK, TypeOK', queued_rule_bytes = RawBytes(pending), [Next]_vars
    PROVE  queued_rule_bytes' = RawBytes(pending')
<1>1. pending \in Seq(Commands) BY Zenon DEF TypeOK
<1>2. ASSUME NEW c \in Commands, SubmitAccepted(c) PROVE queued_rule_bytes' = RawBytes(pending')
  BY <1>1, <1>2, RawBytesAppend, Zenon DEF SubmitAccepted
<1>3. CASE TakeCommand
  <2>1. pending # <<>> /\ pending' = Tail(pending)
        /\ queued_rule_bytes' =
               queued_rule_bytes - LeastOf(queued_rule_bytes, Rules[Head(pending)].raw)
    BY <1>3, Zenon DEF TakeCommand
  <2>2. /\ RawBytes(pending) \in Nat /\ Rules[Head(pending)].raw \in 0 .. RawBytes(pending)
        /\ RawBytes(Tail(pending)) = RawBytes(pending) - Rules[Head(pending)].raw
    BY <1>1, <2>1, RawBytesTail, Zenon
  <2>3. LeastOf(RawBytes(pending), Rules[Head(pending)].raw) = Rules[Head(pending)].raw
    BY <2>2 DEF LeastOf
  <2> QED BY <2>1, <2>2, <2>3, Zenon
<1>4. CASE pending' = <<>> /\ queued_rule_bytes' = 0
  BY <1>4, RawBytesNone, Zenon
<1>5. CASE UNCHANGED queueVars
  BY <1>5, Zenon DEF queueVars
<1>6. \/ \E c \in Commands : SubmitAccepted(c)
      \/ TakeCommand
      \/ pending' = <<>> /\ queued_rule_bytes' = 0
      \/ UNCHANGED queueVars
  <2>1. CASE \E c \in Commands : SubmitRefused(c) \/ SubmitAccepted(c)
    BY <2>1, Zenon DEF SubmitRefused
  <2>2. CASE RunnerStep \/ PostcommitFailure
    BY <2>2, Zenon DEF RunnerStep, TerminalDetach, StopRequested,
       GenerationExhausted, ReadCurrent, AcquireRefused, AcquireCredit, BuildFails,
       BuildSucceeds, CommitRefused, Commit, RecordCommitted, Converged,
       ReclaimerUnavailable, PostcommitFailure, LeaveToSuccessor, CompleteCommand,
       FinishRun, ApplyFails
  <2>3. CASE CancelPending \/ OwnerStep \/ StopService
    BY <2>3, Zenon DEF CancelPending, OwnerStep, StopService, JoinWorkers,
       EmergencyReclaim, RequestTerminalDetach, JoinCoordinator, CompleteBySuccessor
  <2>4. CASE \E s \in Sealers : SealerStep(s)
    BY <2>4, Zenon DEF SealerStep, SealBegin, SealPublication, SealQueue,
       AnswerCancelled, Sealed
  <2>5. CASE \E w \in Workers : WorkerObserves(w) \/ WorkerLeaves(w)
    BY <2>5, Zenon DEF WorkerObserves, WorkerLeaves
  <2>6. CASE ReclaimerConverges \/ ReclaimerReturnsCredit \/ ReclaimerFails
    BY <2>6, Zenon DEF ReclaimerConverges, ReclaimerReturnsCredit, ReclaimerFails
  <2>7. CASE TornDown \/ UNCHANGED vars
    BY <2>7 DEF TornDown, vars, queueVars
  <2> QED BY <2>1, <2>2, <2>3, <2>4, <2>5, <2>6, <2>7, ZenonT(40) DEF Next
<1> QED BY <1>2, <1>3, <1>4, <1>5, <1>6, ZenonT(40)

\* The byte counter of the queue is always the sum of the sizes of the commands
\* in it, however they are submitted, taken and cancelled, and neither it nor
\* the length of the queue ever passes its limit.
THEOREM QueueIsAccounted == Spec => []QueueAccounting
<1>1. Init => queued_rule_bytes = RawBytes(pending)
  BY RawBytesNone, Zenon DEF Init
<1>2. TypeOK /\ TypeOK' /\ queued_rule_bytes = RawBytes(pending) /\ [Next]_vars
      => (queued_rule_bytes = RawBytes(pending))'
  BY BytesStep
<1>3. TypeOK /\ InductiveInvariant /\ queued_rule_bytes = RawBytes(pending) => QueueAccounting
  BY Zenon DEF InductiveInvariant, QueueInv, QueueAccounting
<1> QED BY <1>1, <1>2, <1>3, Invariance, PTL DEF Spec
=============================================================================
