--------------------------- MODULE Replies_proofs ---------------------------
(***************************************************************************)
(* Proofs about how answers get to the handlers.                           *)
(***************************************************************************)
EXTENDS Replies, FiniteSetTheorems, SequenceTheorems, TLAPS

(***************************************************************************)
(* What is in the cells, in the tasks and in the handler.                  *)
(***************************************************************************)

NameSet == Range(Directory) \cup {"none"}
Errnos == {"none", "ENOENT", "EIO", "ENOSYS", "NO_XATTR", "ERANGE", "UNSUCCESSFUL"}
Places ==
  {"idle", "asked", "listed", "listedPlus", "delivered", "probed", "fetched"}
StatusSet == [ok : BOOLEAN, errno : Errnos, name : NameSet, length : Nat]
HintSet == [given : BOOLEAN, size : Nat]
CellSet == [status : StatusSet, entries : Seq(Range(Directory)), hint : HintSet]
WriteSet == [cells : CellSet, grants : SUBSET NameSet]
TaskSet == [number : Nat, writes : Seq(WriteSet) \ {<< >>}]
HandlerSet ==
  [at : Places, kind : {"none", "lookup", "list", "security"}, asked : NameSet, answer : StatusSet, whole : BOOLEAN,
   buffer : Nat, needed : Nat, copied : Nat, changed : BOOLEAN]

\* Tasks write to replies that were captured, and one task to each.
Kinds ==
  /\ reply \in [number : Nat, cells : CellSet]
  /\ tasks \subseteq TaskSet
  /\ handler \in HandlerSet
  /\ descriptor \in Nat /\ offset \in Nat
  /\ \A t \in tasks : t.number <= reply.number
  /\ \A t, u \in tasks : t.number = u.number => t = u

LEMMA EmptyInCells == EmptyCells \in CellSet /\ Unanswered \in StatusSet
<1>1. Unanswered \in StatusSet
  BY DEF Unanswered, Err, StatusSet, NameSet, Errnos
<1>2. NoHint \in HintSet
  BY DEF NoHint, HintSet
<1> QED
  BY <1>1, <1>2 DEF EmptyCells, CellSet

LEMMA WritesTyped ==
  /\ \A status \in StatusSet : Status(status) \in WriteSet
  /\ \A name \in Children : Grant(name) \in WriteSet
  /\ \A n \in Nat : Size(n) \in WriteSet
  /\ \A name \in Range(Directory), plus \in BOOLEAN : Entry(name, plus) \in WriteSet
<1>1. ASSUME NEW status \in StatusSet PROVE Status(status) \in WriteSet
  BY EmptyInCells DEF Status, WriteSet, CellSet
<1>2. ASSUME NEW name \in Children PROVE Grant(name) \in WriteSet
  <2>1. Found(name) \in StatusSet /\ name \in NameSet
    BY DEF Found, StatusSet, NameSet, Children, Errnos
  <2>2. Status(Found(name)) \in WriteSet
    BY <1>1, <2>1
  <2> QED
    BY <2>1, <2>2 DEF Grant, WriteSet
<1>3. ASSUME NEW n \in Nat PROVE Size(n) \in WriteSet
  BY EmptyInCells DEF Size, WriteSet, CellSet, HintSet
<1>4. ASSUME NEW name \in Range(Directory), NEW plus \in BOOLEAN
      PROVE  Entry(name, plus) \in WriteSet
  <2>1. <<name>> \in Seq(Range(Directory))
    OBVIOUS
  <2>2. [EmptyCells EXCEPT !.entries = <<name>>] \in CellSet
    BY <2>1, EmptyInCells DEF CellSet
  <2>3. (IF plus THEN {name} \ Dots ELSE {}) \in SUBSET NameSet
    BY DEF NameSet
  <2> QED
    BY <2>2, <2>3 DEF Entry, WriteSet
<1> QED
  BY <1>1, <1>2, <1>3, <1>4

LEMMA WrittenTyped ==
  ASSUME NEW old \in CellSet, NEW new \in CellSet
  PROVE  Written(old, new) \in CellSet
<1>1. old.entries \o new.entries \in Seq(Range(Directory))
  BY ConcatProperties DEF CellSet
<1> QED
  BY <1>1 DEF Written, CellSet

LEMMA WrittenEntries ==
  ASSUME NEW old, NEW new
  PROVE  Written(old, new).entries = old.entries \o new.entries
BY DEF Written

LEMMA CaptureTyped ==
  ASSUME NEW old, old.number \in Nat
  PROVE  /\ Capture(old) \in [number : Nat, cells : CellSet]
         /\ Capture(old).number = old.number + 1
         /\ Capture(old).cells = EmptyCells
BY EmptyInCells DEF Capture

LEMMA SeenTyped ==
  ASSUME NEW status \in StatusSet
  PROVE  Seen(status) \in StatusSet
BY DEF Seen, Err, StatusSet, NameSet, Errnos

\* Every answer is a sequence of writes.
LEMMA AnswersTyped ==
  ASSUME NEW status \in StatusSet
  PROVE  <<Status(status)>> \in Seq(WriteSet)
BY WritesTyped

LEMMA StatusesTyped ==
  /\ \A errno \in Errnos : Err(errno) \in StatusSet
  /\ \A n \in Nat : Holds(n) \in StatusSet
  /\ Listed \in StatusSet
BY DEF Err, Holds, Listed, StatusSet, NameSet, Errnos

LEMMA NotThereTyped == NotThere \subseteq Seq(WriteSet)
BY StatusesTyped, AnswersTyped DEF NotThere, Errnos

LEMMA LookupAnswersTyped ==
  ASSUME NEW name \in Children
  PROVE  LookupAnswers(name) \subseteq Seq(WriteSet)
<1>1. <<Grant(name)>> \in Seq(WriteSet)
  BY WritesTyped
<1>2. <<Status(Err("ENOENT"))>> \in Seq(WriteSet)
  BY StatusesTyped, AnswersTyped DEF Errnos
<1> QED
  BY <1>1, <1>2 DEF LookupAnswers

LEMMA FunctionsAreSequences ==
  ASSUME NEW S, NEW n \in Nat, NEW f \in [1 .. n -> S]
  PROVE  f \in Seq(S)
BY SeqDef

LEMMA EntriesTyped ==
  ASSUME NEW from \in Nat, NEW n \in Nat, n <= Len(Directory), NEW plus \in BOOLEAN
  PROVE  EntriesUpTo(from, n, plus) \in Seq(WriteSet)
<1>1. Len(Directory) \in Nat /\ DOMAIN Directory = 1 .. Len(Directory)
  BY DirectoryAssumption
<1>2. ASSUME NEW k \in 1 .. n - from PROVE Entry(Directory[from + k], plus) \in WriteSet
  <2>1. from + k \in DOMAIN Directory
    BY <1>1
  <2>2. Directory[from + k] \in Range(Directory)
    BY <2>1 DEF Range
  <2> QED
    BY <2>2, WritesTyped
<1>3. CASE n >= from
  <2>1. n - from \in Nat
    BY <1>3
  <2>2. EntriesUpTo(from, n, plus) \in [1 .. n - from -> WriteSet]
    BY <1>2 DEF EntriesUpTo
  <2> QED
    BY <2>1, <2>2, FunctionsAreSequences
<1>4. CASE n < from
  <2>1. 1 .. n - from = {}
    BY <1>4
  <2>2. EntriesUpTo(from, n, plus) = << >>
    BY <2>1 DEF EntriesUpTo
  <2> QED
    BY <2>2, EmptySeq
<1> QED
  BY <1>3, <1>4

LEMMA ListAnswersTyped ==
  ASSUME NEW from \in Nat, NEW plus \in BOOLEAN
  PROVE  ListAnswers(from, plus) \subseteq Seq(WriteSet)
<1>1. <<Status(Listed)>> \in Seq(WriteSet) /\ <<Status(Err("EIO"))>> \in Seq(WriteSet)
  BY StatusesTyped, AnswersTyped DEF Errnos
<1>2. Len(Directory) \in Nat
  BY DirectoryAssumption
<1>3. EntriesUpTo(from, Len(Directory), plus) \o <<Status(Listed)>> \in Seq(WriteSet)
  <2>1. EntriesUpTo(from, Len(Directory), plus) \in Seq(WriteSet)
    BY <1>2, EntriesTyped
  <2> QED
    BY <1>1, <2>1, ConcatProperties
<1>4. ASSUME NEW n \in from .. Len(Directory)
      PROVE  /\ EntriesUpTo(from, n, plus) \in Seq(WriteSet)
             /\ EntriesUpTo(from, n, plus) \o <<Status(Err("EIO"))>> \in Seq(WriteSet)
  <2>1. n \in Nat /\ n <= Len(Directory)
    BY <1>2
  <2>2. EntriesUpTo(from, n, plus) \in Seq(WriteSet)
    BY <2>1, EntriesTyped
  <2> QED
    BY <1>1, <2>2, ConcatProperties
<1> QED
  BY <1>3, <1>4 DEF ListAnswers

LEMMA XattrAnswersTyped ==
  ASSUME NEW size, descriptor \in Nat
  PROVE  XattrAnswers(size) \subseteq Seq(WriteSet)
<1>1. /\ <<Status(Err("NO_XATTR"))>> \in Seq(WriteSet)
      /\ <<Status(Err("EIO"))>> \in Seq(WriteSet)
      /\ <<Status(Err("ERANGE"))>> \in Seq(WriteSet)
      /\ <<Status(Holds(descriptor))>> \in Seq(WriteSet)
  BY StatusesTyped, AnswersTyped DEF Errnos
<1>2. <<Size(descriptor), Status(Holds(0))>> \in Seq(WriteSet)
  BY StatusesTyped, WritesTyped
<1>3. << >> \in Seq(WriteSet)
  BY EmptySeq
<1> QED
  BY <1>1, <1>2, <1>3 DEF XattrAnswers

(***************************************************************************)
(* Every step keeps the kinds.                                             *)
(***************************************************************************)

LEMMA CallsKinds ==
  ASSUME Kinds, NEW answers, answers \subseteq Seq(WriteSet), Calls(answers)
  PROVE  /\ reply' \in [number : Nat, cells : CellSet]
         /\ reply'.number = reply.number + 1 /\ reply'.cells = EmptyCells
         /\ tasks' \subseteq TaskSet
         /\ \A t \in tasks' : t.number <= reply'.number
         /\ \A t, u \in tasks' : t.number = u.number => t = u
         /\ \A t \in tasks' : t.number = reply'.number => t.writes \in answers
<1>1. /\ reply' \in [number : Nat, cells : CellSet]
      /\ reply'.number = reply.number + 1 /\ reply'.cells = EmptyCells
  BY CaptureTyped DEF Calls, Kinds
<1>2. PICK answer \in answers :
        tasks' = tasks \cup (IF answer = << >> THEN {}
                             ELSE {[number |-> reply'.number, writes |-> answer]})
  BY DEF Calls
<1>3. CASE answer = << >>
  BY <1>1, <1>2, <1>3 DEF Kinds, TaskSet
<1>4. CASE answer # << >>
  <2> DEFINE u == [number |-> reply'.number, writes |-> answer]
  <2>1. tasks' = tasks \cup {u}
    BY <1>2, <1>4
  <2>2. u \in TaskSet /\ u.number = reply'.number /\ u.writes = answer
    BY <1>1, <1>4 DEF TaskSet
  <2>3. \A t \in tasks : t.number < reply'.number
    BY <1>1 DEF Kinds, TaskSet
  <2> HIDE DEF u
  <2>4. tasks \subseteq TaskSet /\ \A t, v \in tasks : t.number = v.number => t = v
    BY DEF Kinds
  <2>5. \A t \in tasks : t.number <= reply'.number /\ t.number # reply'.number
    BY <1>1, <2>3, <2>4 DEF TaskSet
  <2>6. \A t, v \in tasks' : t.number = v.number => t = v
    BY <2>1, <2>2, <2>4, <2>5
  <2>7. \A t \in tasks' : t.number <= reply'.number
    BY <1>1, <2>1, <2>2, <2>5
  <2> QED
    BY <1>1, <2>1, <2>2, <2>4, <2>5, <2>6, <2>7
<1> QED
  BY <1>3, <1>4

LEMMA FirstAndRest ==
  ASSUME NEW S, NEW s \in Seq(S), s # << >>
  PROVE  /\ Len(s) \in Nat \ {0} /\ Head(s) = s[1] /\ Head(s) \in S
         /\ Tail(s) \in Seq(S) /\ Len(Tail(s)) = Len(s) - 1
         /\ DOMAIN Tail(s) = 1 .. Len(s) - 1
         /\ \A k \in 1 .. Len(s) - 1 : Tail(s)[k] = s[k + 1]
         /\ Len(s) # 1 => Tail(s) # << >>
<1>1. Head(s) \in S /\ Tail(s) \in Seq(S) /\ Len(Tail(s)) = Len(s) - 1
      /\ \A k \in 1 .. Len(Tail(s)) : Tail(s)[k] = s[k + 1]
  BY HeadTailProperties
<1>2. Len(s) \in Nat \ {0} /\ Head(s) = s[1]
  OBVIOUS
<1> DEFINE rest == Tail(s)
<1>3. rest \in Seq(S) /\ Len(rest) = Len(s) - 1
  BY <1>1
<1> HIDE DEF rest
<1>4. DOMAIN rest = 1 .. Len(rest) /\ (Len(rest) # 0 => rest # << >>)
  BY <1>3
<1> QED
  BY <1>1, <1>2, <1>3, <1>4 DEF rest

LEMMA TaskGoesOn ==
  ASSUME NEW t \in TaskSet, NEW rest
  PROVE  /\ [t EXCEPT !.writes = rest] = [number |-> t.number, writes |-> rest]
         /\ [t EXCEPT !.writes = rest].number = t.number
         /\ [t EXCEPT !.writes = rest].writes = rest
BY DEF TaskSet

LEMMA AnswerKinds ==
  ASSUME Kinds, NEW t \in tasks, Answer(t)
  PROVE  /\ Kinds'
         /\ reply'.number = reply.number
         /\ t.number # reply.number => reply' = reply
         /\ t.number = reply.number => reply'.cells = Written(reply.cells, t.writes[1].cells)
         /\ t.writes[1] \in WriteSet
         /\ \A u \in tasks' :
              \/ u \in tasks /\ u # t
              \/ /\ u.number = t.number
                 /\ DOMAIN u.writes = 1 .. Len(t.writes) - 1
                 /\ \A k \in DOMAIN u.writes : u.writes[k] = t.writes[k + 1]
<1> DEFINE w == Head(t.writes)
           u == [t EXCEPT !.writes = Tail(@)]
<1>1. t \in TaskSet /\ t.writes \in Seq(WriteSet) /\ t.writes # << >>
  BY DEF Kinds, TaskSet
<1>2. w \in WriteSet /\ w = t.writes[1]
  BY <1>1, FirstAndRest
<1>3. /\ Tail(t.writes) \in Seq(WriteSet)
      /\ DOMAIN Tail(t.writes) = 1 .. Len(t.writes) - 1
      /\ \A k \in 1 .. Len(t.writes) - 1 : Tail(t.writes)[k] = t.writes[k + 1]
      /\ Len(t.writes) # 1 => Tail(t.writes) # << >>
  BY <1>1, FirstAndRest
<1>4. reply' = IF t.number = reply.number
                 THEN [reply EXCEPT !.cells = Written(@, w.cells)] ELSE reply
  BY Zenon DEF Answer
<1>5. tasks' = (tasks \ {t}) \cup (IF Len(t.writes) = 1 THEN {} ELSE {u})
  BY Zenon DEF Answer
<1>6. UNCHANGED <<handler, descriptor, offset>>
  BY Zenon DEF Answer
<1>7. reply \in [number : Nat, cells : CellSet]
  BY DEF Kinds
<1>8. /\ reply' \in [number : Nat, cells : CellSet] /\ reply'.number = reply.number
      /\ t.number = reply.number => reply'.cells = Written(reply.cells, t.writes[1].cells)
  <2>1. Written(reply.cells, w.cells) \in CellSet
    BY <1>2, <1>7, WrittenTyped DEF WriteSet
  <2> QED
    BY <1>2, <1>4, <1>7, <2>1
<1>9. Len(t.writes) # 1 =>
        /\ u \in TaskSet /\ u.number = t.number
        /\ DOMAIN u.writes = 1 .. Len(t.writes) - 1
        /\ \A k \in DOMAIN u.writes : u.writes[k] = t.writes[k + 1]
  <2> DEFINE rest == Tail(t.writes)
  <2>1. /\ u.number = t.number /\ u.writes = rest
        /\ u = [number |-> t.number, writes |-> rest]
    BY <1>1, TaskGoesOn, Zenon
  <2>2. Len(t.writes) # 1 => u \in TaskSet
    BY <1>1, <1>3, <2>1 DEF TaskSet
  <2> HIDE DEF u
  <2> QED
    BY <1>3, <2>1, <2>2
<1> HIDE DEF u, w
<1>10. Kinds'
  BY <1>1, <1>5, <1>6, <1>8, <1>9 DEF Kinds
<1> QED
  BY <1>2, <1>4, <1>5, <1>8, <1>9, <1>10

LEMMA HandlerTyped ==
  ASSUME handler \in HandlerSet
  PROVE  /\ \A status \in StatusSet : Answers(status) \in HandlerSet
         /\ \A at \in Places : [handler EXCEPT !.at = at] \in HandlerSet
         /\ \A at \in Places, whole \in BOOLEAN :
              [handler EXCEPT !.at = at, !.whole = whole] \in HandlerSet
         /\ \A needed \in Nat :
              /\ [handler EXCEPT !.at = "fetched", !.needed = needed] \in HandlerSet
              /\ [Answers(Holds(needed)) EXCEPT !.needed = needed] \in HandlerSet
         /\ \A needed \in Nat, length \in Nat :
              [Answers(Holds(needed)) EXCEPT !.needed = needed,
                 !.copied = Copied(length, handler.buffer)] \in HandlerSet
         /\ [handler EXCEPT !.changed = TRUE] \in HandlerSet
<1>1. \A status \in StatusSet : Answers(status) \in HandlerSet
  BY DEF Answers, HandlerSet, Places
<1>2. \A needed \in Nat : Holds(needed) \in StatusSet
  BY StatusesTyped
<1>3. \A length \in Nat : Copied(length, handler.buffer) \in Nat
  BY DEF Copied
<1>4. \A needed \in Nat :
        /\ [handler EXCEPT !.at = "fetched", !.needed = needed] \in HandlerSet
        /\ [Answers(Holds(needed)) EXCEPT !.needed = needed] \in HandlerSet
  BY <1>1, <1>2 DEF HandlerSet, Places
<1>5. \A needed \in Nat, length \in Nat :
        [Answers(Holds(needed)) EXCEPT !.needed = needed,
           !.copied = Copied(length, handler.buffer)] \in HandlerSet
  BY <1>1, <1>2, <1>3 DEF HandlerSet, Places
<1> QED
  BY <1>1, <1>4, <1>5 DEF HandlerSet

LEMMA CopiesTyped ==
  ASSUME handler \in HandlerSet, NEW needed \in Nat, NEW length \in Nat, Copies(needed, length)
  PROVE  handler' \in HandlerSet
BY HandlerTyped, Zenon DEF Copies

LEMMA RequestTyped ==
  /\ \A kind \in {"none", "lookup", "list", "security"}, at \in Places : Request(kind, at) \in HandlerSet
  /\ \A name \in Children : [Request("lookup", "asked") EXCEPT !.asked = name] \in HandlerSet
  /\ \A buffer \in Buffers : [Request("security", "probed") EXCEPT !.buffer = buffer] \in HandlerSet
<1>1. Unanswered \in StatusSet
  BY EmptyInCells
<1>2. \A buffer \in Buffers : buffer \in Nat
  BY LengthsAssumption, WidthsAssumption
<1>3. \A name \in Children : name \in NameSet
  BY DEF Children, NameSet
<1>4. "none" \in NameSet
  BY DEF NameSet
<1> QED
  BY <1>1, <1>2, <1>3, <1>4 DEF Request, HandlerSet, Places

\* A step that asks the file system.
AsksStep ==
  \/ \E name \in Children : StartLookup(name)
  \/ StartList \/ StartFind \/ FallBack
  \/ \E buffer \in Buffers : StartSecurity(buffer)

\* A step that takes no answer and asks nothing.
QuietStep ==
  \/ Change \/ EndLookup \/ EndList \/ Close
  \/ \E n \in 0 .. Len(Directory) : Emit(n) \/ EmitPlus(n)
  \/ Fetched \/ Synthesize \/ SecurityFails

LEMMA AsksKinds ==
  ASSUME Kinds, AsksStep
  PROVE  Kinds'
<1>1. ASSUME NEW name \in Children, StartLookup(name) PROVE Kinds'
  <2>1. /\ handler' = [Request("lookup", "asked") EXCEPT !.asked = name]
        /\ UNCHANGED <<offset, descriptor>> /\ Calls(LookupAnswers(name))
    BY <1>1 DEF StartLookup, Starts
  <2> QED
    BY <2>1, CallsKinds, LookupAnswersTyped, RequestTyped DEF Kinds
<1>2. CASE StartList
  <2>1. /\ handler' = Request("list", "listed")
        /\ UNCHANGED <<offset, descriptor>> /\ Calls(ListAnswers(offset, FALSE))
    BY <1>2 DEF StartList, Starts
  <2>2. ListAnswers(offset, FALSE) \subseteq Seq(WriteSet)
    BY ListAnswersTyped DEF Kinds
  <2> QED
    BY <2>1, <2>2, CallsKinds, RequestTyped DEF Kinds, Places
<1>3. CASE StartFind
  <2> DEFINE answers == IF fs = "tokio" THEN NotThere ELSE ListAnswers(offset, TRUE) \cup NotThere
  <2>1. /\ handler' = Request("list", "listedPlus")
        /\ UNCHANGED <<offset, descriptor>> /\ Calls(answers)
    BY <1>3 DEF StartFind, Starts
  <2>2. answers \subseteq Seq(WriteSet)
    BY ListAnswersTyped, NotThereTyped DEF Kinds
  <2> HIDE DEF answers
  <2> QED
    BY <2>1, <2>2, CallsKinds, RequestTyped DEF Kinds, Places
<1>4. CASE FallBack
  <2>1. /\ handler' = [handler EXCEPT !.at = "listed"]
        /\ UNCHANGED <<offset, descriptor>> /\ Calls(ListAnswers(offset, FALSE))
    BY <1>4 DEF FallBack
  <2>2. ListAnswers(offset, FALSE) \subseteq Seq(WriteSet)
    BY ListAnswersTyped DEF Kinds
  <2>3. handler' \in HandlerSet
    BY <2>1, HandlerTyped DEF Kinds, Places
  <2> QED
    BY <2>1, <2>2, <2>3, CallsKinds DEF Kinds
<1>5. ASSUME NEW buffer \in Buffers, StartSecurity(buffer) PROVE Kinds'
  <2> DEFINE answers == IF fs = "tokio" THEN NotThere ELSE XattrAnswers(0)
  <2>1. /\ handler' = [Request("security", "probed") EXCEPT !.buffer = buffer]
        /\ UNCHANGED <<offset, descriptor>> /\ Calls(answers)
    BY <1>5 DEF StartSecurity, Starts
  <2>2. answers \subseteq Seq(WriteSet)
    BY XattrAnswersTyped, NotThereTyped DEF Kinds
  <2> HIDE DEF answers
  <2> QED
    BY <2>1, <2>2, CallsKinds, RequestTyped DEF Kinds
<1> QED
  BY <1>1, <1>2, <1>3, <1>4, <1>5 DEF AsksStep

LEMMA QuietKinds ==
  ASSUME Kinds, QuietStep
  PROVE  /\ Kinds'
         /\ UNCHANGED <<reply, tasks>>
<1>1. reply.cells.status \in StatusSet /\ reply.cells.entries \in Seq(Range(Directory))
  BY DEF Kinds, CellSet
<1>2. Seen(reply.cells.status) \in StatusSet /\ Answers(Seen(reply.cells.status)) \in HandlerSet
  BY <1>1, SeenTyped, HandlerTyped DEF Kinds
<1>3. Synthesized \in Nat /\ reply.cells.status.length \in Nat /\ handler.needed \in Nat
  BY <1>1, LengthsAssumption, WidthsAssumption DEF StatusSet, Kinds, HandlerSet
<1>4. CASE Change
  <2>1. descriptor' \in Nat
    BY <1>4, LengthsAssumption, WidthsAssumption DEF Change
  <2> QED
    BY <1>4, <2>1, HandlerTyped DEF Change, Kinds
<1>5. CASE EndLookup
  BY <1>2, <1>5 DEF EndLookup, Kinds
<1>6. CASE EndList
  BY <1>2, <1>6 DEF EndList, Kinds
<1>7. CASE Close
  BY <1>7, RequestTyped DEF Close, Kinds, Places
<1>8. ASSUME NEW n \in 0 .. Len(Directory), Emit(n) \/ EmitPlus(n)
      PROVE  Kinds' /\ UNCHANGED <<reply, tasks>>
  <2>1. /\ offset' = offset + n
        /\ handler' = [handler EXCEPT !.at = "delivered", !.whole = n = Len(reply.cells.entries)]
        /\ UNCHANGED <<reply, tasks, descriptor>>
    BY <1>8, Zenon DEF Emit, EmitPlus, Delivers, Advanced
  <2>2. offset' \in Nat
    BY <2>1 DEF Kinds
  <2>3. handler' \in HandlerSet
    BY <2>1, HandlerTyped DEF Kinds, Places
  <2> QED
    BY <2>1, <2>2, <2>3 DEF Kinds
<1>9. CASE Fetched
  BY <1>3, <1>9, HandlerTyped DEF Fetched, Copies, Kinds
<1>10. CASE Synthesize
  <2>1. Answers(Err("EIO")) \in HandlerSet
    BY StatusesTyped, HandlerTyped DEF Kinds, Errnos
  <2> DEFINE needed == IF handler.at = "probed" THEN Synthesized ELSE handler.needed
  <2>2. Copies(needed, Synthesized) \/ handler' = Answers(Err("EIO"))
    BY <1>10 DEF Synthesize
  <2>3. needed \in Nat
    BY <1>3
  <2> HIDE DEF needed
  <2>4. handler' \in HandlerSet
    BY <1>3, <2>1, <2>2, <2>3, CopiesTyped DEF Kinds
  <2> QED
    BY <1>10, <2>4 DEF Synthesize, Kinds
<1>11. CASE SecurityFails
  BY <1>2, <1>11 DEF SecurityFails, Kinds
<1> QED
  BY <1>4, <1>5, <1>6, <1>7, <1>8, <1>9, <1>10, <1>11 DEF QuietStep

\* The three ways from a probe.
LEMMA ProbedSteps ==
  ASSUME Kinds, Probed
  PROVE  \E needed \in Nat :
    /\ UNCHANGED <<offset, delivered, descriptor>>
    /\ handler.at = "probed"
    /\ \/ /\ handler' = [Answers(Holds(needed)) EXCEPT !.needed = needed]
          /\ UNCHANGED <<reply, tasks>>
       \/ /\ handler' = [handler EXCEPT !.at = "fetched", !.needed = needed]
          /\ Calls(XattrAnswers(handler.buffer))
       \/ /\ Copies(needed, reply.cells.status.length)
          /\ UNCHANGED <<reply, tasks>>
<1> DEFINE needed == ReportedLength(reply.cells.status.length, reply.cells.hint)
<1>1. reply.cells.status.length \in Nat /\ reply.cells.hint.size \in Nat
  BY DEF Kinds, CellSet, StatusSet, HintSet
<1>2. needed.ok => needed.value \in Nat
  BY <1>1 DEF ReportedLength, CheckedLen, Value, Invalid
<1>3. /\ needed.ok /\ handler.at = "probed"
      /\ \/ /\ handler' = [Answers(Holds(needed.value)) EXCEPT !.needed = needed.value]
            /\ UNCHANGED <<reply, tasks>>
         \/ /\ handler' = [handler EXCEPT !.at = "fetched", !.needed = needed.value]
            /\ Calls(XattrAnswers(handler.buffer))
         \/ /\ Copies(needed.value, reply.cells.status.length)
            /\ UNCHANGED <<reply, tasks>>
      /\ UNCHANGED <<offset, delivered, descriptor>>
  BY Zenon DEF Probed, Returned
<1> HIDE DEF needed
<1> QED
  BY <1>2, <1>3

LEMMA ProbedKinds ==
  ASSUME Kinds, Probed
  PROVE  Kinds'
<1>1. PICK needed \in Nat :
    /\ UNCHANGED <<offset, delivered, descriptor>>
    /\ handler.at = "probed"
    /\ \/ /\ handler' = [Answers(Holds(needed)) EXCEPT !.needed = needed]
          /\ UNCHANGED <<reply, tasks>>
       \/ /\ handler' = [handler EXCEPT !.at = "fetched", !.needed = needed]
          /\ Calls(XattrAnswers(handler.buffer))
       \/ /\ Copies(needed, reply.cells.status.length)
          /\ UNCHANGED <<reply, tasks>>
  BY ProbedSteps, Zenon
<1>2. reply.cells.status.length \in Nat
  BY DEF Kinds, CellSet, StatusSet
<1>3. handler' \in HandlerSet
  <2>1. CASE handler' = [Answers(Holds(needed)) EXCEPT !.needed = needed]
    BY <2>1, HandlerTyped DEF Kinds
  <2>2. CASE handler' = [handler EXCEPT !.at = "fetched", !.needed = needed]
    BY <2>2, HandlerTyped DEF Kinds
  <2>3. CASE Copies(needed, reply.cells.status.length)
    BY <1>2, <2>3, CopiesTyped DEF Kinds
  <2> QED
    BY <1>1, <2>1, <2>2, <2>3
<1>4. CASE UNCHANGED <<reply, tasks>>
  BY <1>1, <1>3, <1>4 DEF Kinds
<1>5. CASE Calls(XattrAnswers(handler.buffer))
  <2>1. XattrAnswers(handler.buffer) \subseteq Seq(WriteSet)
    BY XattrAnswersTyped DEF Kinds
  <2> QED
    BY <1>1, <1>3, <1>5, <2>1, CallsKinds DEF Kinds
<1> QED
  BY <1>1, <1>4, <1>5

LEMMA StepsAre ==
  ASSUME Next
  PROVE  (\E t \in tasks : Answer(t)) \/ AsksStep \/ QuietStep \/ Probed
BY Zenon DEF Next, AsksStep, QuietStep

LEMMA KindsStep ==
  ASSUME Kinds, [Next]_vars
  PROVE  Kinds'
<1>1. CASE UNCHANGED vars
  BY <1>1 DEF vars, Kinds
<1>2. CASE Next
  BY <1>2, StepsAre, AnswerKinds, AsksKinds, QuietKinds, ProbedKinds
<1> QED
  BY <1>1, <1>2

LEMMA InitKinds == Init => Kinds
<1> SUFFICES ASSUME Init PROVE Kinds
  OBVIOUS
<1>1. reply \in [number : Nat, cells : CellSet] /\ tasks = {}
  BY EmptyInCells DEF Init
<1>2. handler \in HandlerSet
  BY RequestTyped DEF Init, Places
<1>3. descriptor \in Nat /\ offset \in Nat
  BY LengthsAssumption, WidthsAssumption DEF Init
<1> QED
  BY <1>1, <1>2, <1>3 DEF Kinds

(***************************************************************************)
(* No more is copied than the buffer holds.                                *)
(***************************************************************************)

LEMMA CopiesFit ==
  ASSUME Kinds, NEW needed \in Nat, NEW length \in Nat, Copies(needed, length)
  PROVE  CopyFits'
<1>1. handler \in HandlerSet /\ handler.buffer \in Nat
  BY DEF Kinds, HandlerSet
<1>2. Copied(length, handler.buffer) <= handler.buffer
  BY <1>1 DEF Copied
<1>3. Answers(Holds(needed)) \in HandlerSet /\ Answers(Holds(needed)).buffer = handler.buffer
  BY <1>1, HandlerTyped, StatusesTyped DEF Answers, HandlerSet
<1>4. handler'.copied = Copied(length, handler.buffer) /\ handler'.buffer = handler.buffer
  BY <1>3 DEF Copies, HandlerSet
<1> QED
  BY <1>2, <1>4 DEF CopyFits

LEMMA CopyFitsStep ==
  ASSUME Kinds, CopyFits, [Next]_vars
  PROVE  CopyFits'
<1> USE DEF CopyFits
<1>1. handler \in HandlerSet /\ handler.buffer \in Nat /\ handler.needed \in Nat
      /\ reply.cells.status.length \in Nat /\ Synthesized \in Nat
  BY LengthsAssumption, WidthsAssumption DEF Kinds, HandlerSet, CellSet, StatusSet
<1>2. \A status \in StatusSet : handler' = Answers(status) => CopyFits'
  BY <1>1 DEF Answers, HandlerSet
<1>3. CASE UNCHANGED vars
  BY <1>3 DEF vars
<1>4. ASSUME NEW t \in tasks, Answer(t) PROVE CopyFits'
  <2>1. handler' = handler
    BY <1>4, Zenon DEF Answer
  <2> QED
    BY <2>1
<1>5. CASE AsksStep
  <2>2. \A buffer \in Buffers : buffer \in Nat
    BY LengthsAssumption, WidthsAssumption
  <2>3. ASSUME NEW name \in Children, StartLookup(name) PROVE CopyFits'
    BY <2>3 DEF StartLookup, Starts, Request
  <2>4. CASE StartList \/ StartFind
    <3>1. handler' = Request("list", "listed") \/ handler' = Request("list", "listedPlus")
      BY <2>4, Zenon DEF StartList, StartFind, Starts
    <3> QED
      BY <3>1 DEF Request
  <2>5. CASE FallBack
    BY <1>1, <2>5 DEF FallBack, HandlerSet
  <2>6. ASSUME NEW buffer \in Buffers, StartSecurity(buffer) PROVE CopyFits'
    BY <2>2, <2>6 DEF StartSecurity, Starts, Request
  <2> QED
    BY <1>5, <2>3, <2>4, <2>5, <2>6 DEF AsksStep
<1>6. CASE QuietStep
  <2>1. Seen(reply.cells.status) \in StatusSet
    BY SeenTyped DEF Kinds, CellSet
  <2>2. CASE Change
    BY <1>1, <2>2 DEF Change, HandlerSet
  <2>3. CASE EndLookup \/ EndList \/ SecurityFails
    BY <1>2, <2>1, <2>3 DEF EndLookup, EndList, SecurityFails
  <2>4. CASE Close
    BY <2>4 DEF Close, Request
  <2>5. ASSUME NEW n \in 0 .. Len(Directory), Emit(n) \/ EmitPlus(n) PROVE CopyFits'
    <3>1. handler' = [handler EXCEPT !.at = "delivered", !.whole = n = Len(reply.cells.entries)]
      BY <2>5, Zenon DEF Emit, EmitPlus, Delivers
    <3> QED
      BY <1>1, <3>1 DEF HandlerSet
  <2>6. CASE Fetched
    BY <1>1, <2>6, CopiesFit DEF Fetched
  <2>7. CASE Synthesize
    <3> DEFINE needed == IF handler.at = "probed" THEN Synthesized ELSE handler.needed
    <3>1. Copies(needed, Synthesized) \/ handler' = Answers(Err("EIO"))
      BY <2>7 DEF Synthesize
    <3>2. needed \in Nat /\ Err("EIO") \in StatusSet
      BY <1>1, StatusesTyped DEF Errnos
    <3> HIDE DEF needed
    <3>3. CASE Copies(needed, Synthesized)
      BY <1>1, <3>2, <3>3, CopiesFit
    <3>4. CASE handler' = Answers(Err("EIO"))
      BY <1>2, <3>2, <3>4
    <3> QED
      BY <3>1, <3>3, <3>4
  <2> QED
    BY <1>6, <2>2, <2>3, <2>4, <2>5, <2>6, <2>7 DEF QuietStep
<1>7. CASE Probed
  <2>1. PICK needed \in Nat :
    /\ UNCHANGED <<offset, delivered, descriptor>>
    /\ handler.at = "probed"
    /\ \/ /\ handler' = [Answers(Holds(needed)) EXCEPT !.needed = needed]
          /\ UNCHANGED <<reply, tasks>>
       \/ /\ handler' = [handler EXCEPT !.at = "fetched", !.needed = needed]
          /\ Calls(XattrAnswers(handler.buffer))
       \/ /\ Copies(needed, reply.cells.status.length)
          /\ UNCHANGED <<reply, tasks>>
    BY <1>7, ProbedSteps, Zenon
  <2>2. CASE handler' = [Answers(Holds(needed)) EXCEPT !.needed = needed]
    BY <1>1, <2>2 DEF Answers, HandlerSet
  <2>3. CASE handler' = [handler EXCEPT !.at = "fetched", !.needed = needed]
    BY <1>1, <2>3 DEF HandlerSet
  <2> QED
    BY <1>1, <2>1, <2>2, <2>3, CopiesFit
<1> QED
  BY <1>3, <1>4, <1>5, <1>6, <1>7, StepsAre

\* get_file_security never puts more into the buffer than it holds, whatever
\* the file system answers to the two getxattr and whatever happens to the
\* descriptor between them.
THEOREM RepliesCopyFits == Spec => []CopyFits
<1>1. Init => CopyFits
  BY DEF Init, CopyFits, Request
<1> QED
  BY <1>1, InitKinds, KindsStep, CopyFitsStep, PTL DEF Spec

(***************************************************************************)
(* A walk gets the inode of the name it asked for.                         *)
(***************************************************************************)

OnlyAsked(status) == status.ok => status.name = handler.asked

\* While the lookup runs, only its own answer can reach the cells it looks at.
Own ==
  /\ handler.kind = "lookup" => handler.at \in {"asked", "idle"}
  /\ handler.at = "asked" =>
       /\ OnlyAsked(reply.cells.status)
       /\ \A t \in tasks : t.number = reply.number =>
            \A k \in DOMAIN t.writes : OnlyAsked(t.writes[k].cells.status)
  /\ OwnAnswers

LEMMA LookupAnswersOwn ==
  ASSUME NEW name \in Children, NEW answer \in LookupAnswers(name), NEW k \in DOMAIN answer,
         answer[k].cells.status.ok
  PROVE  answer[k].cells.status.name = name
<1>1. /\ Grant(name).cells.status = Found(name) /\ Found(name).name = name
  BY DEF Grant, Status, EmptyCells, Found
<1>2. /\ Status(Err("ENOENT")).cells.status = Err("ENOENT") /\ ~Err("ENOENT").ok
  BY DEF Status, EmptyCells, Err
<1>3. answer = <<Grant(name)>> \/ answer = <<Status(Err("ENOENT"))>> \/ answer = << >>
  BY DEF LookupAnswers
<1>4. CASE answer = <<Grant(name)>>
  <2>1. k = 1 /\ answer[k] = Grant(name)
    BY <1>4
  <2> QED
    BY <1>1, <2>1
<1>5. CASE answer = <<Status(Err("ENOENT"))>>
  <2>1. k = 1 /\ answer[k] = Status(Err("ENOENT"))
    BY <1>5
  <2> QED
    BY <1>2, <2>1
<1>6. CASE answer = << >>
  BY <1>6
<1> QED
  BY <1>3, <1>4, <1>5, <1>6

LEMMA OwnStep ==
  ASSUME Kinds, Own, [Next]_vars
  PROVE  Own'
<1>1. handler \in HandlerSet /\ reply.cells \in CellSet
  BY DEF Kinds
<1>2. CASE UNCHANGED vars
  BY <1>2 DEF vars, Own, OwnAnswers, OnlyAsked, Idle
<1>3. ASSUME NEW t \in tasks, Answer(t) PROVE Own'
  <2>1. handler' = handler
    BY <1>3, Zenon DEF Answer
  <2>2. /\ reply'.number = reply.number
        /\ t.number # reply.number => reply' = reply
        /\ t.number = reply.number => reply'.cells = Written(reply.cells, t.writes[1].cells)
        /\ \A u \in tasks' :
             \/ u \in tasks /\ u # t
             \/ /\ u.number = t.number
                /\ DOMAIN u.writes = 1 .. Len(t.writes) - 1
                /\ \A k \in DOMAIN u.writes : u.writes[k] = t.writes[k + 1]
    BY <1>3, AnswerKinds, Zenon
  <2>3. DOMAIN t.writes = 1 .. Len(t.writes) /\ Len(t.writes) \in Nat \ {0}
    BY DEF Kinds, TaskSet
  <2>4. ASSUME handler.at = "asked" PROVE OnlyAsked(reply'.cells.status)
    <3>1. CASE t.number = reply.number
      <4>1. OnlyAsked(t.writes[1].cells.status) /\ OnlyAsked(reply.cells.status)
        BY <2>3, <2>4, <3>1 DEF Own
      <4>2. reply'.cells.status \in {reply.cells.status, t.writes[1].cells.status}
        BY <2>2, <3>1 DEF Written
      <4> QED
        BY <4>1, <4>2
    <3> QED
      BY <2>2, <2>4, <3>1 DEF Own
  <2>5. ASSUME handler.at = "asked", NEW u \in tasks', u.number = reply.number, NEW k \in DOMAIN u.writes
        PROVE  OnlyAsked(u.writes[k].cells.status)
    <3>1. CASE u \in tasks
      BY <2>5, <3>1 DEF Own
    <3>2. CASE u \notin tasks
      <4>1. k + 1 \in DOMAIN t.writes /\ u.writes[k] = t.writes[k + 1] /\ t.number = reply.number
        BY <2>2, <2>3, <2>5, <3>2
      <4> QED
        BY <2>5, <4>1 DEF Own
    <3> QED
      BY <3>1, <3>2
  <2> QED
    BY <2>1, <2>2, <2>4, <2>5 DEF Own, OwnAnswers, OnlyAsked, Idle
<1>4. CASE AsksStep
  <2>1. ASSUME NEW name \in Children, StartLookup(name) PROVE Own'
    <3>1. handler' = [Request("lookup", "asked") EXCEPT !.asked = name] /\ Calls(LookupAnswers(name))
      BY <2>1 DEF StartLookup, Starts
    <3>2. handler'.at = "asked" /\ handler'.kind = "lookup" /\ handler'.asked = name
      BY <3>1 DEF Request
    <3>3. /\ reply'.cells = EmptyCells
          /\ \A t \in tasks' : t.number = reply'.number => t.writes \in LookupAnswers(name)
      BY <3>1, CallsKinds, LookupAnswersTyped
    <3>4. ~reply'.cells.status.ok
      BY <3>3 DEF EmptyCells, Unanswered, Err
    <3>5. ASSUME NEW t \in tasks', t.number = reply'.number, NEW k \in DOMAIN t.writes,
                 t.writes[k].cells.status.ok
          PROVE  t.writes[k].cells.status.name = name
      <4>1. t.writes \in LookupAnswers(name)
        BY <3>3, <3>5
      <4> QED
        BY <3>5, <4>1, LookupAnswersOwn
    <3> QED
      BY <3>2, <3>4, <3>5 DEF Own, OwnAnswers, OnlyAsked, Idle
  <2>2. CASE StartList \/ StartFind
    <3>1. handler' = Request("list", "listed") \/ handler' = Request("list", "listedPlus")
      BY <2>2, Zenon DEF StartList, StartFind, Starts
    <3>2. handler'.at \in {"listed", "listedPlus"} /\ handler'.kind = "list"
      BY <3>1 DEF Request
    <3> QED
      BY <3>2 DEF Own, OwnAnswers, Idle
  <2>3. CASE FallBack
    <3>1. handler'.at = "listed" /\ handler'.kind = handler.kind /\ handler.at = "listedPlus"
      BY <1>1, <2>3 DEF FallBack, Returned, HandlerSet
    <3> QED
      BY <3>1 DEF Own, OwnAnswers, Idle
  <2>4. ASSUME NEW buffer \in Buffers, StartSecurity(buffer) PROVE Own'
    <3>1. handler'.at = "probed" /\ handler'.kind = "security"
      BY <2>4 DEF StartSecurity, Starts, Request
    <3> QED
      BY <3>1 DEF Own, OwnAnswers, Idle
  <2> QED
    BY <1>4, <2>1, <2>2, <2>3, <2>4 DEF AsksStep
<1>5. CASE EndLookup
  <2>1. /\ handler' = Answers(Seen(reply.cells.status)) /\ handler.at = "asked"
    BY <1>5 DEF EndLookup, Returned
  <2>2. /\ handler'.at = "idle" /\ handler'.answer = Seen(reply.cells.status)
        /\ handler'.asked = handler.asked
    BY <1>1, <2>1 DEF Answers, HandlerSet
  <2>3. OnlyAsked(Seen(reply.cells.status))
    BY <2>1 DEF Own, OnlyAsked, Seen, Err
  <2> QED
    BY <2>2, <2>3 DEF Own, OwnAnswers, OnlyAsked, Idle
\* Every other step is of another kind of request.
<1>6. ASSUME handler.kind # "lookup", handler'.kind = handler.kind, handler'.at # "asked"
      PROVE  Own'
  BY <1>6 DEF Own, OwnAnswers, Idle
<1>7. ASSUME NEW status, handler' = Answers(status), handler.at \notin {"asked", "idle"} PROVE Own'
  <2>1. handler'.kind = handler.kind /\ handler'.at = "idle"
    BY <1>1, <1>7 DEF Answers, HandlerSet
  <2> QED
    BY <1>6, <1>7, <2>1 DEF Own
<1>8. ASSUME NEW needed, NEW length, Copies(needed, length), handler.at \notin {"asked", "idle"} PROVE Own'
  <2>1. handler'.kind = handler.kind /\ handler'.at = "idle"
    BY <1>1, <1>8 DEF Copies, Answers, HandlerSet
  <2> QED
    BY <1>6, <1>8, <2>1 DEF Own
<1>9. CASE QuietStep /\ ~EndLookup
  <2>1. CASE Change
    <3>1. handler'.kind = handler.kind /\ handler'.at = handler.at /\ handler.at \in {"probed", "fetched"}
      BY <1>1, <2>1 DEF Change, HandlerSet
    <3> QED
      BY <1>6, <3>1 DEF Own
  <2>2. CASE EndList
    BY <1>7, <2>2 DEF EndList
  <2>3. CASE SecurityFails
    BY <1>7, <2>3 DEF SecurityFails, Returned
  <2>4. CASE Close
    <3>1. handler'.kind = "none" /\ handler'.at = "idle"
      BY <2>4 DEF Close, Request
    <3> QED
      BY <3>1 DEF Own, OwnAnswers, Idle
  <2>5. ASSUME NEW n \in 0 .. Len(Directory), Emit(n) \/ EmitPlus(n) PROVE Own'
    <3>1. /\ handler' = [handler EXCEPT !.at = "delivered", !.whole = n = Len(reply.cells.entries)]
          /\ handler.at \in {"listed", "listedPlus"}
      BY <2>5, Zenon DEF Emit, EmitPlus, Delivers, Returned
    <3>2. handler'.kind = handler.kind /\ handler'.at = "delivered"
      BY <1>1, <3>1 DEF HandlerSet
    <3> QED
      BY <1>6, <3>1, <3>2 DEF Own
  <2>6. CASE Fetched
    BY <1>8, <2>6 DEF Fetched, Returned
  <2>7. CASE Synthesize
    <3>1. handler.at \in {"probed", "fetched"}
      BY <2>7 DEF Synthesize, Returned
    <3>2. \/ \E needed : Copies(needed, Synthesized)
          \/ handler' = Answers(Err("EIO"))
      BY <2>7, Zenon DEF Synthesize
    <3>3. CASE handler' = Answers(Err("EIO"))
      BY <1>7, <3>1, <3>3
    <3>4. ASSUME NEW needed, Copies(needed, Synthesized) PROVE Own'
      BY <1>8, <3>1, <3>4
    <3> QED
      BY <3>2, <3>3, <3>4
  <2> QED
    BY <1>9, <2>1, <2>2, <2>3, <2>4, <2>5, <2>6, <2>7 DEF QuietStep
<1>10. CASE Probed
  <2>1. PICK needed \in Nat :
    /\ UNCHANGED <<offset, delivered, descriptor>>
    /\ handler.at = "probed"
    /\ \/ /\ handler' = [Answers(Holds(needed)) EXCEPT !.needed = needed]
          /\ UNCHANGED <<reply, tasks>>
       \/ /\ handler' = [handler EXCEPT !.at = "fetched", !.needed = needed]
          /\ Calls(XattrAnswers(handler.buffer))
       \/ /\ Copies(needed, reply.cells.status.length)
          /\ UNCHANGED <<reply, tasks>>
    BY <1>10, ProbedSteps, Zenon
  <2>2. CASE handler' = [Answers(Holds(needed)) EXCEPT !.needed = needed]
    <3>1. handler'.kind = handler.kind /\ handler'.at = "idle"
      BY <1>1, <2>2 DEF Answers, HandlerSet
    <3> QED
      BY <1>6, <2>1, <3>1 DEF Own
  <2>3. CASE handler' = [handler EXCEPT !.at = "fetched", !.needed = needed]
    <3>1. handler'.kind = handler.kind /\ handler'.at = "fetched"
      BY <1>1, <2>3 DEF HandlerSet
    <3> QED
      BY <1>6, <2>1, <3>1 DEF Own
  <2> QED
    BY <1>8, <2>1, <2>2, <2>3
<1> QED
  BY <1>2, <1>3, <1>4, <1>5, <1>9, <1>10, StepsAre

LEMMA InitOwn == Init => Own
BY DEF Init, Own, OwnAnswers, Idle, Request

\* A walk never gets the inode of another name, for any directory and any
\* number of requests, behind TokioAdapter too: every callback has cells of
\* its own (capture), and a late task keeps those of the reply it was given.
THEOREM RepliesOwnAnswers == Spec => []OwnAnswers
<1>1. Own => OwnAnswers
  BY DEF Own
<1> QED
  BY <1>1, InitOwn, InitKinds, KindsStep, OwnStep, PTL DEF Spec

(***************************************************************************)
(* What Dokan has got is the beginning of the directory.                   *)
(***************************************************************************)

\* What a task has still to write, when the entries up to the from-th came.
Continues(from, writes) ==
  \A k \in DOMAIN writes :
    \/ from + k <= Len(Directory) /\ writes[k].cells.entries = <<Directory[from + k]>>
    \/ k = Len(writes) /\ writes[k].cells.entries = << >>

\* The entry up to which the reply of a listing has got.
Reached == offset + Len(reply.cells.entries)

\* The entries of a reply, and those it will still get, follow the offset.
InOrder ==
  /\ DeliveredInOrder /\ offset <= Len(Directory)
  /\ handler.at \in {"listed", "listedPlus"} =>
       /\ Reached <= Len(Directory)
       /\ reply.cells.entries = SubSeq(Directory, offset + 1, Reached)
       /\ \A t \in tasks : t.number = reply.number => Continues(Reached, t.writes)

LEMMA OneMore ==
  ASSUME NEW S, NEW s \in Seq(S), NEW t \in Seq(S), Len(t) = 1
  PROVE  /\ s \o t \in Seq(S) /\ Len(s \o t) = Len(s) + 1
         /\ DOMAIN (s \o t) = 1 .. Len(s) + 1
         /\ \A k \in 1 .. Len(s) : (s \o t)[k] = s[k]
         /\ (s \o t)[Len(s) + 1] = t[1]
<1>1. Len(s) \in Nat
  OBVIOUS
<1> DEFINE both == s \o t
<1>2. /\ both \in Seq(S) /\ Len(both) = Len(s) + Len(t)
      /\ \A i \in 1 .. Len(s) + Len(t) : both[i] = IF i <= Len(s) THEN s[i] ELSE t[i - Len(s)]
  BY ConcatProperties, Zenon
<1> HIDE DEF both
<1>3. DOMAIN both = 1 .. Len(s) + 1
  BY <1>2
<1>4. (\A k \in 1 .. Len(s) : both[k] = s[k]) /\ both[Len(s) + 1] = t[1]
  BY <1>1, <1>2
<1> QED
  BY <1>2, <1>3, <1>4 DEF both

LEMMA OneLonger ==
  ASSUME NEW s \in Seq(Range(Directory)), NEW t \in Seq(Range(Directory)), Len(t) = 1
  PROVE  Len(s \o t) = Len(s) + 1
BY OneMore

LEMMA NothingListed ==
  ASSUME NEW from \in Nat, from <= Len(Directory), NEW n \in Nat, n = 0
  PROVE  SubSeq(Directory, from + 1, from + n) = << >>
BY SubSeqEmpty

LEMMA StatusListsNothing ==
  ASSUME NEW status, NEW from
  PROVE  Continues(from, <<Status(status)>>)
<1>1. Status(status).cells.entries = << >>
  BY DEF Status, EmptyCells
<1> QED
  BY <1>1 DEF Continues

LEMMA EntriesContinue ==
  ASSUME NEW from \in Nat, from <= Len(Directory), NEW n \in from .. Len(Directory),
         NEW plus \in BOOLEAN, NEW status \in StatusSet
  PROVE  /\ Continues(from, EntriesUpTo(from, n, plus))
         /\ Continues(from, EntriesUpTo(from, n, plus) \o <<Status(status)>>)
<1> DEFINE entries == EntriesUpTo(from, n, plus)
           end == <<Status(status)>>
<1>1. Len(Directory) \in Nat
  BY DirectoryAssumption
<1>2. n \in Nat /\ n - from \in Nat
  BY <1>1
<1>3. entries \in Seq(WriteSet) /\ end \in Seq(WriteSet)
  BY <1>1, <1>2, EntriesTyped, AnswersTyped
<1>4. \A k \in 1 .. n - from : entries[k].cells.entries = <<Directory[from + k]>>
  BY DEF EntriesUpTo, Entry, EmptyCells
<1>5. DOMAIN entries = 1 .. n - from
  BY DEF EntriesUpTo
<1>6. Len(end) = 1 /\ end[1].cells.entries = << >>
  BY DEF Status, EmptyCells
<1> HIDE DEF entries, end
<1>7. Len(entries) = n - from
  BY <1>2, <1>3, <1>5
<1>8. Continues(from, entries)
  BY <1>1, <1>2, <1>4, <1>5 DEF Continues
<1>9. /\ Len(entries \o end) = n - from + 1
      /\ DOMAIN (entries \o end) = 1 .. n - from + 1
      /\ \A k \in 1 .. n - from : (entries \o end)[k] = entries[k]
      /\ (entries \o end)[n - from + 1] = end[1]
  BY <1>3, <1>6, <1>7, OneMore
<1>10. Continues(from, entries \o end)
  <2>1. ASSUME NEW k \in 1 .. n - from + 1
        PROVE  \/ from + k <= Len(Directory) /\ (entries \o end)[k].cells.entries = <<Directory[from + k]>>
               \/ k = Len(entries \o end) /\ (entries \o end)[k].cells.entries = << >>
    <3>1. CASE k = n - from + 1
      BY <1>6, <1>9, <3>1
    <3>2. CASE k # n - from + 1
      <4>1. k \in 1 .. n - from /\ from + k <= Len(Directory)
        BY <1>1, <1>2, <3>2
      <4> QED
        BY <1>4, <1>9, <4>1
    <3> QED
      BY <3>1, <3>2
  <2> QED
    BY <1>9, <2>1 DEF Continues
<1> QED
  BY <1>8, <1>10 DEF entries, end

LEMMA ListAnswersContinue ==
  ASSUME NEW from \in Nat, from <= Len(Directory), NEW plus \in BOOLEAN,
         NEW answer \in ListAnswers(from, plus) \cup NotThere
  PROVE  Continues(from, answer)
<1>1. Len(Directory) \in from .. Len(Directory)
  BY DirectoryAssumption
<1>2. Listed \in StatusSet /\ Err("EIO") \in StatusSet
  BY StatusesTyped DEF Errnos
<1>3. \/ answer = EntriesUpTo(from, Len(Directory), plus) \o <<Status(Listed)>>
      \/ \E n \in from .. Len(Directory) :
           \/ answer = EntriesUpTo(from, n, plus) \o <<Status(Err("EIO"))>>
           \/ answer = EntriesUpTo(from, n, plus)
      \/ answer = <<Status(Err("ENOSYS"))>>
  BY DEF ListAnswers, NotThere
<1> QED
  BY <1>1, <1>2, <1>3, EntriesContinue, StatusListsNothing

\* A write of the listing's own task brings the next entry, or ends it.
LEMMA AnswerInOrder ==
  ASSUME Kinds, InOrder, NEW t \in tasks, Answer(t), handler.at \in {"listed", "listedPlus"}
  PROVE  InOrder'
<1>1. UNCHANGED <<handler, offset, delivered>>
  BY Zenon DEF Answer
<1>2. /\ Kinds' /\ reply'.number = reply.number
      /\ t.number # reply.number => reply' = reply
      /\ t.number = reply.number => reply'.cells = Written(reply.cells, t.writes[1].cells)
      /\ \A u \in tasks' :
           \/ u \in tasks /\ u # t
           \/ /\ u.number = t.number
              /\ DOMAIN u.writes = 1 .. Len(t.writes) - 1
              /\ \A k \in DOMAIN u.writes : u.writes[k] = t.writes[k + 1]
  BY AnswerKinds, Zenon
<1>3. /\ DOMAIN t.writes = 1 .. Len(t.writes) /\ Len(t.writes) \in Nat \ {0}
      /\ Directory \in Seq(Range(Directory)) /\ Len(Directory) \in Nat
      /\ reply.cells.entries \in Seq(Range(Directory)) /\ offset \in Nat
      /\ Len(reply.cells.entries) \in Nat /\ Reached \in Nat
  BY DirectoryAssumption DEF Kinds, TaskSet, CellSet, Reached
<1>4. /\ Reached <= Len(Directory) /\ offset <= Reached
      /\ reply.cells.entries = SubSeq(Directory, offset + 1, Reached)
      /\ \A u \in tasks : u.number = reply.number => Continues(Reached, u.writes)
  BY <1>3 DEF InOrder, Reached
<1>5. DeliveredInOrder' /\ offset' <= Len(Directory)
  BY <1>1 DEF InOrder, DeliveredInOrder
<1>6. CASE t.number # reply.number
  <2>1. \A u \in tasks' : u.number = reply.number => u \in tasks
    BY <1>2, <1>6
  <2>2. Reached' = Reached
    BY <1>1, <1>2, <1>6 DEF Reached
  <2>3. \A u \in tasks' : u.number = reply'.number => Continues(Reached', u.writes)
    BY <1>2, <1>4, <2>1, <2>2
  <2>4. Reached' <= Len(Directory)
        /\ reply'.cells.entries = SubSeq(Directory, offset' + 1, Reached')
    BY <1>1, <1>2, <1>4, <1>6, <2>2
  <2> QED
    BY <1>5, <2>3, <2>4, Zenon DEF InOrder, Continues
<1>7. CASE t.number = reply.number
  <2> DEFINE new == t.writes[1].cells.entries
             entries == reply.cells.entries
  <2>1. reply'.cells.entries = entries \o new
    <3>1. reply'.cells = Written(reply.cells, t.writes[1].cells)
      BY <1>2, <1>7, Zenon
    <3> QED
      BY <3>1, WrittenEntries, Zenon
  <2>2. \A u \in tasks' : u.number = reply.number =>
          /\ DOMAIN u.writes = 1 .. Len(t.writes) - 1
          /\ \A k \in DOMAIN u.writes : u.writes[k] = t.writes[k + 1]
    BY <1>2, <1>7 DEF Kinds
  <2>3. CASE Reached + 1 <= Len(Directory) /\ new = <<Directory[Reached + 1]>>
    <3>1. Directory[Reached + 1] \in Range(Directory)
      BY <1>3, <2>3 DEF Range
    <3>2. new \in Seq(Range(Directory)) /\ Len(new) = 1
      BY <2>3, <3>1
    <3>3. SubSeq(Directory, offset + 1, Reached + 1)
            = SubSeq(Directory, offset + 1, Reached + 1 - 1) \o <<Directory[Reached + 1]>>
      <4>1. offset + 1 \in 1 .. Len(Directory) /\ Reached + 1 \in offset + 1 .. Len(Directory)
        BY <1>3, <1>4, <2>3
      <4> QED
        BY <1>3, <4>1, SubSeqRecursiveSecond
    <3>4. Reached + 1 - 1 = Reached
      BY <1>3
    <3>5. entries \o new = SubSeq(Directory, offset + 1, Reached + 1)
      BY <1>4, <2>3, <3>3, <3>4
    <3>6. Len(entries \o new) = Len(entries) + 1
      BY <1>3, <3>2, OneLonger
    <3>7. Reached' = Reached + 1
      BY <1>1, <1>3, <2>1, <3>6 DEF Reached
    <3>8. ASSUME NEW u \in tasks', u.number = reply.number, NEW k \in DOMAIN u.writes
          PROVE  \/ Reached + 1 + k <= Len(Directory)
                      /\ u.writes[k].cells.entries = <<Directory[Reached + 1 + k]>>
                 \/ k = Len(u.writes) /\ u.writes[k].cells.entries = << >>
      <4>1. /\ k \in 1 .. Len(t.writes) - 1 /\ u.writes[k] = t.writes[k + 1]
            /\ k + 1 \in DOMAIN t.writes
        BY <1>3, <2>2, <3>8
      <4>2. Len(u.writes) = Len(t.writes) - 1
        <5>1. u.writes \in Seq(WriteSet) /\ DOMAIN u.writes = 1 .. Len(t.writes) - 1
          BY <1>2, <2>2, <3>8 DEF Kinds, TaskSet
        <5>2. Len(u.writes) \in Nat /\ DOMAIN u.writes = 1 .. Len(u.writes)
          BY <5>1
        <5> QED
          BY <1>3, <5>1, <5>2
      <4>3. \/ Reached + (k + 1) <= Len(Directory)
                 /\ t.writes[k + 1].cells.entries = <<Directory[Reached + (k + 1)]>>
            \/ k + 1 = Len(t.writes) /\ t.writes[k + 1].cells.entries = << >>
        BY <1>4, <1>7, <4>1 DEF Continues
      <4>4. Reached + (k + 1) = Reached + 1 + k
        BY <1>3, <4>1
      <4>5. k + 1 = Len(t.writes) => k = Len(u.writes)
        BY <1>3, <4>1, <4>2
      <4> QED
        BY <4>1, <4>3, <4>4, <4>5, Zenon
    <3>9. \A u \in tasks' : u.number = reply'.number => Continues(Reached', u.writes)
      BY <1>2, <3>7, <3>8 DEF Continues
    <3>10. Reached' <= Len(Directory)
           /\ reply'.cells.entries = SubSeq(Directory, offset' + 1, Reached')
      BY <1>1, <2>1, <2>3, <3>5, <3>7
    <3> QED
      BY <1>5, <3>9, <3>10, Zenon DEF InOrder, Continues
  <2>4. CASE Len(t.writes) = 1 /\ new = << >>
    <3>1. entries \o new = entries
      BY <1>3, <2>4, ConcatEmptySeq
    <3>2. Reached' = Reached
      BY <1>1, <2>1, <3>1 DEF Reached
    <3>3. \A u \in tasks' : u.number = reply'.number => Continues(Reached', u.writes)
      BY <1>2, <2>2, <2>4 DEF Continues
    <3>4. Reached' <= Len(Directory)
           /\ reply'.cells.entries = SubSeq(Directory, offset' + 1, Reached')
      BY <1>1, <1>4, <2>1, <3>1, <3>2
    <3> QED
      BY <1>5, <3>3, <3>4, Zenon DEF InOrder, Continues
  <2>5. \/ Reached + 1 <= Len(Directory) /\ new = <<Directory[Reached + 1]>>
        \/ 1 = Len(t.writes) /\ new = << >>
    <3>1. 1 \in DOMAIN t.writes /\ Continues(Reached, t.writes)
      BY <1>3, <1>4, <1>7
    <3> QED
      BY <3>1, Zenon DEF Continues
  <2> QED
    BY <2>3, <2>4, <2>5
<1> QED
  BY <1>6, <1>7

\* A listing that is asked for begins with empty cells.
LEMMA AskedInOrder ==
  ASSUME Kinds, InOrder, NEW plus \in BOOLEAN, NEW answers,
         answers \subseteq ListAnswers(offset, plus) \cup NotThere,
         Calls(answers), UNCHANGED <<offset, delivered>>
  PROVE  InOrder'
<1>1. offset \in Nat /\ offset <= Len(Directory)
  BY DEF Kinds, InOrder
<1>2. answers \subseteq Seq(WriteSet)
  BY <1>1, ListAnswersTyped, NotThereTyped
<1>3. /\ reply'.cells = EmptyCells
      /\ \A t \in tasks' : t.number = reply'.number => t.writes \in answers
  BY <1>2, CallsKinds
<1>4. reply'.cells.entries = << >>
  BY <1>3 DEF EmptyCells
<1>5. Reached' = offset
  BY <1>1, <1>4 DEF Reached
<1>6. ASSUME NEW t \in tasks', t.number = reply'.number
      PROVE  Continues(offset, t.writes)
  <2>1. t.writes \in ListAnswers(offset, plus) \cup NotThere
    BY <1>3, <1>6
  <2> QED
    BY <1>1, <2>1, ListAnswersContinue
<1>7. SubSeq(Directory, offset + 1, offset) = << >>
  BY <1>1, SubSeqEmpty
<1>8. DeliveredInOrder' /\ offset' <= Len(Directory)
  BY DEF InOrder, DeliveredInOrder
<1>9. /\ Reached' <= Len(Directory)
      /\ reply'.cells.entries = SubSeq(Directory, offset' + 1, Reached')
      /\ \A t \in tasks' : t.number = reply'.number => Continues(Reached', t.writes)
  BY <1>1, <1>4, <1>5, <1>6, <1>7
<1> QED
  BY <1>8, <1>9, Zenon DEF InOrder, Continues

\* Dokan takes the first of them.
LEMMA DeliversInOrder ==
  ASSUME Kinds, InOrder, handler.at \in {"listed", "listedPlus"},
         NEW n \in 0 .. Len(Directory), Delivers(n)
  PROVE  InOrder'
<1> DEFINE entries == reply.cells.entries
<1>1. /\ handler \in HandlerSet /\ offset \in Nat /\ offset <= Len(Directory)
      /\ Directory \in Seq(Range(Directory)) /\ Len(Directory) \in Nat
      /\ entries \in Seq(Range(Directory)) /\ Len(entries) \in Nat
  BY DirectoryAssumption DEF Kinds, InOrder, CellSet
<1>2. /\ n <= Len(entries) /\ delivered' = delivered \o SubSeq(entries, 1, n)
      /\ offset' = offset + n
      /\ handler' = [handler EXCEPT !.at = "delivered", !.whole = n = Len(entries)]
  BY Zenon DEF Delivers, Advanced
<1>3. /\ offset + Len(entries) <= Len(Directory)
      /\ entries = SubSeq(Directory, offset + 1, offset + Len(entries))
      /\ delivered = SubSeq(Directory, 1, offset)
  BY DEF InOrder, Reached, DeliveredInOrder
<1> HIDE DEF entries
<1>4. handler'.at = "delivered"
  BY <1>1, <1>2 DEF HandlerSet
\* The numbers alone.
<1>5. /\ offset \in Nat /\ Len(Directory) \in Nat /\ Len(entries) \in Nat /\ n \in Nat
      /\ n <= Len(entries) /\ offset + Len(entries) <= Len(Directory)
  BY <1>1, <1>2, <1>3
<1>6. SubSeq(entries, 1, n) = SubSeq(Directory, offset + 1, offset + n)
  <2>1. CASE n = 0
    <3>1. SubSeq(entries, 1, n) = << >> /\ SubSeq(Directory, offset + 1, offset + n) = << >>
      BY <1>1, <2>1, SubSeqEmpty
    <3> QED
      BY <3>1
  <2>2. CASE n # 0
    <3> DEFINE i == offset + 1
               j == offset + Len(entries)
    <3>1. /\ i \in 1 .. Len(Directory) /\ j \in 1 .. Len(Directory)
          /\ 1 \in 1 .. j - i + 1 /\ n \in 1 .. j - i + 1
          /\ i + 1 - 1 = i /\ i + n - 1 = offset + n
      BY <1>5, <2>2
    <3> HIDE DEF i, j
    <3>2. SubSeq(SubSeq(Directory, i, j), 1, n) = SubSeq(Directory, i + 1 - 1, i + n - 1)
      BY <1>1, <3>1, SubSeqOfSubSeq
    <3> QED
      BY <1>3, <3>1, <3>2 DEF i, j
  <2> QED
    BY <2>1, <2>2
<1>7. SubSeq(Directory, 1, offset) \o SubSeq(Directory, offset + 1, offset + n)
        = SubSeq(Directory, 1, offset + n)
  <2>1. /\ 1 \in 1 .. Len(Directory) + 1 /\ offset \in 1 - 1 .. Len(Directory)
        /\ offset + n \in offset .. Len(Directory)
    BY <1>5
  <2> QED
    BY <1>1, <2>1, ConcatAdjacentSubSeq
<1>8. delivered' = SubSeq(Directory, 1, offset') /\ offset' <= Len(Directory)
  <2>1. delivered' = SubSeq(Directory, 1, offset) \o SubSeq(Directory, offset + 1, offset + n)
    BY <1>2, <1>3, <1>6, Zenon
  <2>2. offset' = offset + n /\ offset + n <= Len(Directory)
    BY <1>2, <1>5
  <2> QED
    BY <1>7, <2>1, <2>2
<1> QED
  BY <1>4, <1>8 DEF InOrder, DeliveredInOrder

LEMMA InOrderStep ==
  ASSUME Kinds, InOrder, [Next]_vars
  PROVE  InOrder'
<1>1. handler \in HandlerSet
  BY DEF Kinds
\* A step that leaves the directory alone.
<1>2. ASSUME UNCHANGED <<offset, delivered>>, handler'.at \notin {"listed", "listedPlus"}
      PROVE  InOrder'
  BY <1>2 DEF InOrder, DeliveredInOrder
<1>3. ASSUME NEW status, handler' = Answers(status), UNCHANGED <<offset, delivered>> PROVE InOrder'
  <2>1. handler'.at = "idle"
    BY <1>1, <1>3 DEF Answers, HandlerSet
  <2> QED
    BY <1>2, <1>3, <2>1
<1>4. ASSUME NEW needed, NEW length, Copies(needed, length), UNCHANGED <<offset, delivered>>
      PROVE  InOrder'
  <2>1. handler'.at = "idle"
    BY <1>1, <1>4 DEF Copies, Answers, HandlerSet
  <2> QED
    BY <1>2, <1>4, <2>1
<1>5. CASE UNCHANGED vars
  BY <1>5 DEF vars, InOrder, DeliveredInOrder, Reached, Continues
<1>6. ASSUME NEW t \in tasks, Answer(t) PROVE InOrder'
  <2>1. UNCHANGED <<handler, offset, delivered>>
    BY <1>6, Zenon DEF Answer
  <2> QED
    BY <1>2, <1>6, <2>1, AnswerInOrder
<1>7. CASE AsksStep
  <2>1. ASSUME NEW name \in Children, StartLookup(name) PROVE InOrder'
    <3>1. handler'.at = "asked" /\ UNCHANGED <<offset, delivered>>
      BY <2>1 DEF StartLookup, Starts, Request
    <3> QED
      BY <1>2, <3>1
  <2>2. CASE StartList
    <3>1. Calls(ListAnswers(offset, FALSE)) /\ UNCHANGED <<offset, delivered>>
      BY <2>2 DEF StartList, Starts
    <3> QED
      BY <3>1, AskedInOrder
  <2>3. CASE StartFind
    <3> DEFINE answers == IF fs = "tokio" THEN NotThere ELSE ListAnswers(offset, TRUE) \cup NotThere
    <3>1. Calls(answers) /\ UNCHANGED <<offset, delivered>>
      BY <2>3, Zenon DEF StartFind, Starts
    <3>2. answers \subseteq ListAnswers(offset, TRUE) \cup NotThere
      OBVIOUS
    <3> HIDE DEF answers
    <3> QED
      BY <3>1, <3>2, AskedInOrder
  <2>4. CASE FallBack
    <3>1. Calls(ListAnswers(offset, FALSE)) /\ UNCHANGED <<offset, delivered>>
      BY <2>4 DEF FallBack
    <3> QED
      BY <3>1, AskedInOrder
  <2>5. ASSUME NEW buffer \in Buffers, StartSecurity(buffer) PROVE InOrder'
    <3>1. handler'.at = "probed" /\ UNCHANGED <<offset, delivered>>
      BY <2>5 DEF StartSecurity, Starts, Request
    <3> QED
      BY <1>2, <3>1
  <2> QED
    BY <1>7, <2>1, <2>2, <2>3, <2>4, <2>5 DEF AsksStep
<1>8. CASE QuietStep
  <2>1. CASE Change
    <3>1. handler'.at = handler.at /\ handler.at \in {"probed", "fetched"} /\ UNCHANGED <<offset, delivered>>
      BY <1>1, <2>1 DEF Change, HandlerSet
    <3> QED
      BY <1>2, <3>1
  <2>2. CASE EndLookup \/ EndList \/ SecurityFails
    <3>1. handler' = Answers(Seen(reply.cells.status)) /\ UNCHANGED <<offset, delivered>>
      BY <2>2, Zenon DEF EndLookup, EndList, SecurityFails
    <3> QED
      BY <1>3, <3>1
  <2>3. CASE Close
    <3>1. offset' = 0 /\ delivered' = << >> /\ handler'.at = "idle"
      BY <2>3 DEF Close, Request
    <3>2. SubSeq(Directory, 1, 0) = << >> /\ 0 <= Len(Directory)
      BY DirectoryAssumption, SubSeqEmpty
    <3> QED
      BY <3>1, <3>2 DEF InOrder, DeliveredInOrder
  <2>4. ASSUME NEW n \in 0 .. Len(Directory), Emit(n) \/ EmitPlus(n) PROVE InOrder'
    <3>1. Delivers(n) /\ handler.at \in {"listed", "listedPlus"}
      BY <2>4, Zenon DEF Emit, EmitPlus, Returned
    <3> QED
      BY <3>1, DeliversInOrder
  <2>5. CASE Fetched
    BY <1>4, <2>5 DEF Fetched
  <2>6. CASE Synthesize
    <3>1. /\ (\E needed : Copies(needed, Synthesized)) \/ handler' = Answers(Err("EIO"))
          /\ UNCHANGED <<offset, delivered>>
      BY <2>6, Zenon DEF Synthesize
    <3>2. CASE handler' = Answers(Err("EIO"))
      BY <1>3, <3>1, <3>2
    <3>3. ASSUME NEW needed, Copies(needed, Synthesized) PROVE InOrder'
      BY <1>4, <3>1, <3>3
    <3> QED
      BY <3>1, <3>2, <3>3
  <2> QED
    BY <1>8, <2>1, <2>2, <2>3, <2>4, <2>5, <2>6 DEF QuietStep
<1>9. CASE Probed
  <2>1. PICK needed \in Nat :
    /\ UNCHANGED <<offset, delivered, descriptor>>
    /\ handler.at = "probed"
    /\ \/ /\ handler' = [Answers(Holds(needed)) EXCEPT !.needed = needed]
          /\ UNCHANGED <<reply, tasks>>
       \/ /\ handler' = [handler EXCEPT !.at = "fetched", !.needed = needed]
          /\ Calls(XattrAnswers(handler.buffer))
       \/ /\ Copies(needed, reply.cells.status.length)
          /\ UNCHANGED <<reply, tasks>>
    BY <1>9, ProbedSteps, Zenon
  <2>2. CASE handler' = [Answers(Holds(needed)) EXCEPT !.needed = needed]
    <3>1. handler'.at = "idle"
      BY <1>1, <2>2 DEF Answers, HandlerSet
    <3> QED
      BY <1>2, <2>1, <3>1
  <2>3. CASE handler' = [handler EXCEPT !.at = "fetched", !.needed = needed]
    <3>1. handler'.at = "fetched"
      BY <1>1, <2>3 DEF HandlerSet
    <3> QED
      BY <1>2, <2>1, <3>1
  <2> QED
    BY <1>4, <2>1, <2>2, <2>3
<1> QED
  BY <1>5, <1>6, <1>7, <1>8, <1>9, StepsAre

LEMMA InitInOrder == Init => InOrder
<1> SUFFICES ASSUME Init PROVE InOrder
  OBVIOUS
<1>1. offset = 0 /\ delivered = << >> /\ handler.at = "idle"
  BY DEF Init, Request
<1>2. SubSeq(Directory, 1, 0) = << >> /\ 0 <= Len(Directory)
  BY DirectoryAssumption, SubSeqEmpty
<1> QED
  BY <1>1, <1>2 DEF InOrder, DeliveredInOrder

\* Dokan gets every directory, of any length, from its beginning and without
\* a gap or a repetition: whatever part of an answer has come when the handler
\* looks, and wherever Dokan cuts it short.
THEOREM RepliesDeliveredInOrder == Spec => []DeliveredInOrder
<1>1. InOrder => DeliveredInOrder
  BY DEF InOrder
<1> QED
  BY <1>1, InitInOrder, InitKinds, KindsStep, InOrderStep, PTL DEF Spec

(***************************************************************************)
(* The request at hand, and the task that answers it.                      *)
(***************************************************************************)

Mine(t) == t.number = reply.number

\* What a handler does is of its kind of request; the only task of a file
\* system that answers in the callback is the callback the handler is in; and
\* a task writes to a reply that was captured.
Settled ==
  /\ fs \in {"direct", "tokio"} /\ calls \in 0 .. MaxCalls
  /\ descriptor \in Lengths \cup {0}
  /\ handler.at = "asked" => handler.kind = "lookup"
  /\ handler.at \in {"listed", "listedPlus", "delivered"} => handler.kind = "list"
  /\ handler.at \in {"probed", "fetched"} => handler.kind = "security"
  /\ \A t \in tasks : t.number >= 1
  /\ fs = "direct" =>
       \A t \in tasks : Mine(t) /\ handler.at \notin {"idle", "delivered"}

LEMMA AnswerMade ==
  ASSUME handler \in HandlerSet, NEW status, handler' = Answers(status)
  PROVE  /\ handler'.at = "idle" /\ handler'.kind = handler.kind /\ handler'.answer = status
         /\ handler'.asked = handler.asked /\ handler'.whole = handler.whole
         /\ handler'.buffer = handler.buffer /\ handler'.needed = handler.needed
         /\ handler'.copied = handler.copied /\ handler'.changed = handler.changed
BY DEF Answers, HandlerSet

LEMMA CopiesMade ==
  ASSUME handler \in HandlerSet, NEW needed, NEW length, Copies(needed, length)
  PROVE  /\ handler'.at = "idle" /\ handler'.kind = handler.kind
         /\ handler'.answer = Holds(needed) /\ handler'.needed = needed
         /\ handler'.buffer = handler.buffer /\ handler'.changed = handler.changed
         /\ handler'.copied = Copied(length, handler.buffer)
BY DEF Copies, Answers, HandlerSet

\* A callback leaves one task, to the reply it was handed.
LEMMA CallsTasks ==
  ASSUME NEW answers, Calls(answers)
  PROVE  \A t \in tasks' : t \in tasks \/ t.number = reply'.number
BY DEF Calls

\* What the parts of a step do to the handler's place.
LEMMA SynthesizeEnds ==
  ASSUME Kinds, Synthesize
  PROVE  /\ handler'.at = "idle" /\ handler'.kind = handler.kind
         /\ handler.at \in {"probed", "fetched"}
         /\ fs = "direct" => tasks = {}
<1>1. handler \in HandlerSet
  BY DEF Kinds
<1>2. /\ handler.at \in {"probed", "fetched"} /\ (fs = "direct" => tasks = {})
      /\ (\E needed : Copies(needed, Synthesized)) \/ handler' = Answers(Err("EIO"))
  BY Zenon DEF Synthesize, Returned
<1>3. CASE handler' = Answers(Err("EIO"))
  BY <1>1, <1>2, <1>3, AnswerMade
<1>4. ASSUME NEW needed, Copies(needed, Synthesized)
      PROVE  handler'.at = "idle" /\ handler'.kind = handler.kind
  BY <1>1, <1>4, CopiesMade
<1> QED
  BY <1>2, <1>3, <1>4

LEMMA ProbedEnds ==
  ASSUME Kinds, Probed
  PROVE  /\ handler'.at \in {"idle", "fetched"} /\ handler'.kind = handler.kind
         /\ handler'.at = "idle" => UNCHANGED <<reply, tasks>>
         /\ handler'.at = "fetched" => Calls(XattrAnswers(handler.buffer))
<1>1. handler \in HandlerSet
  BY DEF Kinds
<1>2. PICK needed \in Nat :
    /\ UNCHANGED <<offset, delivered, descriptor>>
    /\ handler.at = "probed"
    /\ \/ /\ handler' = [Answers(Holds(needed)) EXCEPT !.needed = needed]
          /\ UNCHANGED <<reply, tasks>>
       \/ /\ handler' = [handler EXCEPT !.at = "fetched", !.needed = needed]
          /\ Calls(XattrAnswers(handler.buffer))
       \/ /\ Copies(needed, reply.cells.status.length)
          /\ UNCHANGED <<reply, tasks>>
  BY ProbedSteps, Zenon
<1>3. CASE handler' = [Answers(Holds(needed)) EXCEPT !.needed = needed] /\ UNCHANGED <<reply, tasks>>
  <2>1. handler'.at = "idle" /\ handler'.kind = handler.kind
    BY <1>1, <1>3 DEF Answers, HandlerSet
  <2> QED
    BY <1>3, <2>1
<1>4. CASE /\ handler' = [handler EXCEPT !.at = "fetched", !.needed = needed]
           /\ Calls(XattrAnswers(handler.buffer))
  <2>1. handler'.at = "fetched" /\ handler'.kind = handler.kind
    BY <1>1, <1>4 DEF HandlerSet
  <2> QED
    BY <1>4, <2>1
<1>5. CASE Copies(needed, reply.cells.status.length) /\ UNCHANGED <<reply, tasks>>
  <2>1. handler'.at = "idle" /\ handler'.kind = handler.kind
    BY <1>1, <1>5, CopiesMade
  <2> QED
    BY <1>5, <2>1
<1> QED
  BY <1>2, <1>3, <1>4, <1>5

LEMMA StartsAt ==
  ASSUME NEW request, Starts(request)
  PROVE  /\ handler' = request /\ handler.at = "idle"
         /\ calls \in 0 .. MaxCalls => calls' \in 0 .. MaxCalls
         /\ UNCHANGED <<fs, mix, granted, known, offset, delivered, descriptor, refused>>
BY MaxCallsAssumption DEF Starts

\* What a step that asks does, as far as it is common.
LEMMA AsksSettled ==
  ASSUME Kinds, Settled, AsksStep
  PROVE  Settled'
<1>1. handler \in HandlerSet /\ reply.number \in Nat
  BY DEF Kinds
<1>2. ASSUME NEW answers, answers \subseteq Seq(WriteSet), Calls(answers), fs' = fs, descriptor' = descriptor,
             calls' \in 0 .. MaxCalls, fs = "direct" => tasks = {},
             \/ handler'.at = "asked" /\ handler'.kind = "lookup"
             \/ handler'.at \in {"listed", "listedPlus"} /\ handler'.kind = "list"
             \/ handler'.at = "probed" /\ handler'.kind = "security"
      PROVE  Settled'
  <2>1. reply'.number = reply.number + 1
    BY <1>2, CallsKinds
  <2>2. \A t \in tasks' : t \in tasks \/ t.number = reply'.number
    BY <1>2, CallsTasks
  <2>3. \A t \in tasks' : t.number >= 1
    BY <1>1, <2>1, <2>2 DEF Settled
  <2>4. fs' = "direct" => \A t \in tasks' : t.number = reply'.number
    BY <1>2, <2>2
  <2> QED
    BY <1>2, <2>3, <2>4 DEF Settled, Mine
<1>3. handler.at = "idle" /\ fs = "direct" => tasks = {}
  BY DEF Settled
<1>4. ASSUME NEW name \in Children, StartLookup(name) PROVE Settled'
  <2>1. /\ Starts([Request("lookup", "asked") EXCEPT !.asked = name])
        /\ Calls(LookupAnswers(name))
    BY <1>4 DEF StartLookup
  <2>2. handler'.at = "asked" /\ handler'.kind = "lookup"
    BY <2>1 DEF Starts, Request
  <2> QED
    BY <1>2, <1>3, <2>1, <2>2, StartsAt, LookupAnswersTyped DEF Settled
<1>5. CASE StartList
  <2>1. Starts(Request("list", "listed")) /\ Calls(ListAnswers(offset, FALSE))
    BY <1>5 DEF StartList
  <2>2. handler'.at = "listed" /\ handler'.kind = "list"
    BY <2>1 DEF Starts, Request
  <2>3. ListAnswers(offset, FALSE) \subseteq Seq(WriteSet)
    BY ListAnswersTyped DEF Kinds
  <2> QED
    BY <1>2, <1>3, <2>1, <2>2, <2>3, StartsAt DEF Settled
<1>6. CASE StartFind
  <2> DEFINE answers == IF fs = "tokio" THEN NotThere ELSE ListAnswers(offset, TRUE) \cup NotThere
  <2>1. Starts(Request("list", "listedPlus")) /\ Calls(answers)
    BY <1>6 DEF StartFind
  <2>2. answers \subseteq Seq(WriteSet)
    BY ListAnswersTyped, NotThereTyped DEF Kinds
  <2> HIDE DEF answers
  <2>3. handler'.at = "listedPlus" /\ handler'.kind = "list"
    BY <2>1 DEF Starts, Request
  <2> QED
    BY <1>2, <1>3, <2>1, <2>2, <2>3, StartsAt DEF Settled
<1>7. CASE FallBack
  <2>1. /\ handler' = [handler EXCEPT !.at = "listed"] /\ handler.at = "listedPlus"
        /\ UNCHANGED <<fs, calls, descriptor>> /\ Calls(ListAnswers(offset, FALSE))
        /\ fs = "direct" => tasks = {}
    BY <1>7 DEF FallBack, Returned
  <2>2. ListAnswers(offset, FALSE) \subseteq Seq(WriteSet)
    BY ListAnswersTyped DEF Kinds
  <2>3. handler'.at = "listed" /\ handler'.kind = "list"
    BY <1>1, <2>1 DEF HandlerSet, Settled
  <2>4. calls' \in 0 .. MaxCalls
    BY <2>1 DEF Settled
  <2> QED
    BY <1>2, <2>1, <2>2, <2>3, <2>4
<1>8. ASSUME NEW buffer \in Buffers, StartSecurity(buffer) PROVE Settled'
  <2> DEFINE answers == IF fs = "tokio" THEN NotThere ELSE XattrAnswers(0)
  <2>1. /\ Starts([Request("security", "probed") EXCEPT !.buffer = buffer])
        /\ Calls(answers)
    BY <1>8 DEF StartSecurity
  <2>2. answers \subseteq Seq(WriteSet)
    BY XattrAnswersTyped, NotThereTyped DEF Kinds
  <2> HIDE DEF answers
  <2>3. handler'.at = "probed" /\ handler'.kind = "security"
    BY <2>1 DEF Starts, Request
  <2> QED
    BY <1>2, <1>3, <2>1, <2>2, <2>3, StartsAt DEF Settled
<1> QED
  BY <1>4, <1>5, <1>6, <1>7, <1>8 DEF AsksStep

LEMMA SettledStep ==
  ASSUME Kinds, Settled, [Next]_vars
  PROVE  Settled'
<1>1. handler \in HandlerSet /\ reply.number \in Nat
  BY DEF Kinds
<1>2. CASE UNCHANGED vars
  BY <1>2 DEF vars, Settled, Mine
<1>3. ASSUME NEW t \in tasks, Answer(t) PROVE Settled'
  <2>1. UNCHANGED <<fs, calls, descriptor, handler>>
    BY <1>3, Zenon DEF Answer
  <2>2. /\ reply'.number = reply.number
        /\ \A u \in tasks' : u \in tasks \/ u.number = t.number
    BY <1>3, AnswerKinds, Zenon
  <2>3. \A u \in tasks' : u.number >= 1
    BY <2>2 DEF Settled
  <2>4. fs = "direct" => \A u \in tasks' : u.number = reply'.number
    BY <2>2 DEF Settled, Mine
  <2>5. fs = "direct" => handler.at \notin {"idle", "delivered"}
    BY DEF Settled
  <2> QED
    BY <2>1, <2>3, <2>4, <2>5 DEF Settled, Mine
<1>4. CASE AsksStep
  BY <1>4, AsksSettled
\* Every other step leaves the place it was in, or goes on from a probe.
<1>5. ASSUME UNCHANGED <<fs, calls, reply, tasks>>, descriptor' \in Lengths \cup {0},
             handler'.kind = handler.kind,
             \/ handler'.at = handler.at
             \/ handler'.at \in {"idle", "delivered"} /\ (fs = "direct" => tasks = {}),
             handler'.at = "delivered" => handler'.kind = "list"
      PROVE  Settled'
  BY <1>5 DEF Settled, Mine
<1>6. ASSUME UNCHANGED <<fs, calls, reply, tasks, descriptor>>, fs = "direct" => tasks = {},
             handler'.at = "idle", handler'.kind = handler.kind
      PROVE  Settled'
  BY <1>5, <1>6 DEF Settled
<1>7. CASE QuietStep
  <2>0. UNCHANGED <<reply, tasks>>
    BY <1>7, QuietKinds
  <2>1. CASE Change
    <3>1. /\ handler'.kind = handler.kind /\ handler'.at = handler.at
          /\ handler.at \in {"probed", "fetched"}
          /\ descriptor' \in Lengths \cup {0} /\ UNCHANGED <<fs, calls>>
      BY <1>1, <2>1 DEF Change, HandlerSet
    <3> QED
      BY <1>5, <2>0, <3>1
  <2>2. CASE EndLookup \/ EndList \/ SecurityFails
    <3>1. /\ handler' = Answers(Seen(reply.cells.status)) /\ UNCHANGED <<fs, calls, descriptor>>
          /\ fs = "direct" => tasks = {} \/ handler.at = "delivered"
      BY <2>2, Zenon DEF EndLookup, EndList, SecurityFails, Returned
    <3>2. fs = "direct" => tasks = {}
      BY <3>1 DEF Settled
    <3> QED
      BY <1>1, <1>6, <2>0, <3>1, <3>2, AnswerMade
  <2>3. CASE Close
    <3>1. handler' = Request("none", "idle") /\ UNCHANGED <<fs, calls, descriptor>> /\ handler.at = "idle"
      BY <2>3 DEF Close
    <3>2. handler'.kind = "none" /\ handler'.at = "idle"
      BY <3>1 DEF Request
    <3> QED
      BY <2>0, <3>1, <3>2 DEF Settled, Mine
  <2>4. ASSUME NEW n \in 0 .. Len(Directory), Emit(n) \/ EmitPlus(n) PROVE Settled'
    <3>1. /\ handler' = [handler EXCEPT !.at = "delivered", !.whole = n = Len(reply.cells.entries)]
          /\ handler.at \in {"listed", "listedPlus"} /\ (fs = "direct" => tasks = {})
          /\ UNCHANGED <<fs, calls, descriptor>>
      BY <2>4, Zenon DEF Emit, EmitPlus, Delivers, Returned
    <3>2. handler'.kind = handler.kind /\ handler'.at = "delivered" /\ handler'.kind = "list"
      BY <1>1, <3>1 DEF HandlerSet, Settled
    <3>3. descriptor' \in Lengths \cup {0}
      BY <3>1 DEF Settled
    <3> QED
      BY <1>5, <2>0, <3>1, <3>2, <3>3
  <2>5. CASE Fetched
    <3>1. /\ Copies(handler.needed, reply.cells.status.length) /\ (fs = "direct" => tasks = {})
          /\ UNCHANGED <<fs, calls, descriptor>>
      BY <2>5 DEF Fetched, Returned
    <3> QED
      BY <1>1, <1>6, <2>0, <3>1, CopiesMade
  <2>6. CASE Synthesize
    <3>1. UNCHANGED <<fs, calls, descriptor>>
      BY <2>6 DEF Synthesize
    <3> QED
      BY <1>6, <2>0, <2>6, <3>1, SynthesizeEnds
  <2> QED
    BY <1>7, <2>1, <2>2, <2>3, <2>4, <2>5, <2>6 DEF QuietStep
<1>8. CASE Probed
  <2>1. /\ UNCHANGED <<fs, calls, descriptor>> /\ handler.at = "probed"
        /\ fs = "direct" => tasks = {}
    BY <1>8, Zenon DEF Probed, Returned
  <2>2. CASE handler'.at = "idle"
    BY <1>6, <1>8, <2>1, <2>2, ProbedEnds
  <2>3. CASE handler'.at = "fetched"
    <3>1. Calls(XattrAnswers(handler.buffer)) /\ handler'.kind = "security"
      BY <1>8, <2>1, <2>3, ProbedEnds DEF Settled
    <3>2. XattrAnswers(handler.buffer) \subseteq Seq(WriteSet)
      BY XattrAnswersTyped DEF Kinds
    <3>3. reply'.number = reply.number + 1
      BY <3>1, <3>2, CallsKinds
    <3>4. \A t \in tasks' : t \in tasks \/ t.number = reply'.number
      BY <3>1, CallsTasks
    <3>5. \A t \in tasks' : t.number >= 1
      BY <1>1, <3>3, <3>4 DEF Settled
    <3>6. fs' = "direct" => \A t \in tasks' : t.number = reply'.number
      BY <2>1, <3>4
    <3> QED
      BY <2>1, <2>3, <3>1, <3>5, <3>6 DEF Settled, Mine
  <2> QED
    BY <1>8, <2>2, <2>3, ProbedEnds
<1> QED
  BY <1>2, <1>3, <1>4, <1>7, <1>8, StepsAre

LEMMA InitSettled == Init => Settled
<1> SUFFICES ASSUME Init PROVE Settled
  OBVIOUS
<1>1. handler.at = "idle" /\ tasks = {} /\ descriptor \in Lengths \cup {0}
  BY DEF Init, Request
<1> QED
  BY <1>1, MaxCallsAssumption DEF Init, Settled

(***************************************************************************)
(* A listing that succeeds has delivered the whole directory.              *)
(***************************************************************************)

\* Success is the last thing that is written, after all entries.
EndsWhole(from, writes) ==
  \A k \in DOMAIN writes :
    writes[k].cells.status.ok => k = Len(writes) /\ from + (k - 1) = Len(Directory)

Whole ==
  fs = "direct" =>
    /\ handler.at \in {"listed", "listedPlus"} =>
         /\ reply.cells.status.ok => tasks = {} /\ Reached = Len(Directory)
         /\ \A t \in tasks : EndsWhole(Reached, t.writes)
    /\ handler.at = "delivered" /\ reply.cells.status.ok /\ handler.whole =>
         offset = Len(Directory)
    /\ Idle("list") /\ handler.answer.ok /\ handler.whole => offset = Len(Directory)

LEMMA StatusWritten ==
  /\ \A status : Status(status).cells.status = status /\ Status(status).grants = {}
                 /\ Status(status).cells.entries = << >>
  /\ \A errno : ~Err(errno).ok /\ Err(errno).errno = errno
  /\ \A name, plus : /\ Entry(name, plus).cells.status = Unanswered
                     /\ Entry(name, plus).cells.entries = <<name>>
  /\ Listed.ok /\ ~Unanswered.ok
BY DEF Status, Entry, EmptyCells, Err, Listed, Holds, Unanswered

LEMMA EntriesEndWhole ==
  ASSUME NEW from \in Nat, NEW n \in from .. Len(Directory),
         NEW plus \in BOOLEAN, NEW status \in StatusSet, status.ok => n = Len(Directory)
  PROVE  /\ EndsWhole(from, EntriesUpTo(from, n, plus))
         /\ EndsWhole(from, EntriesUpTo(from, n, plus) \o <<Status(status)>>)
<1> DEFINE entries == EntriesUpTo(from, n, plus)
           end == <<Status(status)>>
<1>1. Len(Directory) \in Nat
  BY DirectoryAssumption
<1>2. n \in Nat /\ n - from \in Nat
  BY <1>1
<1>3. entries \in Seq(WriteSet) /\ end \in Seq(WriteSet)
  BY <1>1, <1>2, EntriesTyped, AnswersTyped
<1>4. \A k \in 1 .. n - from : ~entries[k].cells.status.ok
  BY StatusWritten DEF EntriesUpTo
<1>5. DOMAIN entries = 1 .. n - from
  BY DEF EntriesUpTo
<1>6. Len(end) = 1 /\ end[1].cells.status = status
  BY StatusWritten
<1> HIDE DEF entries, end
<1>7. Len(entries) = n - from
  BY <1>2, <1>3, <1>5
<1>8. EndsWhole(from, entries)
  BY <1>4, <1>5 DEF EndsWhole
<1>9. /\ Len(entries \o end) = n - from + 1
      /\ DOMAIN (entries \o end) = 1 .. n - from + 1
      /\ \A k \in 1 .. n - from : (entries \o end)[k] = entries[k]
      /\ (entries \o end)[n - from + 1] = end[1]
  <2>1. Len(end) = 1
    BY <1>6
  <2> QED
    BY <1>3, <1>7, <2>1, OneMore
<1>10. EndsWhole(from, entries \o end)
  <2>1. ASSUME NEW k \in 1 .. n - from + 1, (entries \o end)[k].cells.status.ok
        PROVE  k = n - from + 1 /\ from + (k - 1) = Len(Directory)
    <3>1. k = n - from + 1
      BY <1>2, <1>4, <1>9, <2>1
    <3>2. status.ok
      BY <1>6, <1>9, <2>1, <3>1
    <3> QED
      BY <1>1, <1>2, <3>1, <3>2
  <2> QED
    BY <1>9, <2>1 DEF EndsWhole
<1> QED
  BY <1>8, <1>10 DEF entries, end

LEMMA ListAnswersEndWhole ==
  ASSUME NEW from \in Nat, from <= Len(Directory), NEW plus \in BOOLEAN,
         NEW answer \in ListAnswers(from, plus) \cup NotThere
  PROVE  EndsWhole(from, answer)
<1>1. Len(Directory) \in from .. Len(Directory)
  BY DirectoryAssumption
<1>2. Listed \in StatusSet /\ Err("EIO") \in StatusSet /\ ~Err("EIO").ok
  BY StatusesTyped, StatusWritten DEF Errnos
<1>3. CASE answer = EntriesUpTo(from, Len(Directory), plus) \o <<Status(Listed)>>
  BY <1>1, <1>2, <1>3, EntriesEndWhole
<1>4. ASSUME NEW n \in from .. Len(Directory),
             \/ answer = EntriesUpTo(from, n, plus) \o <<Status(Err("EIO"))>>
             \/ answer = EntriesUpTo(from, n, plus)
      PROVE  EndsWhole(from, answer)
  BY <1>2, <1>4, EntriesEndWhole
<1>5. CASE answer = <<Status(Err("ENOSYS"))>>
  <2>1. \A k \in DOMAIN answer : ~answer[k].cells.status.ok
    BY <1>5, StatusWritten
  <2> QED
    BY <2>1 DEF EndsWhole
<1>6. \/ answer = EntriesUpTo(from, Len(Directory), plus) \o <<Status(Listed)>>
      \/ \E n \in from .. Len(Directory) :
           \/ answer = EntriesUpTo(from, n, plus) \o <<Status(Err("EIO"))>>
           \/ answer = EntriesUpTo(from, n, plus)
      \/ answer = <<Status(Err("ENOSYS"))>>
  BY DEF ListAnswers, NotThere
<1> QED
  BY <1>3, <1>4, <1>5, <1>6

\* A write of the listing's own task: one entry, or none and the end.
LEMMA WriteReaches ==
  ASSUME Kinds, InOrder, NEW t \in tasks, Answer(t), t.number = reply.number,
         handler.at \in {"listed", "listedPlus"}
  PROVE  \/ Reached + 1 <= Len(Directory) /\ Reached' = Reached + 1
         \/ Len(t.writes) = 1 /\ Reached' = Reached
<1> DEFINE new == t.writes[1].cells.entries
           entries == reply.cells.entries
<1>1. offset' = offset
  BY Zenon DEF Answer
<1>2. reply'.cells.entries = entries \o new
  <2>1. reply'.cells = Written(reply.cells, t.writes[1].cells)
    BY AnswerKinds, Zenon
  <2> QED
    BY <2>1, WrittenEntries, Zenon
<1>3. /\ DOMAIN t.writes = 1 .. Len(t.writes) /\ Len(t.writes) \in Nat \ {0}
      /\ Directory \in Seq(Range(Directory)) /\ Len(Directory) \in Nat
      /\ entries \in Seq(Range(Directory)) /\ offset \in Nat
      /\ Len(entries) \in Nat
  BY DirectoryAssumption DEF Kinds, TaskSet, CellSet
<1>4. 1 \in DOMAIN t.writes /\ Continues(Reached, t.writes)
  BY <1>3 DEF InOrder
<1>5. CASE Reached + 1 <= Len(Directory) /\ new = <<Directory[Reached + 1]>>
  <2>1. Directory[Reached + 1] \in Range(Directory)
    BY <1>3, <1>5 DEF Range, Reached
  <2>2. new \in Seq(Range(Directory)) /\ Len(new) = 1
    BY <1>5, <2>1
  <2>3. Len(entries \o new) = Len(entries) + 1
    BY <1>3, <2>2, OneLonger
  <2> QED
    BY <1>1, <1>2, <1>3, <1>5, <2>3 DEF Reached
<1>6. CASE Len(t.writes) = 1 /\ new = << >>
  <2>1. entries \o new = entries
    BY <1>3, <1>6, ConcatEmptySeq
  <2> QED
    BY <1>1, <1>2, <1>6, <2>1 DEF Reached
<1> QED
  BY <1>4, <1>5, <1>6, Zenon DEF Continues

LEMMA AnswerWhole ==
  ASSUME Kinds, Settled, InOrder, Whole, NEW t \in tasks, Answer(t)
  PROVE  Whole'
<1>1. UNCHANGED <<fs, handler, offset>>
  BY Zenon DEF Answer
<1>2. /\ Kinds' /\ reply'.number = reply.number
      /\ t.number = reply.number => reply'.cells = Written(reply.cells, t.writes[1].cells)
      /\ \A u \in tasks' :
           \/ u \in tasks /\ u # t
           \/ /\ u.number = t.number
              /\ DOMAIN u.writes = 1 .. Len(t.writes) - 1
              /\ \A k \in DOMAIN u.writes : u.writes[k] = t.writes[k + 1]
  BY AnswerKinds, Zenon
<1>3. /\ DOMAIN t.writes = 1 .. Len(t.writes) /\ Len(t.writes) \in Nat \ {0}
      /\ Len(Directory) \in Nat /\ Reached \in Nat
  BY DirectoryAssumption DEF Kinds, TaskSet, CellSet, Reached
<1>4. CASE fs = "direct" /\ handler.at \in {"listed", "listedPlus"}
  <2>1. t.number = reply.number /\ tasks = {t}
    BY <1>4 DEF Settled, Mine, Kinds
  <2>2. ~reply.cells.status.ok /\ EndsWhole(Reached, t.writes)
    BY <1>4 DEF Whole
  <2>3. \/ Reached + 1 <= Len(Directory) /\ Reached' = Reached + 1
        \/ Len(t.writes) = 1 /\ Reached' = Reached
    BY <1>4, <2>1, WriteReaches, Zenon
  <2>4. \A u \in tasks' :
          /\ DOMAIN u.writes = 1 .. Len(t.writes) - 1
          /\ \A k \in DOMAIN u.writes : u.writes[k] = t.writes[k + 1]
    BY <1>2, <2>1
  <2>5. ASSUME NEW u \in tasks' PROVE EndsWhole(Reached', u.writes) /\ Len(t.writes) # 1
    <3>1. u.writes \in Seq(WriteSet) \ {<< >>}
      BY <1>2 DEF Kinds, TaskSet
    <3> DEFINE rest == u.writes
    <3>2. rest \in Seq(WriteSet) /\ rest # << >>
      BY <3>1
    <3> HIDE DEF rest
    <3>3. Len(rest) \in Nat \ {0} /\ DOMAIN rest = 1 .. Len(rest)
      BY <3>2
    <3>4. /\ DOMAIN rest = 1 .. Len(t.writes) - 1
          /\ \A k \in DOMAIN rest : rest[k] = t.writes[k + 1]
      BY <2>4 DEF rest
    <3>5. Len(rest) = Len(t.writes) - 1 /\ Len(t.writes) # 1
      <4>1. \A m, n \in Nat \ {0} : 1 .. m = 1 .. n - 1 => m = n - 1 /\ n # 1
        OBVIOUS
      <4> QED
        BY <1>3, <3>3, <3>4, <4>1
    <3>6. Reached' = Reached + 1
      BY <2>3, <3>5
    <3>7. ASSUME NEW k \in DOMAIN rest, rest[k].cells.status.ok
          PROVE  k = Len(rest) /\ Reached' + (k - 1) = Len(Directory)
      <4>1. k \in Nat /\ k + 1 \in DOMAIN t.writes /\ t.writes[k + 1].cells.status.ok
        BY <1>3, <3>3, <3>4, <3>5, <3>7
      <4>2. k + 1 = Len(t.writes) /\ Reached + (k + 1 - 1) = Len(Directory)
        BY <2>2, <4>1 DEF EndsWhole
      <4> QED
        BY <1>3, <3>5, <3>6, <4>1, <4>2
    <3> QED
      BY <3>5, <3>7 DEF EndsWhole, rest
  <2>6. ASSUME reply'.cells.status.ok PROVE tasks' = {} /\ Reached' = Len(Directory)
    <3>1. t.writes[1].cells.status.ok
      BY <1>2, <2>1, <2>2, <2>6 DEF Written
    <3>2. 1 = Len(t.writes) /\ Reached + (1 - 1) = Len(Directory)
      <4>1. 1 \in DOMAIN t.writes
        BY <1>3
      <4> QED
        BY <2>2, <3>1, <4>1, Zenon DEF EndsWhole
    <3>3. tasks' = {}
      BY <2>5, <3>2
    <3> QED
      BY <1>3, <2>3, <3>2, <3>3
  <2> QED
    BY <1>1, <1>4, <2>5, <2>6, Zenon DEF Whole, EndsWhole, Idle
<1>5. CASE ~(fs = "direct" /\ handler.at \in {"listed", "listedPlus"})
  <2>1. fs = "direct" => handler.at # "delivered"
    BY DEF Settled
  <2> QED
    BY <1>1, <1>5, <2>1 DEF Whole, Idle
<1> QED
  BY <1>4, <1>5

\* A listing that is asked for.
LEMMA AskedWhole ==
  ASSUME Kinds, Settled, InOrder, NEW plus \in BOOLEAN, NEW answers,
         answers \subseteq ListAnswers(offset, plus) \cup NotThere,
         fs = "direct" => tasks = {},
         Calls(answers), UNCHANGED <<fs, offset>>, handler'.at \in {"listed", "listedPlus"}
  PROVE  Whole'
<1>1. offset \in Nat /\ offset <= Len(Directory)
  BY DEF Kinds, InOrder
<1>2. answers \subseteq Seq(WriteSet)
  BY <1>1, ListAnswersTyped, NotThereTyped
<1>3. /\ reply'.cells = EmptyCells
      /\ \A t \in tasks' : t.number = reply'.number => t.writes \in answers
  BY <1>2, CallsKinds
<1>4. reply'.cells.entries = << >> /\ ~reply'.cells.status.ok
  BY <1>3, StatusWritten DEF EmptyCells
<1>5. Reached' = offset
  BY <1>1, <1>4 DEF Reached
<1>6. ASSUME fs = "direct", NEW t \in tasks' PROVE EndsWhole(offset, t.writes)
  <2>1. t.writes \in ListAnswers(offset, plus) \cup NotThere
    BY <1>3, <1>6, CallsTasks
  <2> QED
    BY <1>1, <2>1, ListAnswersEndWhole
<1> QED
  BY <1>4, <1>5, <1>6, Zenon DEF Whole, EndsWhole, Idle

LEMMA WholeStep ==
  ASSUME Kinds, Settled, InOrder, Whole, [Next]_vars
  PROVE  Whole'
<1>1. handler \in HandlerSet
  BY DEF Kinds
<1>2. CASE UNCHANGED vars
  BY <1>2 DEF vars, Whole, Idle, EndsWhole, Reached
<1>3. ASSUME NEW t \in tasks, Answer(t) PROVE Whole'
  BY <1>3, AnswerWhole
\* A step of another kind of request.
<1>4. ASSUME handler'.at \notin {"listed", "listedPlus", "delivered"}, handler'.kind # "list"
      PROVE  Whole'
  BY <1>4 DEF Whole, Idle
<1>5. CASE AsksStep
  <2>0. handler.at = "idle" /\ fs = "direct" => tasks = {}
    BY DEF Settled
  <2>1. ASSUME NEW name \in Children, StartLookup(name) PROVE Whole'
    <3>1. handler'.at = "asked" /\ handler'.kind = "lookup"
      BY <2>1 DEF StartLookup, Starts, Request
    <3> QED
      BY <1>4, <3>1
  <2>2. CASE StartList
    <3>1. /\ Starts(Request("list", "listed")) /\ Calls(ListAnswers(offset, FALSE))
      BY <2>2 DEF StartList
    <3>2. handler'.at = "listed"
      BY <3>1 DEF Starts, Request
    <3> QED
      BY <2>0, <3>1, <3>2, StartsAt, AskedWhole
  <2>3. CASE StartFind
    <3> DEFINE answers == IF fs = "tokio" THEN NotThere ELSE ListAnswers(offset, TRUE) \cup NotThere
    <3>1. Starts(Request("list", "listedPlus")) /\ Calls(answers)
      BY <2>3, Zenon DEF StartFind
    <3>2. answers \subseteq ListAnswers(offset, TRUE) \cup NotThere
      OBVIOUS
    <3> HIDE DEF answers
    <3>3. handler'.at = "listedPlus"
      BY <3>1 DEF Starts, Request
    <3> QED
      BY <2>0, <3>1, <3>2, <3>3, StartsAt, AskedWhole
  <2>4. CASE FallBack
    <3>1. /\ Calls(ListAnswers(offset, FALSE)) /\ UNCHANGED <<fs, offset>>
          /\ fs = "direct" => tasks = {}
          /\ handler' = [handler EXCEPT !.at = "listed"]
      BY <2>4 DEF FallBack, Returned
    <3>2. handler'.at = "listed"
      BY <1>1, <3>1 DEF HandlerSet
    <3> QED
      BY <3>1, <3>2, AskedWhole
  <2>5. ASSUME NEW buffer \in Buffers, StartSecurity(buffer) PROVE Whole'
    <3>1. handler'.at = "probed" /\ handler'.kind = "security"
      BY <2>5 DEF StartSecurity, Starts, Request
    <3> QED
      BY <1>4, <3>1
  <2> QED
    BY <1>5, <2>1, <2>2, <2>3, <2>4, <2>5 DEF AsksStep
<1>6. CASE QuietStep
  <2>1. CASE Change
    <3>1. handler'.kind = handler.kind /\ handler'.at = handler.at /\ handler.at \in {"probed", "fetched"}
      BY <1>1, <2>1 DEF Change, HandlerSet
    <3> QED
      BY <1>4, <3>1 DEF Settled
  <2>2. CASE EndLookup \/ SecurityFails
    <3>1. /\ handler' = Answers(Seen(reply.cells.status))
          /\ handler.at \in {"asked", "probed", "fetched"}
      BY <2>2, Zenon DEF EndLookup, SecurityFails, Returned
    <3> QED
      BY <1>1, <1>4, <3>1, AnswerMade DEF Settled
  <2>3. CASE EndList
    <3>1. /\ handler' = Answers(Seen(reply.cells.status)) /\ handler.at = "delivered"
          /\ UNCHANGED <<fs, offset>>
      BY <2>3, Zenon DEF EndList
    <3>2. /\ handler'.at = "idle" /\ handler'.whole = handler.whole
          /\ handler'.answer = Seen(reply.cells.status)
      BY <1>1, <3>1, AnswerMade
    <3>3. Seen(reply.cells.status).ok => reply.cells.status.ok
      BY DEF Seen, Err
    <3> QED
      BY <3>1, <3>2, <3>3 DEF Whole, Idle
  <2>4. CASE Close
    <3>1. handler'.kind = "none" /\ handler'.at = "idle"
      BY <2>4 DEF Close, Request
    <3> QED
      BY <1>4, <3>1
  <2>5. ASSUME NEW n \in 0 .. Len(Directory), Emit(n) \/ EmitPlus(n) PROVE Whole'
    <3>1. /\ handler' = [handler EXCEPT !.at = "delivered", !.whole = n = Len(reply.cells.entries)]
          /\ handler.at \in {"listed", "listedPlus"} /\ offset' = offset + n
          /\ UNCHANGED <<fs, reply>>
      BY <2>5, Zenon DEF Emit, EmitPlus, Delivers, Returned, Advanced
    <3>2. handler'.at = "delivered" /\ (handler'.whole => n = Len(reply.cells.entries))
      BY <1>1, <3>1 DEF HandlerSet
    <3>3. fs = "direct" /\ reply.cells.status.ok => Reached = Len(Directory)
      BY <3>1 DEF Whole
    <3> QED
      BY <3>1, <3>2, <3>3 DEF Whole, Idle, Reached
  <2>6. CASE Fetched
    <3>1. Copies(handler.needed, reply.cells.status.length) /\ handler.at = "fetched"
      BY <2>6 DEF Fetched, Returned
    <3> QED
      BY <1>1, <1>4, <3>1, CopiesMade DEF Settled
  <2>7. CASE Synthesize
    BY <1>4, <2>7, SynthesizeEnds DEF Settled
  <2> QED
    BY <1>6, <2>1, <2>2, <2>3, <2>4, <2>5, <2>6, <2>7 DEF QuietStep
<1>7. CASE Probed
  <2>1. handler.at = "probed"
    BY <1>7, Zenon DEF Probed, Returned
  <2> QED
    BY <1>4, <1>7, <2>1, ProbedEnds DEF Settled
<1> QED
  BY <1>2, <1>3, <1>5, <1>6, <1>7, StepsAre

\* A file system that answers in the callback: a listing that is answered with
\* success, and of which Dokan refused nothing, has delivered every entry, over
\* the calls that went before (dispatch.rs:113, directory_routes.rs:39).
THEOREM RepliesListingsComplete == Spec => []ListingsComplete
<1>1. Init => Whole
  BY DEF Init, Whole, Idle, Request
<1>2. ASSUME InOrder, Whole PROVE ListingsComplete
  <2>1. SubSeq(Directory, 1, Len(Directory)) = Directory
    BY DirectoryAssumption, SubSeqFull
  <2> QED
    BY <1>2, <2>1 DEF InOrder, DeliveredInOrder, Whole, ListingsComplete
<1> QED
  BY <1>1, <1>2, InitKinds, InitSettled, InitInOrder, KindsStep, SettledStep, InOrderStep,
     WholeStep, PTL DEF Spec

(***************************************************************************)
(* The resolver knows of the lookups that were granted.                    *)
(***************************************************************************)

\* A write brings what it grants: a lookup its answer, a listing its entries.
Grants(t) ==
  /\ handler.at = "asked" =>
       /\ ~reply.cells.status.ok /\ Len(t.writes) = 1
       /\ t.writes[1].grants = IF t.writes[1].cells.status.ok THEN {handler.asked} ELSE {}
  /\ handler.at = "listedPlus" =>
       /\ reply.cells.status # Err("ENOSYS")
       /\ \A k \in DOMAIN t.writes :
            /\ t.writes[k].grants = Range(t.writes[k].cells.entries) \ Dots
            /\ t.writes[k].cells.status = Err("ENOSYS") =>
                 Len(t.writes) = 1 /\ reply.cells.entries = << >> /\ t.writes[k].cells.entries = << >>
  /\ handler.at \in {"listed", "probed", "fetched"} =>
       \A k \in DOMAIN t.writes : t.writes[k].grants = {}

\* A lookup of the name was granted in the reply at hand, and is to be known.
Awaited(name) ==
  \/ handler.at = "asked" /\ reply.cells.status.ok /\ reply.cells.status.name = name
  \/ handler.at = "listedPlus" /\ name \in Range(reply.cells.entries)

Balance(name) ==
  LET due == IF Awaited(name) THEN 1 ELSE 0 IN
  /\ known[name] + due <= granted[name]
  /\ fs = "direct" /\ ~refused => known[name] + due = granted[name]

Kept ==
  /\ granted \in [Children -> Nat] /\ known \in [Range(Directory) -> Nat]
  /\ \A t \in tasks : Mine(t) => Grants(t)
  /\ handler.at = "listedPlus" /\ reply.cells.status = Err("ENOSYS") =>
       reply.cells.entries = << >>
  /\ \A name \in Children : Balance(name)

LEMMA WritesGrant ==
  /\ \A status : Status(status).grants = {} /\ Status(status).cells.status = status
                 /\ Status(status).cells.entries = << >>
  /\ \A name : Grant(name).grants = {name} /\ Grant(name).cells.status.ok
  /\ \A n : Size(n).grants = {}
  /\ \A name, plus : Entry(name, plus).grants = IF plus THEN {name} \ Dots ELSE {}
BY DEF Status, Grant, Found, Size, Entry, EmptyCells

LEMMA LookupAnswersGrant ==
  ASSUME NEW name, NEW answer \in LookupAnswers(name), answer # << >>
  PROVE  /\ Len(answer) = 1
         /\ answer[1].grants = IF answer[1].cells.status.ok THEN {name} ELSE {}
<1>1. ~Err("ENOENT").ok
  BY StatusWritten
<1>2. CASE answer = <<Grant(name)>>
  BY <1>2, WritesGrant
<1>3. CASE answer = <<Status(Err("ENOENT"))>>
  BY <1>1, <1>3, WritesGrant
<1> QED
  BY <1>2, <1>3 DEF LookupAnswers

LEMMA XattrAnswersGrant ==
  ASSUME NEW size, NEW answer \in XattrAnswers(size), NEW k \in DOMAIN answer
  PROVE  answer[k].grants = {}
<1>1. \/ \E status : answer = <<Status(status)>>
      \/ answer = << >>
      \/ answer = <<Size(descriptor), Status(Holds(0))>>
  BY DEF XattrAnswers
<1> QED
  BY <1>1, WritesGrant

LEMMA RangeOfOne ==
  /\ \A a : Range(<<a>>) = {a}
  /\ Range(<< >>) = {}
BY DEF Range

\* An entry of readdirplus that is no dot grants a lookup; readdir grants none.
ListingGrants(writes, plus) ==
  \A k \in DOMAIN writes :
    /\ writes[k].grants = IF plus THEN Range(writes[k].cells.entries) \ Dots ELSE {}
    /\ writes[k].cells.status # Err("ENOSYS")

LEMMA EntriesGrant ==
  ASSUME NEW from \in Nat, NEW n \in from .. Len(Directory), NEW plus \in BOOLEAN,
         NEW status \in StatusSet, status # Err("ENOSYS")
  PROVE  /\ ListingGrants(EntriesUpTo(from, n, plus), plus)
         /\ ListingGrants(EntriesUpTo(from, n, plus) \o <<Status(status)>>, plus)
<1> DEFINE entries == EntriesUpTo(from, n, plus)
           end == <<Status(status)>>
<1>1. Len(Directory) \in Nat
  BY DirectoryAssumption
<1>2. n \in Nat /\ n - from \in Nat
  BY <1>1
<1>3. entries \in Seq(WriteSet) /\ end \in Seq(WriteSet)
  BY <1>1, <1>2, EntriesTyped, AnswersTyped
<1>4. Unanswered # Err("ENOSYS")
  BY DEF Unanswered, Err
<1>5. ASSUME NEW i \in 1 .. n - from
      PROVE  /\ entries[i].grants = IF plus THEN Range(entries[i].cells.entries) \ Dots ELSE {}
             /\ entries[i].cells.status # Err("ENOSYS")
  <2>1. PICK name : entries[i] = Entry(name, plus)
    BY DEF EntriesUpTo
  <2>2. entries[i].grants = IF plus THEN {name} \ Dots ELSE {}
    BY <2>1 DEF Entry
  <2>3. entries[i].cells.status = Unanswered /\ entries[i].cells.entries = <<name>>
    BY <2>1, StatusWritten
  <2>4. Range(<<name>>) = {name}
    BY RangeOfOne
  <2> QED
    BY <1>4, <2>2, <2>3, <2>4, Zenon
<1>6. DOMAIN entries = 1 .. n - from
  BY DEF EntriesUpTo
<1>7. Len(end) = 1 /\ end[1] = Status(status)
  OBVIOUS
<1> HIDE DEF entries, end
<1>8. Len(entries) = n - from
  BY <1>2, <1>3, <1>6
<1>9. /\ DOMAIN (entries \o end) = 1 .. n - from + 1
      /\ \A i \in 1 .. n - from : (entries \o end)[i] = entries[i]
      /\ (entries \o end)[n - from + 1] = end[1]
  BY <1>3, <1>7, <1>8, OneMore
<1>10. /\ end[1].grants = {} /\ end[1].cells.status = status
       /\ Range(end[1].cells.entries) = {}
  <2>1. /\ end[1].grants = {} /\ end[1].cells.status = status
        /\ end[1].cells.entries = << >>
    <3>1. LET w == Status(status) IN
          w.grants = {} /\ w.cells.status = status /\ w.cells.entries = << >>
      BY WritesGrant
    <3> QED
      BY <1>7, <3>1
  <2> QED
    BY <2>1, RangeOfOne, Zenon
<1>11. ListingGrants(entries, plus)
  BY <1>5, <1>6, Zenon DEF ListingGrants
<1>12. ASSUME NEW i \in DOMAIN (entries \o end)
       PROVE  /\ (entries \o end)[i].grants
                    = IF plus THEN Range((entries \o end)[i].cells.entries) \ Dots ELSE {}
              /\ (entries \o end)[i].cells.status # Err("ENOSYS")
  <2>1. CASE i \in 1 .. n - from
    BY <1>5, <1>9, <2>1
  <2>2. CASE i \notin 1 .. n - from
    <3>1. i = n - from + 1
      BY <1>2, <1>9, <1>12, <2>2
    <3>2. (entries \o end)[i] = end[1]
      BY <1>9, <3>1
    <3>3. {} = IF plus THEN {} \ Dots ELSE {}
      OBVIOUS
    <3> QED
      BY <1>10, <3>2, <3>3
  <2> QED
    BY <2>1, <2>2
<1> QED
  BY <1>11, <1>12, Zenon DEF ListingGrants, entries, end

LEMMA ListAnswersGrant ==
  ASSUME NEW from \in Nat, from <= Len(Directory), NEW plus \in BOOLEAN,
         NEW answer \in ListAnswers(from, plus)
  PROVE  ListingGrants(answer, plus)
<1>1. Len(Directory) \in from .. Len(Directory)
  BY DirectoryAssumption
<1>2. /\ Listed \in StatusSet /\ Err("EIO") \in StatusSet
      /\ Listed # Err("ENOSYS") /\ Err("EIO") # Err("ENOSYS")
  BY StatusesTyped, StatusWritten DEF Errnos
<1>3. \/ answer = EntriesUpTo(from, Len(Directory), plus) \o <<Status(Listed)>>
      \/ \E n \in from .. Len(Directory) :
           \/ answer = EntriesUpTo(from, n, plus) \o <<Status(Err("EIO"))>>
           \/ answer = EntriesUpTo(from, n, plus)
  BY DEF ListAnswers
<1> QED
  BY <1>1, <1>2, <1>3, EntriesGrant

LEMMA NotThereGrants ==
  ASSUME NEW answer \in NotThere
  PROVE  /\ Len(answer) = 1 /\ DOMAIN answer = {1}
         /\ answer[1].grants = {} /\ answer[1].cells.entries = << >>
<1>1. answer = <<Status(Err("ENOSYS"))>>
  BY DEF NotThere
<1> QED
  BY <1>1, WritesGrant

LEMMA GrantsCounted ==
  ASSUME Kinds, Kept, NEW t \in tasks, Answer(t)
  PROVE  /\ granted' \in [Children -> Nat]
         /\ \A name \in Children :
              granted'[name] = IF name \in t.writes[1].grants THEN granted[name] + 1
                                                              ELSE granted[name]
<1> DEFINE w == Head(t.writes)
<1>1. w = t.writes[1]
  <2>1. t.writes \in Seq(WriteSet) /\ t.writes # << >>
    BY DEF Kinds, TaskSet
  <2> QED
    BY <2>1, FirstAndRest
<1>2. granted' = [name \in Children |-> granted[name] + Cardinality({name} \cap w.grants)]
  BY Zenon DEF Answer
<1> HIDE DEF w
<1>3. \A name : Cardinality({name} \cap w.grants) = IF name \in w.grants THEN 1 ELSE 0
  <2>1. ASSUME NEW name, name \in w.grants PROVE Cardinality({name} \cap w.grants) = 1
    <3>1. {name} \cap w.grants = {name}
      BY <2>1
    <3> QED
      BY <3>1, FS_Singleton
  <2>2. ASSUME NEW name, name \notin w.grants PROVE Cardinality({name} \cap w.grants) = 0
    <3>1. {name} \cap w.grants = {}
      BY <2>2
    <3> QED
      BY <3>1, FS_EmptySet
  <2> QED
    BY <2>1, <2>2
<1>4. granted \in [Children -> Nat]
  BY DEF Kept
<1>5. ASSUME NEW name \in Children
      PROVE  granted'[name] = IF name \in w.grants THEN granted[name] + 1 ELSE granted[name]
  <2>1. PICK one : one = Cardinality({name} \cap w.grants)
    OBVIOUS
  <2>2. granted'[name] = granted[name] + one
    BY <1>2, <2>1
  <2>3. one = IF name \in w.grants THEN 1 ELSE 0
    BY <1>3, <2>1, Zenon
  <2>4. granted[name] \in Nat
    BY <1>4
  <2> QED
    BY <2>2, <2>3, <2>4
<1>6. \A name \in Children : granted'[name] \in Nat
  BY <1>4, <1>5
<1>7. granted' \in [Children -> Nat]
  BY <1>2, <1>6
<1> QED
  BY <1>1, <1>5, <1>7

\* A step that answers nothing and remembers nothing.
LEMMA KeptAsItWas ==
  ASSUME Kept, UNCHANGED <<fs, granted, known, refused>>,
         \A name \in Children : ~Awaited(name),
         handler'.at \in {"asked", "listedPlus"} =>
           ~reply'.cells.status.ok /\ reply'.cells.entries = << >>,
         \A t \in tasks' : Mine(t)' => Grants(t)'
  PROVE  Kept'
<1>1. \A name \in Children : ~Awaited(name)'
  BY RangeOfOne DEF Awaited
<1>2. \A name \in Children : Balance(name)'
  BY <1>1 DEF Balance, Kept
<1> QED
  BY <1>2 DEF Kept

\* A write that is not to the reply at hand, or to one nobody waits for.
LEMMA AnswerToOthers ==
  ASSUME Kinds, Settled, Kept, NEW t \in tasks, Answer(t),
         t.number # reply.number \/ handler.at \in {"idle", "delivered"}
  PROVE  Kept'
<1>1. UNCHANGED <<fs, handler, known, refused>>
  BY Zenon DEF Answer
<1>2. /\ reply'.number = reply.number
      /\ t.number # reply.number => reply' = reply
      /\ \A u \in tasks' : u \in tasks \/ u.number = t.number
  BY AnswerKinds, Zenon
<1>3. /\ granted' \in [Children -> Nat]
      /\ \A name \in Children :
           granted'[name] = IF name \in t.writes[1].grants THEN granted[name] + 1
                                                           ELSE granted[name]
  BY GrantsCounted
<1>4. fs # "direct"
  BY DEF Settled, Mine
<1>5. \A name \in Children : Awaited(name)' <=> Awaited(name)
  BY <1>1, <1>2 DEF Awaited
<1>6. ASSUME NEW name \in Children PROVE Balance(name)'
  <2>1. known[name] \in Nat /\ granted[name] \in Nat
    BY DEF Kept, Children
  <2>2. granted'[name] >= granted[name] /\ granted'[name] \in Nat
    BY <1>3, <2>1
  <2>3. Balance(name) /\ (Awaited(name)' <=> Awaited(name))
    BY <1>5 DEF Kept
  <2>4. known' = known /\ fs' = fs
    BY <1>1
  <2> QED
    BY <1>4, <2>1, <2>2, <2>3, <2>4 DEF Balance
<1>7. \A u \in tasks' : Mine(u)' => Grants(u)'
  <2>1. CASE t.number # reply.number
    <3>1. \A u \in tasks' : Mine(u)' => u \in tasks /\ Mine(u)
      BY <1>2, <2>1 DEF Mine
    <3>2. reply' = reply /\ handler' = handler
      BY <1>1, <1>2, <2>1
    <3>3. ASSUME NEW u \in tasks', Mine(u)' PROVE Grants(u)'
      <4>1. Grants(u)
        BY <3>1, <3>3 DEF Kept
      <4> QED
        BY <3>2, <4>1 DEF Grants
    <3> QED
      BY <3>3
  <2>2. CASE handler.at \in {"idle", "delivered"}
    BY <1>1, <2>2 DEF Grants
  <2> QED
    BY <2>1, <2>2
<1>8. handler'.at = "listedPlus" /\ reply'.cells.status = Err("ENOSYS") =>
        reply'.cells.entries = << >>
  BY <1>1, <1>2 DEF Kept
<1> QED
  BY <1>1, <1>3, <1>6, <1>7, <1>8 DEF Kept

\* The answer to a lookup.
LEMMA AnswerToLookup ==
  ASSUME Kinds, Own, Kept, NEW t \in tasks, Answer(t), t.number = reply.number, handler.at = "asked"
  PROVE  Kept'
<1>1. UNCHANGED <<fs, handler, known, refused>>
  BY Zenon DEF Answer
<1>2. /\ reply'.number = reply.number
      /\ reply'.cells = Written(reply.cells, t.writes[1].cells)
      /\ \A u \in tasks' :
           \/ u \in tasks /\ u # t
           \/ u.number = t.number /\ DOMAIN u.writes = 1 .. Len(t.writes) - 1
  BY AnswerKinds, Zenon
<1>3. /\ granted' \in [Children -> Nat]
      /\ \A name \in Children :
           granted'[name] = IF name \in t.writes[1].grants THEN granted[name] + 1
                                                           ELSE granted[name]
  BY GrantsCounted
<1>4. /\ ~reply.cells.status.ok /\ Len(t.writes) = 1
      /\ t.writes[1].grants = IF t.writes[1].cells.status.ok THEN {handler.asked} ELSE {}
  BY DEF Kept, Grants, Mine
<1>5. 1 \in DOMAIN t.writes
  BY <1>4 DEF Kinds, TaskSet
<1>6. t.writes[1].cells.status.ok => t.writes[1].cells.status.name = handler.asked
  BY <1>5 DEF Own, OnlyAsked
<1>7. \A u \in tasks' : u.number # reply'.number
  <2>1. ASSUME NEW u \in tasks', u.number = reply'.number PROVE FALSE
    <3>1. u \in tasks => u = t
      BY <1>2, <2>1 DEF Kinds
    <3>2. DOMAIN u.writes = 1 .. 0
      BY <1>2, <1>4, <2>1, <3>1
    <3>3. Kinds'
      BY AnswerKinds, Zenon
    <3>4. u.writes \in Seq(WriteSet) /\ u.writes # << >>
      BY <2>1, <3>3 DEF Kinds, TaskSet
    <3> DEFINE rest == u.writes
    <3> HIDE DEF rest
    <3>5. rest \in Seq(WriteSet) /\ rest # << >> /\ DOMAIN rest = 1 .. 0
      BY <3>2, <3>4 DEF rest
    <3>6. 1 \in DOMAIN rest
      BY <3>5, FirstAndRest
    <3> QED
      BY <3>5, <3>6
  <2> QED
    BY <2>1
<1>8. ASSUME NEW name \in Children PROVE Balance(name)'
  <2>1. known[name] \in Nat /\ granted[name] \in Nat
    BY DEF Kept, Children
  <2>2. ~Awaited(name)
    BY <1>4 DEF Awaited
  <2>3. Awaited(name)' <=> name \in t.writes[1].grants
    <3>1. CASE t.writes[1].cells.status.ok
      <4>1. reply'.cells.status = t.writes[1].cells.status
        BY <1>2, <3>1, StatusWritten DEF Written
      <4> QED
        BY <1>1, <1>4, <1>6, <3>1, <4>1 DEF Awaited
    <3>2. CASE ~t.writes[1].cells.status.ok
      <4>1. ~reply'.cells.status.ok
        BY <1>2, <1>4, <3>2 DEF Written
      <4> QED
        BY <1>1, <1>4, <3>2, <4>1 DEF Awaited
    <3> QED
      BY <3>1, <3>2
  <2>4. Balance(name) /\ known' = known /\ fs' = fs /\ refused' = refused
    BY <1>1 DEF Kept
  <2>5. granted'[name] = granted[name] + (IF Awaited(name)' THEN 1 ELSE 0)
    BY <1>3, <2>1, <2>3
  <2> QED
    BY <2>1, <2>2, <2>4, <2>5 DEF Balance
<1> QED
  BY <1>1, <1>3, <1>7, <1>8 DEF Kept, Mine

\* An entry of a listing that grants a lookup of it: the name did not come
\* before.
LEMMA AnswerToListing ==
  ASSUME Kinds, InOrder, Kept, NEW t \in tasks, Answer(t), t.number = reply.number,
         handler.at = "listedPlus"
  PROVE  Kept'
<1> DEFINE new == t.writes[1].cells.entries
           entries == reply.cells.entries
<1>1. UNCHANGED <<fs, handler, known, refused>>
  BY Zenon DEF Answer
<1>2. /\ Kinds' /\ reply'.number = reply.number
      /\ reply'.cells = Written(reply.cells, t.writes[1].cells)
      /\ \A u \in tasks' :
           \/ u \in tasks /\ u # t
           \/ /\ u.number = t.number
              /\ DOMAIN u.writes = 1 .. Len(t.writes) - 1
              /\ \A k \in DOMAIN u.writes : u.writes[k] = t.writes[k + 1]
  BY AnswerKinds, Zenon
<1>3. /\ granted' \in [Children -> Nat]
      /\ \A name \in Children :
           granted'[name] = IF name \in t.writes[1].grants THEN granted[name] + 1
                                                           ELSE granted[name]
  BY GrantsCounted
<1>4. /\ reply.cells.status # Err("ENOSYS")
      /\ \A k \in DOMAIN t.writes :
           /\ t.writes[k].grants = Range(t.writes[k].cells.entries) \ Dots
           /\ t.writes[k].cells.status = Err("ENOSYS") =>
                Len(t.writes) = 1 /\ entries = << >> /\ t.writes[k].cells.entries = << >>
  BY DEF Kept, Grants, Mine
<1>5. /\ DOMAIN t.writes = 1 .. Len(t.writes) /\ Len(t.writes) \in Nat \ {0}
      /\ 1 \in DOMAIN t.writes
      /\ entries \in Seq(Range(Directory)) /\ offset \in Nat /\ Len(entries) \in Nat
      /\ Directory \in Seq(Range(Directory)) /\ Len(Directory) \in Nat
  BY DirectoryAssumption DEF Kinds, TaskSet, CellSet
<1>6. reply'.cells.entries = entries \o new
  <2>1. reply'.cells = Written(reply.cells, t.writes[1].cells)
    BY <1>2, Zenon
  <2> QED
    BY <2>1, WrittenEntries, Zenon
<1>7. /\ Reached <= Len(Directory) /\ entries = SubSeq(Directory, offset + 1, Reached)
      /\ Continues(Reached, t.writes)
  BY DEF InOrder
<1>8. /\ Range(entries \o new) = Range(entries) \cup Range(new)
      /\ Range(new) \cap Range(entries) = {}
  <2>1. CASE Reached + 1 <= Len(Directory) /\ new = <<Directory[Reached + 1]>>
    <3>1. Directory[Reached + 1] \in Range(Directory)
      BY <1>5, <2>1 DEF Range, Reached
    <3>2. new \in Seq(Range(Directory)) /\ Len(new) = 1 /\ new[1] = Directory[Reached + 1]
      BY <2>1, <3>1
    <3> HIDE DEF entries, new
    <3>3. /\ DOMAIN (entries \o new) = 1 .. Len(entries) + 1
          /\ \A k \in 1 .. Len(entries) : (entries \o new)[k] = entries[k]
          /\ (entries \o new)[Len(entries) + 1] = new[1]
      BY <1>5, <3>2, OneMore
    <3>4. DOMAIN entries = 1 .. Len(entries) /\ DOMAIN new = {1}
      <4>1. DOMAIN entries = 1 .. Len(entries)
        BY <1>5
      <4>2. \A a : DOMAIN <<a>> = {1}
        OBVIOUS
      <4>3. DOMAIN new = {1}
        BY <2>1, <4>2, Zenon
      <4> QED
        BY <4>1, <4>3
    <3> DEFINE both == entries \o new
    <3> HIDE DEF both
    <3>5. Range(both) = Range(entries) \cup Range(new)
      <4>1. DOMAIN both = DOMAIN entries \cup {Len(entries) + 1}
        BY <1>5, <3>3, <3>4 DEF both
      <4>2. \A k \in DOMAIN entries : both[k] = entries[k]
        BY <3>3, <3>4 DEF both
      <4>3. both[Len(entries) + 1] = new[1]
        BY <3>3 DEF both
      <4> QED
        BY <3>4, <4>1, <4>2, <4>3 DEF Range
    <3>6. ASSUME NEW k \in DOMAIN entries, entries[k] = new[1] PROVE FALSE
      <4>1. k \in 1 .. Len(entries) /\ k \in Nat
        BY <1>5, <3>4, <3>6
      <4>2. entries[k] = Directory[offset + k] /\ offset + k \in DOMAIN Directory
        <5>1. Reached = offset + Len(entries)
          BY DEF Reached, entries
        <5>2. Reached - (offset + 1) + 1 = Len(entries) /\ offset + 1 + k - 1 = offset + k
          BY <1>5, <4>1, <5>1
        <5>3. SubSeq(Directory, offset + 1, Reached)[k] = Directory[offset + 1 + k - 1]
          <6>1. k \in 1 .. Reached - (offset + 1) + 1
            BY <4>1, <5>2
          <6>2. /\ offset + 1 \in 1 .. Len(Directory) + 1
                /\ Reached \in offset + 1 - 1 .. Len(Directory)
            BY <1>5, <1>7, <5>1
          <6> QED
            BY <1>5, <6>1, <6>2, SubSeqProperties
        <5>4. offset + k \in 1 .. Len(Directory) /\ DOMAIN Directory = 1 .. Len(Directory)
          BY <1>5, <1>7, <4>1, <5>1
        <5> QED
          BY <1>7, <5>2, <5>3, <5>4
      <4>3. Reached + 1 \in DOMAIN Directory /\ Reached + 1 # offset + k
        BY <1>5, <2>1, <4>1 DEF Reached, entries
      <4> QED
        BY <3>2, <3>6, <4>2, <4>3, DirectoryAssumption
    <3>7. Range(new) \cap Range(entries) = {}
      BY <3>4, <3>6 DEF Range
    <3> QED
      BY <3>5, <3>7 DEF both
  <2>2. CASE new = << >>
    <3>1. entries \o new = entries /\ Range(new) = {}
      BY <1>5, <2>2, ConcatEmptySeq, RangeOfOne
    <3> QED
      BY <3>1
  <2>3. \/ Reached + 1 <= Len(Directory) /\ new = <<Directory[Reached + 1]>>
        \/ new = << >>
    BY <1>5, <1>7, Zenon DEF Continues
  <2> QED
    BY <2>1, <2>2, <2>3
<1>9. t.writes[1].grants = Range(new) \ Dots
  BY <1>4, <1>5
<1> HIDE DEF new, entries
<1>10. ASSUME NEW name \in Children PROVE Balance(name)'
  <2>1. known[name] \in Nat /\ granted[name] \in Nat /\ name \notin Dots
    BY DEF Kept, Children
  <2>2. Awaited(name) <=> name \in Range(entries)
    BY DEF Awaited, entries
  <2>3. Awaited(name)' <=> name \in Range(entries) \/ name \in Range(new)
    BY <1>1, <1>6, <1>8 DEF Awaited
  <2>4. Balance(name) /\ known' = known /\ fs' = fs /\ refused' = refused
    BY <1>1 DEF Kept
  <2>5. granted'[name] = IF name \in Range(new) THEN granted[name] + 1 ELSE granted[name]
    BY <1>3, <1>9, <2>1
  <2>6. name \in Range(new) => name \notin Range(entries)
    BY <1>8
  <2> QED
    BY <2>1, <2>2, <2>3, <2>4, <2>5, <2>6 DEF Balance
<1>11. reply'.cells.status = Err("ENOSYS") =>
         Len(t.writes) = 1 /\ reply'.cells.entries = << >>
  <2>1. ASSUME reply'.cells.status = Err("ENOSYS")
        PROVE  Len(t.writes) = 1 /\ entries = << >> /\ new = << >>
    <3>1. t.writes[1].cells.status = Err("ENOSYS")
      BY <1>2, <1>4, <2>1 DEF Written
    <3> QED
      BY <1>4, <1>5, <3>1 DEF new
  <2> QED
    BY <1>6, <2>1
<1>12. ASSUME NEW u \in tasks', Mine(u)' PROVE Grants(u)'
  <2>1. u.number = reply.number
    BY <1>2, <1>12 DEF Mine
  <2>2. /\ DOMAIN u.writes = 1 .. Len(t.writes) - 1
        /\ \A k \in DOMAIN u.writes : u.writes[k] = t.writes[k + 1]
    BY <1>2, <2>1 DEF Kinds
  <2>3. u.writes \in Seq(WriteSet) /\ u.writes # << >>
    BY <1>2 DEF Kinds, TaskSet
  <2>4. Len(t.writes) # 1
    <3>1. PICK w \in Seq(WriteSet) : w = u.writes /\ w # << >>
      BY <2>3
    <3>2. Len(w) # 0 /\ Len(w) \in Nat /\ DOMAIN w = 1 .. Len(w)
      BY <3>1, EmptySeq
    <3>3. 1 .. Len(t.writes) - 1 # {}
      BY <2>2, <3>1, <3>2
    <3>4. 1 .. 1 - 1 = {}
      OBVIOUS
    <3> QED
      BY <3>3, <3>4, Zenon
  <2>5. \A k \in DOMAIN u.writes : k + 1 \in DOMAIN t.writes
    BY <1>5, <2>2
  <2>6. \A k \in DOMAIN u.writes :
          /\ u.writes[k].grants = Range(u.writes[k].cells.entries) \ Dots
          /\ u.writes[k].cells.status # Err("ENOSYS")
    BY <1>4, <2>2, <2>4, <2>5
  <2> QED
    BY <1>1, <1>11, <2>4, <2>6 DEF Grants
<1> QED
  BY <1>1, <1>3, <1>10, <1>11, <1>12 DEF Kept

\* A request grants nothing before it is answered.
LEMMA AsksKept ==
  ASSUME Kinds, InOrder, Kept, AsksStep
  PROVE  Kept'
<1>1. handler \in HandlerSet /\ offset \in Nat /\ offset <= Len(Directory)
  BY DEF Kinds, InOrder
<1>2. ASSUME NEW answers, answers \subseteq Seq(WriteSet), Calls(answers)
      PROVE  /\ ~reply'.cells.status.ok /\ reply'.cells.entries = << >>
             /\ reply'.cells.status # Err("ENOSYS")
             /\ \A t \in tasks' : Mine(t)' => t.writes \in answers /\ t.writes # << >>
  <2>1. /\ reply'.cells = EmptyCells /\ tasks' \subseteq TaskSet
        /\ \A t \in tasks' : t.number = reply'.number => t.writes \in answers
    BY <1>2, CallsKinds
  <2>2. /\ ~EmptyCells.status.ok /\ EmptyCells.entries = << >>
        /\ EmptyCells.status # Err("ENOSYS")
    BY DEF EmptyCells, Unanswered, Err
  <2> QED
    BY <2>1, <2>2 DEF Mine, TaskSet
<1>3. handler.at = "idle" => \A name \in Children : ~Awaited(name)
  BY DEF Awaited
<1>4. ASSUME NEW name \in Children, StartLookup(name) PROVE Kept'
  <2>1. /\ Starts([Request("lookup", "asked") EXCEPT !.asked = name])
        /\ Calls(LookupAnswers(name))
    BY <1>4 DEF StartLookup
  <2>2. handler'.at = "asked" /\ handler'.asked = name
    BY <2>1 DEF Starts, Request
  <2>3. /\ ~reply'.cells.status.ok /\ reply'.cells.entries = << >>
        /\ \A t \in tasks' : Mine(t)' => t.writes \in LookupAnswers(name) /\ t.writes # << >>
    BY <1>2, <2>1, LookupAnswersTyped
  <2>4. ASSUME NEW t \in tasks', Mine(t)' PROVE Grants(t)'
    <3>1. /\ Len(t.writes) = 1
          /\ t.writes[1].grants = IF t.writes[1].cells.status.ok THEN {name} ELSE {}
      BY <2>3, <2>4, LookupAnswersGrant
    <3> QED
      BY <2>2, <2>3, <3>1 DEF Grants
  <2> QED
    BY <1>3, <2>1, <2>3, <2>4, StartsAt, KeptAsItWas
<1>5. CASE StartList
  <2>1. Starts(Request("list", "listed")) /\ Calls(ListAnswers(offset, FALSE))
    BY <1>5 DEF StartList
  <2>2. handler'.at = "listed"
    BY <2>1 DEF Starts, Request
  <2>3. ListAnswers(offset, FALSE) \subseteq Seq(WriteSet)
    BY <1>1, ListAnswersTyped
  <2>4. ASSUME NEW t \in tasks', Mine(t)' PROVE Grants(t)'
    <3>1. t.writes \in ListAnswers(offset, FALSE)
      BY <1>2, <2>1, <2>3, <2>4
    <3>2. ListingGrants(t.writes, FALSE)
      BY <1>1, <3>1, ListAnswersGrant
    <3> QED
      BY <2>2, <3>2 DEF Grants, ListingGrants
  <2> QED
    BY <1>3, <2>1, <2>2, <2>4, StartsAt, KeptAsItWas
<1>6. CASE StartFind
  <2> DEFINE answers == IF fs = "tokio" THEN NotThere ELSE ListAnswers(offset, TRUE) \cup NotThere
  <2>1. Starts(Request("list", "listedPlus")) /\ Calls(answers)
    BY <1>6, Zenon DEF StartFind
  <2>2. answers \subseteq Seq(WriteSet) /\ answers \subseteq ListAnswers(offset, TRUE) \cup NotThere
    BY <1>1, ListAnswersTyped, NotThereTyped
  <2> HIDE DEF answers
  <2>3. handler'.at = "listedPlus"
    BY <2>1 DEF Starts, Request
  <2>4. /\ ~reply'.cells.status.ok /\ reply'.cells.entries = << >>
        /\ reply'.cells.status # Err("ENOSYS")
        /\ \A t \in tasks' : Mine(t)' => t.writes \in answers
    BY <1>2, <2>1, <2>2
  <2>5. ASSUME NEW t \in tasks', Mine(t)' PROVE Grants(t)'
    <3>1. t.writes \in ListAnswers(offset, TRUE) \/ t.writes \in NotThere
      BY <2>2, <2>4, <2>5
    <3>2. CASE t.writes \in ListAnswers(offset, TRUE)
      <4>1. ListingGrants(t.writes, TRUE)
        BY <1>1, <3>2, ListAnswersGrant
      <4>2. \A k \in DOMAIN t.writes :
              /\ t.writes[k].grants = Range(t.writes[k].cells.entries) \ Dots
              /\ t.writes[k].cells.status # Err("ENOSYS")
        BY <4>1 DEF ListingGrants
      <4> QED
        BY <2>3, <2>4, <4>2 DEF Grants
    <3>3. CASE t.writes \in NotThere
      <4>1. /\ Len(t.writes) = 1 /\ DOMAIN t.writes = {1}
            /\ t.writes[1].grants = {} /\ t.writes[1].cells.entries = << >>
        BY <3>3, NotThereGrants
      <4>2. Range(t.writes[1].cells.entries) = {}
        BY <4>1, RangeOfOne, Zenon
      <4> QED
        BY <2>3, <2>4, <4>1, <4>2 DEF Grants
    <3> QED
      BY <3>1, <3>2, <3>3
  <2> QED
    BY <1>3, <2>1, <2>4, <2>5, StartsAt, KeptAsItWas
<1>7. CASE FallBack
  <2>1. /\ Calls(ListAnswers(offset, FALSE)) /\ handler' = [handler EXCEPT !.at = "listed"]
        /\ handler.at = "listedPlus" /\ reply.cells.status = Err("ENOSYS")
        /\ UNCHANGED <<fs, granted, known, refused>>
    BY <1>7 DEF FallBack, Returned
  <2>2. handler'.at = "listed"
    BY <1>1, <2>1 DEF HandlerSet
  <2>3. ListAnswers(offset, FALSE) \subseteq Seq(WriteSet)
    BY <1>1, ListAnswersTyped
  <2>4. ASSUME NEW t \in tasks', Mine(t)' PROVE Grants(t)'
    <3>1. t.writes \in ListAnswers(offset, FALSE)
      BY <1>2, <2>1, <2>3, <2>4
    <3>2. ListingGrants(t.writes, FALSE)
      BY <1>1, <3>1, ListAnswersGrant
    <3> QED
      BY <2>2, <3>2 DEF Grants, ListingGrants
  <2>5. \A name \in Children : ~Awaited(name)
    <3>1. reply.cells.entries = << >>
      BY <2>1 DEF Kept
    <3> QED
      BY <2>1, <3>1, RangeOfOne DEF Awaited
  <2> QED
    BY <2>1, <2>2, <2>4, <2>5, KeptAsItWas
<1>8. ASSUME NEW buffer \in Buffers, StartSecurity(buffer) PROVE Kept'
  <2> DEFINE answers == IF fs = "tokio" THEN NotThere ELSE XattrAnswers(0)
  <2>1. /\ Starts([Request("security", "probed") EXCEPT !.buffer = buffer])
        /\ Calls(answers)
    BY <1>8, Zenon DEF StartSecurity
  <2>2. answers \subseteq Seq(WriteSet)
    BY XattrAnswersTyped, NotThereTyped DEF Kinds
  <2>3. answers \subseteq XattrAnswers(0) \cup NotThere
    OBVIOUS
  <2> HIDE DEF answers
  <2>4. handler'.at = "probed"
    BY <2>1 DEF Starts, Request
  <2>5. ASSUME NEW t \in tasks', Mine(t)' PROVE Grants(t)'
    <3>1. t.writes \in XattrAnswers(0) \/ t.writes \in NotThere
      BY <1>2, <2>1, <2>2, <2>3, <2>5
    <3>2. \A k \in DOMAIN t.writes : t.writes[k].grants = {}
      BY <3>1, XattrAnswersGrant, NotThereGrants
    <3> QED
      BY <2>4, <3>2 DEF Grants
  <2> QED
    BY <1>3, <2>1, <2>4, <2>5, StartsAt, KeptAsItWas
<1> QED
  BY <1>4, <1>5, <1>6, <1>7, <1>8 DEF AsksStep

\* What a lookup was answered is remembered when it ends.
LEMMA EndLookupKept ==
  ASSUME Kinds, Own, Kept, EndLookup
  PROVE  Kept'
<1>1. /\ handler' = Answers(Seen(reply.cells.status)) /\ handler.at = "asked"
      /\ known' = IF reply.cells.status.ok THEN Remembered(known, reply.cells.status.name) ELSE known
      /\ UNCHANGED <<fs, granted, refused, reply, tasks>>
  BY Zenon DEF EndLookup, Returned
<1>2. handler'.at = "idle"
  BY <1>1, AnswerMade DEF Kinds
<1>3. known \in [Range(Directory) -> Nat] /\ granted \in [Children -> Nat]
  BY DEF Kept
<1>4. /\ known' \in [Range(Directory) -> Nat]
      /\ \A name \in Range(Directory) :
           known'[name] = IF reply.cells.status.ok /\ reply.cells.status.name = name
                            THEN known[name] + 1 ELSE known[name]
  <2>1. CASE reply.cells.status.ok
    <3>1. PICK who : who = reply.cells.status.name
      OBVIOUS
    <3>2. known' = [known EXCEPT ![who] = @ + 1]
      BY <1>1, <2>1, <3>1 DEF Remembered
    <3>3. known' \in [Range(Directory) -> Nat]
      <4>1. CASE who \in Range(Directory)
        BY <1>3, <3>2, <4>1
      <4>2. CASE who \notin Range(Directory)
        <5>1. known' = known
          BY <1>3, <3>2, <4>2
        <5> QED
          BY <1>3, <5>1
      <4> QED
        BY <4>1, <4>2
    <3>4. \A name \in Range(Directory) :
            known'[name] = IF who = name THEN known[name] + 1 ELSE known[name]
      BY <1>3, <3>2
    <3> QED
      BY <2>1, <3>1, <3>3, <3>4
  <2>2. CASE ~reply.cells.status.ok
    BY <1>1, <1>3, <2>2
  <2> QED
    BY <2>1, <2>2
<1>5. ASSUME NEW name \in Children PROVE Balance(name)'
  <2>1. known[name] \in Nat /\ granted[name] \in Nat /\ name \in Range(Directory)
    BY <1>3 DEF Children
  <2>2. ~Awaited(name)'
    BY <1>2 DEF Awaited
  <2>3. Awaited(name) <=> reply.cells.status.ok /\ reply.cells.status.name = name
    BY <1>1 DEF Awaited
  <2>4. known'[name] = known[name] + (IF Awaited(name) THEN 1 ELSE 0)
    BY <1>4, <2>1, <2>3
  <2>5. Balance(name) /\ granted' = granted /\ fs' = fs /\ refused' = refused
    BY <1>1 DEF Kept
  <2> QED
    BY <2>1, <2>2, <2>4, <2>5 DEF Balance
<1>6. \A t \in tasks' : Grants(t)'
  BY <1>2 DEF Grants
<1> QED
  BY <1>1, <1>2, <1>3, <1>4, <1>5, <1>6 DEF Kept

\* The entries of readdirplus that Dokan was offered are remembered: all of
\* them, unless it refused one.
LEMMA EmitPlusKept ==
  ASSUME Kinds, Kept, NEW n \in 0 .. Len(Directory), EmitPlus(n)
  PROVE  Kept'
<1> DEFINE entries == reply.cells.entries
           offered == {entries[k] : k \in DOMAIN entries \cap 1 .. n + 1}
<1>1. /\ handler' = [handler EXCEPT !.at = "delivered", !.whole = n = Len(entries)]
      /\ handler.at = "listedPlus" /\ n <= Len(entries)
      /\ known' = [name \in DOMAIN known |->
                     IF name \in offered THEN Remembered(known, name)[name] ELSE known[name]]
      /\ refused' = (refused \/ n < Len(entries))
      /\ UNCHANGED <<fs, granted, reply, tasks>>
  BY Zenon DEF EmitPlus, Delivers, Returned
<1>2. handler'.at = "delivered"
  BY <1>1 DEF Kinds, HandlerSet
<1>3. known \in [Range(Directory) -> Nat] /\ granted \in [Children -> Nat]
  BY DEF Kept
<1>4. entries \in Seq(Range(Directory)) /\ Len(entries) \in Nat
  BY DEF Kinds, CellSet
<1>5. /\ offered \subseteq Range(entries)
      /\ n = Len(entries) => offered = Range(entries)
  <2>1. DOMAIN entries = 1 .. Len(entries)
    BY <1>4
  <2> HIDE DEF entries
  <2>2. n = Len(entries) => DOMAIN entries \cap 1 .. n + 1 = DOMAIN entries
    BY <1>4, <2>1
  <2> QED
    BY <2>2 DEF Range
<1> HIDE DEF offered, entries
<1>6. /\ known' \in [Range(Directory) -> Nat]
      /\ \A name \in Range(Directory) :
           known'[name] = IF name \in offered THEN known[name] + 1 ELSE known[name]
  <2>1. \A name \in Range(Directory) : Remembered(known, name)[name] = known[name] + 1
    BY <1>3 DEF Remembered
  <2> QED
    BY <1>1, <1>3, <2>1
<1>7. ASSUME NEW name \in Children PROVE Balance(name)'
  <2>1. known[name] \in Nat /\ granted[name] \in Nat /\ name \in Range(Directory)
    BY <1>3 DEF Children
  <2>2. ~Awaited(name)'
    BY <1>2 DEF Awaited
  <2>3. Awaited(name) <=> name \in Range(entries)
    BY <1>1 DEF Awaited, entries
  <2>4. known'[name] = IF name \in offered THEN known[name] + 1 ELSE known[name]
    BY <1>6, <2>1
  <2>5. Balance(name) /\ granted' = granted /\ fs' = fs
    BY <1>1 DEF Kept
  <2>6. ~refused' => ~refused /\ n = Len(entries)
    <3>1. ~refused' => ~refused /\ ~(n < Len(entries))
      BY <1>1, Zenon
    <3>2. n \in Nat
      BY DirectoryAssumption
    <3> QED
      BY <1>1, <1>4, <3>1, <3>2
  <2>7. known'[name] <= granted'[name]
    BY <1>5, <2>1, <2>3, <2>4, <2>5 DEF Balance
  <2>8. fs = "direct" /\ ~refused' => known'[name] = granted'[name]
    BY <1>5, <2>1, <2>3, <2>4, <2>5, <2>6 DEF Balance
  <2>9. known'[name] \in Nat /\ granted'[name] \in Nat
    BY <2>1, <2>4, <2>5
  <2> QED
    BY <2>2, <2>5, <2>7, <2>8, <2>9 DEF Balance
<1>8. \A t \in tasks' : Grants(t)'
  BY <1>2 DEF Grants
<1> QED
  BY <1>1, <1>2, <1>3, <1>6, <1>7, <1>8 DEF Kept

LEMMA KeptStep ==
  ASSUME Kinds, Settled, Own, InOrder, Kept, [Next]_vars
  PROVE  Kept'
<1>1. handler \in HandlerSet
  BY DEF Kinds
<1>2. CASE UNCHANGED vars
  <2>1. UNCHANGED <<fs, reply, tasks, handler, granted, known, refused>>
    BY <1>2 DEF vars
  <2> QED
    BY <2>1 DEF Kept, Balance, Awaited, Grants, Mine
<1>3. ASSUME NEW t \in tasks, Answer(t) PROVE Kept'
  <2>1. CASE t.number # reply.number \/ handler.at \in {"idle", "delivered"}
    BY <1>3, <2>1, AnswerToOthers
  <2>2. CASE t.number = reply.number /\ handler.at = "asked"
    BY <1>3, <2>2, AnswerToLookup
  <2>3. CASE t.number = reply.number /\ handler.at = "listedPlus"
    BY <1>3, <2>3, AnswerToListing
  <2>4. CASE t.number = reply.number /\ handler.at \in {"listed", "probed", "fetched"}
    <3>1. UNCHANGED <<fs, handler, known, refused>>
      BY <1>3, Zenon DEF Answer
    <3>2. /\ \A u \in tasks' :
               \/ u \in tasks /\ u # t
               \/ /\ u.number = t.number
                  /\ DOMAIN u.writes = 1 .. Len(t.writes) - 1
                  /\ \A k \in DOMAIN u.writes : u.writes[k] = t.writes[k + 1]
      BY <1>3, AnswerKinds, Zenon
    <3>3. DOMAIN t.writes = 1 .. Len(t.writes) /\ Len(t.writes) \in Nat \ {0}
      BY DEF Kinds, TaskSet
    <3>4. \A k \in DOMAIN t.writes : t.writes[k].grants = {}
      BY <2>4 DEF Kept, Grants, Mine
    <3>5. granted' = granted
      <4>1. /\ granted' \in [Children -> Nat] /\ granted \in [Children -> Nat]
            /\ \A name \in Children :
                 granted'[name] = IF name \in t.writes[1].grants THEN granted[name] + 1
                                                                 ELSE granted[name]
        BY <1>3, GrantsCounted DEF Kept
      <4>2. t.writes[1].grants = {}
        BY <3>3, <3>4
      <4>3. \A name \in Children : granted'[name] = granted[name]
        BY <4>1, <4>2
      <4> QED
        BY <4>1, <4>3
    <3>6. ASSUME NEW u \in tasks', Mine(u)' PROVE Grants(u)'
      <4>1. /\ DOMAIN u.writes = 1 .. Len(t.writes) - 1
            /\ \A k \in DOMAIN u.writes : u.writes[k] = t.writes[k + 1]
        <5>1. u.number = reply.number
          BY <1>3, <3>6, AnswerKinds DEF Mine
        <5> QED
          BY <2>4, <3>2, <5>1 DEF Kinds
      <4>2. \A k \in DOMAIN u.writes : k + 1 \in DOMAIN t.writes
        BY <3>3, <4>1
      <4>3. \A k \in DOMAIN u.writes : u.writes[k].grants = {}
        BY <3>4, <4>1, <4>2
      <4> QED
        BY <2>4, <3>1, <4>3 DEF Grants
    <3>7. \A name \in Children : ~Awaited(name)
      BY <2>4 DEF Awaited
    <3> QED
      BY <2>4, <3>1, <3>5, <3>6, <3>7, KeptAsItWas
  <2>5. handler.at \in Places
    BY <1>1 DEF HandlerSet
  <2> QED
    BY <2>1, <2>2, <2>3, <2>4, <2>5 DEF Places
<1>4. CASE AsksStep
  BY <1>4, AsksKept
\* The steps that only end something.
<1>5. ASSUME UNCHANGED <<fs, granted, known, refused>>,
             handler.at \notin {"asked", "listedPlus"}, handler'.at \in {"idle", "delivered"}
      PROVE  Kept'
  <2>1. \A name \in Children : ~Awaited(name)
    BY <1>5 DEF Awaited
  <2>2. \A t \in tasks' : Grants(t)'
    BY <1>5 DEF Grants
  <2> QED
    BY <1>5, <2>1, <2>2, KeptAsItWas
<1>6. CASE QuietStep
  <2>0. UNCHANGED <<reply, tasks>>
    BY <1>6, QuietKinds
  <2>1. CASE Change
    <3>1. /\ handler'.at = handler.at /\ handler.at \in {"probed", "fetched"}
          /\ UNCHANGED <<fs, granted, known, refused>>
      BY <1>1, <2>1 DEF Change, HandlerSet
    <3>2. \A name \in Children : ~Awaited(name)
      BY <3>1 DEF Awaited
    <3>3. \A t \in tasks' : Mine(t)' => Grants(t)'
      BY <2>0, <3>1 DEF Grants, Mine, Kept
    <3> QED
      BY <3>1, <3>2, <3>3, KeptAsItWas
  <2>2. CASE EndLookup
    BY <2>2, EndLookupKept
  <2>3. CASE EndList \/ SecurityFails
    <3>1. /\ handler' = Answers(Seen(reply.cells.status))
          /\ handler.at \in {"delivered", "probed", "fetched"}
          /\ UNCHANGED <<fs, granted, known, refused>>
      BY <2>3, Zenon DEF EndList, SecurityFails, Returned
    <3> QED
      BY <1>1, <1>5, <3>1, AnswerMade
  <2>4. CASE Close
    <3>1. /\ handler'.at = "idle" /\ handler.at = "idle" /\ UNCHANGED <<fs, granted, known, refused>>
      BY <2>4 DEF Close, Request
    <3> QED
      BY <1>5, <3>1
  <2>5. ASSUME NEW n \in 0 .. Len(Directory), Emit(n) PROVE Kept'
    <3>1. /\ handler' = [handler EXCEPT !.at = "delivered", !.whole = n = Len(reply.cells.entries)]
          /\ handler.at = "listed" /\ UNCHANGED <<fs, granted, known, refused>>
      BY <2>5, Zenon DEF Emit, Delivers, Returned
    <3>2. handler'.at = "delivered"
      BY <1>1, <3>1 DEF HandlerSet
    <3> QED
      BY <1>5, <3>1, <3>2
  <2>6. ASSUME NEW n \in 0 .. Len(Directory), EmitPlus(n) PROVE Kept'
    BY <2>6, EmitPlusKept
  <2>7. CASE Fetched
    <3>1. /\ Copies(handler.needed, reply.cells.status.length) /\ handler.at = "fetched"
          /\ UNCHANGED <<fs, granted, known, refused>>
      BY <2>7 DEF Fetched, Returned
    <3> QED
      BY <1>1, <1>5, <3>1, CopiesMade
  <2>8. CASE Synthesize
    <3>1. UNCHANGED <<fs, granted, known, refused>>
      BY <2>8 DEF Synthesize
    <3> QED
      BY <1>5, <2>8, <3>1, SynthesizeEnds
  <2> QED
    BY <1>6, <2>1, <2>2, <2>3, <2>4, <2>5, <2>6, <2>7, <2>8 DEF QuietStep
<1>7. CASE Probed
  <2>1. handler.at = "probed" /\ UNCHANGED <<fs, granted, known, refused>>
    BY <1>7, Zenon DEF Probed, Returned
  <2>2. CASE handler'.at = "idle"
    BY <1>5, <2>1, <2>2
  <2>3. CASE handler'.at = "fetched"
    <3>1. Calls(XattrAnswers(handler.buffer))
      BY <1>7, <2>3, ProbedEnds
    <3>2. XattrAnswers(handler.buffer) \subseteq Seq(WriteSet)
      BY XattrAnswersTyped DEF Kinds
    <3>3. ASSUME NEW t \in tasks', Mine(t)' PROVE Grants(t)'
      <4>1. t.writes \in XattrAnswers(handler.buffer)
        BY <3>1, <3>2, <3>3, CallsKinds DEF Mine
      <4>2. \A k \in DOMAIN t.writes : t.writes[k].grants = {}
        BY <4>1, XattrAnswersGrant
      <4> QED
        BY <2>3, <4>2 DEF Grants
    <3>4. \A name \in Children : ~Awaited(name)
      BY <2>1 DEF Awaited
    <3> QED
      BY <2>1, <2>3, <3>3, <3>4, KeptAsItWas
  <2> QED
    BY <1>7, <2>2, <2>3, ProbedEnds
<1> QED
  BY <1>2, <1>3, <1>4, <1>6, <1>7, StepsAre

LEMMA InitKept == Init => Kept
<1> SUFFICES ASSUME Init PROVE Kept
  OBVIOUS
<1>1. /\ handler.at = "idle" /\ tasks = {}
      /\ granted = [name \in Children |-> 0] /\ known = [name \in Range(Directory) |-> 0]
  BY DEF Init, Request
<1>2. granted \in [Children -> Nat] /\ known \in [Range(Directory) -> Nat]
  BY <1>1
<1>3. \A name \in Children : ~Awaited(name) /\ known[name] = 0 /\ granted[name] = 0
  BY <1>1 DEF Awaited, Children
<1>4. \A name \in Children : Balance(name)
  BY <1>3 DEF Balance
<1> QED
  BY <1>1, <1>2, <1>4 DEF Kept

\* The resolver forgets no lookup of a child that it was not granted, behind
\* TokioAdapter too; and a file system that answers in the callback has none
\* forgotten, unless Dokan refused an entry (directory_routes.rs:130-157).
THEOREM RepliesLookupsKept == Spec => []LookupsKept
<1>1. ASSUME Kept PROVE LookupsKept
  <2>1. ASSUME NEW name \in Children
        PROVE  /\ known[name] <= granted[name]
               /\ fs = "direct" /\ handler.at = "idle" /\ ~refused => known[name] = granted[name]
    <3>1. known[name] \in Nat /\ granted[name] \in Nat /\ Balance(name)
      BY <1>1 DEF Kept, Children
    <3>2. handler.at = "idle" => ~Awaited(name)
      BY DEF Awaited
    <3> QED
      BY <3>1, <3>2 DEF Balance
  <2> QED
    BY <2>1 DEF LookupsKept
<1> QED
  BY <1>1, InitKinds, InitSettled, InitInOrder, InitKept, InitOwn, KindsStep, SettledStep,
     InOrderStep, OwnStep, KeptStep, PTL DEF Spec

\* Tasks write to replies that were captured, the counts of lookups are
\* natural numbers, and the offset kept is one of the directory's.
THEOREM RepliesTypeCorrect == Spec => []TypeOK
<1>1. ASSUME Kinds, Settled, InOrder, Kept PROVE TypeOK
  <2>1. /\ reply.number \in Nat /\ reply.cells.status.ok \in BOOLEAN /\ offset \in Nat
        /\ Len(Directory) \in Nat
    BY <1>1, DirectoryAssumption DEF Kinds, CellSet, StatusSet
  <2>2. \A t \in tasks : t.number \in 1 .. reply.number /\ t.writes # << >>
    BY <1>1, <2>1 DEF Kinds, TaskSet, Settled
  <2>3. offset \in 0 .. Len(Directory)
    BY <1>1, <2>1 DEF InOrder
  <2> QED
    BY <1>1, <2>1, <2>2, <2>3 DEF TypeOK, Settled, Kept
<1> QED
  BY <1>1, InitKinds, InitSettled, InitInOrder, InitKept, InitOwn, KindsStep, SettledStep,
     InOrderStep, OwnStep, KeptStep, PTL DEF Spec

(***************************************************************************)
(* Windows is told the length of the descriptor it was given.              *)
(***************************************************************************)

\* The answer to the probe says how long the descriptor is: by a size, or by
\* the length of its data.
SaysLength(cells) ==
  cells.status.ok =>
    /\ descriptor # 0
    /\ IF cells.hint.given THEN cells.hint.size = descriptor /\ cells.status.length = 0
                           ELSE cells.status.length = descriptor
WillSayLength(writes) ==
  /\ ~reply.cells.status.ok
  /\ \/ /\ writes = <<Size(descriptor), Status(Holds(0))>> /\ descriptor # 0
     \/ /\ writes = <<Status(Holds(0))>> /\ descriptor # 0
        /\ reply.cells.hint = [given |-> TRUE, size |-> descriptor]
     \/ /\ \E s \in StatusSet : /\ writes = <<Status(s)>>
                                /\ s.ok => s.length = descriptor /\ descriptor # 0
        /\ ~reply.cells.hint.given

\* The answer to the fetch is that descriptor.
IsData(status) ==
  /\ status.ok => status.length = descriptor
  /\ status # Err("NO_XATTR")

Told ==
  /\ ~handler.changed =>
       /\ handler.at = "probed" =>
            /\ SaysLength(reply.cells)
            /\ \A t \in tasks : Mine(t) => WillSayLength(t.writes)
       /\ handler.at = "fetched" =>
            /\ handler.needed = descriptor /\ descriptor # 0
            /\ IsData(reply.cells.status)
            /\ \A t \in tasks : Mine(t) =>
                 \A k \in DOMAIN t.writes : IsData(t.writes[k].cells.status)
  /\ DescriptorWhole

LEMMA HintWritten ==
  /\ \A status : ~Status(status).cells.hint.given
  /\ \A n : /\ Size(n).cells.hint = [given |-> TRUE, size |-> n]
            /\ Size(n).cells.status = Unanswered
  /\ \A n : Holds(n).ok /\ Holds(n).length = n /\ Holds(n) # Unanswered
BY DEF Status, Size, EmptyCells, NoHint, Holds, Unanswered, Err

\* A write of the task that answers the probe.
LEMMA AnswerToProbe ==
  ASSUME Kinds, NEW t \in tasks, Answer(t), Mine(t), SaysLength(reply.cells), WillSayLength(t.writes)
  PROVE  /\ SaysLength(reply.cells)'
         /\ \A u \in tasks' : Mine(u)' => WillSayLength(u.writes)'
<1>1. /\ Kinds' /\ reply'.number = reply.number
      /\ reply'.cells = Written(reply.cells, t.writes[1].cells)
      /\ \A u \in tasks' :
           \/ u \in tasks /\ u # t
           \/ /\ u.number = t.number
              /\ DOMAIN u.writes = 1 .. Len(t.writes) - 1
              /\ \A k \in DOMAIN u.writes : u.writes[k] = t.writes[k + 1]
  BY AnswerKinds, Zenon DEF Mine
<1>2. ASSUME NEW u \in tasks', Mine(u)'
      PROVE  /\ u.writes \in Seq(WriteSet) /\ u.writes # << >>
             /\ DOMAIN u.writes = 1 .. Len(t.writes) - 1
             /\ \A k \in DOMAIN u.writes : u.writes[k] = t.writes[k + 1]
  <2>1. u.number = reply.number
    BY <1>1, <1>2 DEF Mine
  <2> QED
    BY <1>1, <2>1 DEF Kinds, TaskSet, Mine
<1>3. descriptor' = descriptor
  BY Zenon DEF Answer
<1>4. Len(t.writes) = 1 => \A u \in tasks' : ~Mine(u)'
  <2>1. ASSUME Len(t.writes) = 1, NEW u \in tasks', Mine(u)' PROVE FALSE
    <3>1. DOMAIN u.writes = 1 .. 0 /\ 1 \in DOMAIN u.writes
      BY <1>2, <2>1, FirstAndRest
    <3> QED
      BY <3>1
  <2> QED
    BY <2>1
<1>5. CASE t.writes = <<Size(descriptor), Status(Holds(0))>> /\ descriptor # 0
  <2>1. Len(t.writes) = 2 /\ t.writes[1] = Size(descriptor) /\ t.writes[2] = Status(Holds(0))
    BY <1>5
  <2>2. /\ reply'.cells.hint = [given |-> TRUE, size |-> descriptor]
        /\ reply'.cells.status = reply.cells.status
    BY <1>1, <2>1, HintWritten DEF Written
  <2>3. ~reply'.cells.status.ok
    BY <2>2 DEF WillSayLength
  <2>4. ASSUME NEW u \in tasks', Mine(u)' PROVE u.writes = <<Status(Holds(0))>>
    <3>1. /\ u.writes \in Seq(WriteSet) /\ DOMAIN u.writes = 1 .. 1
          /\ u.writes[1] = Status(Holds(0))
      BY <1>2, <2>1, <2>4
    <3>2. \A s \in Seq(WriteSet) : DOMAIN s = 1 .. 1 => s = <<s[1]>>
      OBVIOUS
    <3> QED
      BY <3>1, <3>2
  <2> QED
    BY <1>3, <1>5, <2>2, <2>3, <2>4 DEF SaysLength, WillSayLength
<1>6. CASE /\ t.writes = <<Status(Holds(0))>> /\ descriptor # 0
           /\ reply.cells.hint = [given |-> TRUE, size |-> descriptor]
  <2>1. Len(t.writes) = 1 /\ t.writes[1] = Status(Holds(0))
    BY <1>6
  <2>2. t.writes[1].cells.status = Holds(0) /\ ~t.writes[1].cells.hint.given
    BY <2>1, StatusWritten, HintWritten
  <2>3. reply'.cells.status = Holds(0) /\ reply'.cells.hint = reply.cells.hint
    BY <1>1, <2>2, HintWritten DEF Written
  <2> QED
    BY <1>3, <1>4, <1>6, <2>1, <2>3, HintWritten DEF SaysLength
<1>7. ASSUME NEW s \in StatusSet, t.writes = <<Status(s)>>,
             s.ok => s.length = descriptor /\ descriptor # 0, ~reply.cells.hint.given
      PROVE  /\ SaysLength(reply.cells)'
             /\ \A u \in tasks' : Mine(u)' => WillSayLength(u.writes)'
  <2>1. Len(t.writes) = 1 /\ t.writes[1] = Status(s)
    BY <1>7
  <2>2. t.writes[1].cells.status = s /\ ~t.writes[1].cells.hint.given
    BY <2>1, StatusWritten, HintWritten
  <2>3. /\ reply'.cells.status = IF s = Unanswered THEN reply.cells.status ELSE s
        /\ reply'.cells.hint = reply.cells.hint
    BY <1>1, <2>2 DEF Written
  <2>4. reply'.cells.status.ok => s.ok /\ reply'.cells.status = s
    BY <2>3 DEF WillSayLength
  <2> QED
    BY <1>3, <1>4, <1>7, <2>1, <2>3, <2>4 DEF SaysLength
<1> QED
  BY <1>5, <1>6, <1>7, Zenon DEF WillSayLength

LEMMA AnswerToFetch ==
  ASSUME Kinds, NEW t \in tasks, Answer(t), Mine(t), IsData(reply.cells.status),
         \A k \in DOMAIN t.writes : IsData(t.writes[k].cells.status)
  PROVE  /\ IsData(reply.cells.status)'
         /\ \A u \in tasks' : Mine(u)' =>
              \A k \in DOMAIN u.writes : IsData(u.writes[k].cells.status)'
<1>1. /\ reply'.number = reply.number
      /\ reply'.cells = Written(reply.cells, t.writes[1].cells)
      /\ \A u \in tasks' :
           \/ u \in tasks /\ u # t
           \/ /\ u.number = t.number
              /\ DOMAIN u.writes = 1 .. Len(t.writes) - 1
              /\ \A k \in DOMAIN u.writes : u.writes[k] = t.writes[k + 1]
  BY AnswerKinds, Zenon DEF Mine
<1>2. descriptor' = descriptor
  BY Zenon DEF Answer
<1>3. DOMAIN t.writes = 1 .. Len(t.writes) /\ Len(t.writes) \in Nat \ {0}
  BY DEF Kinds, TaskSet
<1>4. IsData(reply'.cells.status)
  <2>1. IsData(t.writes[1].cells.status)
    BY <1>3
  <2>2. reply'.cells.status \in {reply.cells.status, t.writes[1].cells.status}
    BY <1>1 DEF Written
  <2> QED
    BY <2>1, <2>2
<1>5. ASSUME NEW u \in tasks', Mine(u)', NEW k \in DOMAIN u.writes
      PROVE  IsData(u.writes[k].cells.status)
  <2>1. k + 1 \in DOMAIN t.writes /\ u.writes[k] = t.writes[k + 1]
    BY <1>1, <1>3, <1>5 DEF Mine, Kinds
  <2> QED
    BY <2>1
<1> QED
  BY <1>2, <1>4, <1>5 DEF IsData

LEMMA AsksTold ==
  ASSUME Kinds, AsksStep
  PROVE  Told'
<1>1. handler \in HandlerSet
  BY DEF Kinds
<1>2. ASSUME handler'.at \in {"asked", "listed", "listedPlus"} PROVE Told'
  BY <1>2 DEF Told, DescriptorWhole, Idle
<1>3. ASSUME NEW name \in Children, StartLookup(name) PROVE Told'
  <2>1. handler'.at = "asked"
    BY <1>3 DEF StartLookup, Starts, Request
  <2> QED
    BY <1>2, <2>1
<1>4. CASE StartList \/ StartFind
  <2>1. handler' = Request("list", "listed") \/ handler' = Request("list", "listedPlus")
    BY <1>4, Zenon DEF StartList, StartFind, Starts
  <2>2. handler'.at \in {"listed", "listedPlus"}
    BY <2>1 DEF Request
  <2> QED
    BY <1>2, <2>2
<1>5. CASE FallBack
  <2>1. handler'.at = "listed"
    BY <1>1, <1>5 DEF FallBack, HandlerSet
  <2> QED
    BY <1>2, <2>1
<1>6. ASSUME NEW buffer \in Buffers, StartSecurity(buffer) PROVE Told'
  <2> DEFINE answers == IF fs = "tokio" THEN NotThere ELSE XattrAnswers(0)
  <2>1. /\ handler' = [Request("security", "probed") EXCEPT !.buffer = buffer]
        /\ Calls(answers) /\ descriptor' = descriptor
    BY <1>6, Zenon DEF StartSecurity, Starts
  <2>2. answers \subseteq Seq(WriteSet)
    BY XattrAnswersTyped, NotThereTyped DEF Kinds
  <2>3. answers \subseteq XattrAnswers(0) \cup NotThere
    OBVIOUS
  <2> HIDE DEF answers
  <2>4. handler'.at = "probed"
    BY <2>1 DEF Request
  <2>5. /\ reply'.cells = EmptyCells
        /\ \A t \in tasks' : t.number = reply'.number => t.writes \in answers
    BY <2>1, <2>2, CallsKinds
  <2>6. ~reply'.cells.status.ok /\ ~reply'.cells.hint.given
    BY <2>5 DEF EmptyCells, Unanswered, Err, NoHint
  <2>7. descriptor \in Nat
    BY DEF Kinds
  <2>8. ASSUME NEW answer \in XattrAnswers(0) \cup NotThere, answer # << >>
        PROVE  \/ answer = <<Size(descriptor), Status(Holds(0))>> /\ descriptor # 0
               \/ \E s \in StatusSet : /\ answer = <<Status(s)>>
                                       /\ s.ok => s.length = descriptor /\ descriptor # 0
    <3>1. \A errno \in Errnos : Err(errno) \in StatusSet /\ ~Err(errno).ok
      BY StatusesTyped, StatusWritten
    <3>2. Holds(descriptor) \in StatusSet /\ Holds(descriptor).length = descriptor
      BY <2>7, StatusesTyped, HintWritten
    <3>3. \/ \E errno \in Errnos : answer = <<Status(Err(errno))>>
          \/ answer = <<Status(Holds(descriptor))>> /\ descriptor # 0
          \/ answer = <<Size(descriptor), Status(Holds(0))>> /\ descriptor # 0
      BY <2>8 DEF XattrAnswers, NotThere, Errnos
    <3> QED
      BY <3>1, <3>2, <3>3
  <2>9. ASSUME NEW t \in tasks', Mine(t)' PROVE WillSayLength(t.writes)'
    <3>1. t.writes \in XattrAnswers(0) \cup NotThere
      BY <2>3, <2>5, <2>9 DEF Mine
    <3>2. t.writes # << >>
      BY <2>1, <2>2, <2>9, CallsKinds DEF TaskSet
    <3>3. \/ t.writes = <<Size(descriptor), Status(Holds(0))>> /\ descriptor # 0
          \/ \E s \in StatusSet : /\ t.writes = <<Status(s)>>
                                  /\ s.ok => s.length = descriptor /\ descriptor # 0
      BY <2>8, <3>1, <3>2
    <3> QED
      BY <2>1, <2>6, <3>3 DEF WillSayLength
  <2> QED
    BY <2>4, <2>6, <2>9 DEF Told, DescriptorWhole, Idle, SaysLength
<1> QED
  BY <1>3, <1>4, <1>5, <1>6 DEF AsksStep

\* The length that was told, and what was copied, are those of one descriptor.
LEMMA CopiesWhole ==
  ASSUME Kinds, NEW needed \in Nat, NEW length \in Nat, Copies(needed, length),
         ~handler.changed => length = needed
  PROVE  Told'
<1>1. handler \in HandlerSet /\ handler.buffer \in Nat
  BY DEF Kinds, HandlerSet
<1>2. /\ handler'.at = "idle" /\ handler'.needed = needed
      /\ handler'.buffer = handler.buffer /\ handler'.changed = handler.changed
      /\ handler'.copied = Copied(length, handler.buffer)
  BY <1>1, CopiesMade
<1>3. ASSUME handler'.needed <= handler'.buffer, ~handler'.changed
      PROVE  handler'.copied = handler'.needed
  <2>1. length = needed /\ ~(handler.buffer < length)
    BY <1>1, <1>2, <1>3
  <2> QED
    BY <1>2, <2>1 DEF Copied
<1> QED
  BY <1>2, <1>3 DEF Told, DescriptorWhole

LEMMA ProbedTold ==
  ASSUME Kinds, Told, Probed
  PROVE  Told'
<1> DEFINE status == reply.cells.status
           hint == reply.cells.hint
           needed == ReportedLength(status.length, hint)
<1>1. /\ handler.at = "probed" /\ status.ok /\ needed.ok
      /\ \/ /\ handler.buffer < needed.value
            /\ handler' = [Answers(Holds(needed.value)) EXCEPT !.needed = needed.value]
         \/ /\ handler.buffer >= needed.value /\ NeedsFetch(status.length, hint)
            /\ handler' = [handler EXCEPT !.at = "fetched", !.needed = needed.value]
            /\ Calls(XattrAnswers(handler.buffer))
         \/ /\ handler.buffer >= needed.value /\ ~NeedsFetch(status.length, hint)
            /\ Copies(needed.value, status.length)
      /\ descriptor' = descriptor
  BY Zenon DEF Probed, Returned
<1>2. /\ handler \in HandlerSet /\ handler.buffer \in Nat /\ descriptor \in Nat
      /\ status.length \in Nat /\ hint.size \in Nat /\ hint.given \in BOOLEAN
  BY DEF Kinds, HandlerSet, CellSet, StatusSet, HintSet
<1>3. needed.value = IF hint.given THEN hint.size ELSE status.length
  BY <1>1 DEF ReportedLength, CheckedLen, Value, Invalid
<1>4. ~handler.changed =>
        /\ descriptor # 0
        /\ IF hint.given THEN hint.size = descriptor /\ status.length = 0
                         ELSE status.length = descriptor
  BY <1>1 DEF Told, SaysLength
<1> HIDE DEF needed, hint, status
<1>5. PICK n \in Nat : n = needed.value
  BY <1>2, <1>3
<1>6. CASE /\ handler.buffer < needed.value
           /\ handler' = [Answers(Holds(needed.value)) EXCEPT !.needed = needed.value]
  <2>1. handler' = [Answers(Holds(n)) EXCEPT !.needed = n]
    BY <1>5, <1>6
  <2>2. handler'.at = "idle" /\ handler'.needed = n /\ handler'.buffer = handler.buffer
    BY <1>2, <2>1 DEF Answers, HandlerSet
  <2>3. ~(n <= handler.buffer)
    BY <1>2, <1>5, <1>6
  <2> QED
    BY <2>2, <2>3 DEF Told, DescriptorWhole
<1>7. CASE /\ handler.buffer >= needed.value /\ NeedsFetch(status.length, hint)
           /\ handler' = [handler EXCEPT !.at = "fetched", !.needed = needed.value]
           /\ Calls(XattrAnswers(handler.buffer))
  <2>1. handler' = [handler EXCEPT !.at = "fetched", !.needed = n]
    BY <1>5, <1>7
  <2>2. handler'.at = "fetched" /\ handler'.needed = n /\ handler'.changed = handler.changed
    BY <1>2, <2>1 DEF HandlerSet
  <2>3. hint.given
    BY <1>7 DEF NeedsFetch
  <2>4. XattrAnswers(handler.buffer) \subseteq Seq(WriteSet)
    BY <1>2, XattrAnswersTyped
  <2>5. /\ reply'.cells = EmptyCells
        /\ \A t \in tasks' : t.number = reply'.number => t.writes \in XattrAnswers(handler.buffer)
    BY <1>7, <2>4, CallsKinds
  <2>6. ASSUME ~handler.changed PROVE n = descriptor /\ descriptor # 0 /\ handler.buffer >= descriptor
    BY <1>3, <1>4, <1>5, <1>7, <2>3, <2>6
  <2>7. ASSUME ~handler.changed, NEW answer \in XattrAnswers(handler.buffer), NEW k \in DOMAIN answer
        PROVE  IsData(answer[k].cells.status)
    <3>1. handler.buffer # 0 /\ ~(handler.buffer < descriptor) /\ descriptor # 0
      BY <1>2, <2>6, <2>7
    <3>2. \/ answer = <<Status(Holds(descriptor))>>
          \/ answer = <<Status(Err("EIO"))>>
          \/ answer = << >>
      BY <2>7, <3>1 DEF XattrAnswers
    <3>3. answer[k].cells.status \in {Holds(descriptor), Err("EIO")}
      BY <2>7, <3>2, StatusWritten
    <3>4. /\ Holds(descriptor).length = descriptor /\ Holds(descriptor) # Err("NO_XATTR")
          /\ ~Err("EIO").ok /\ Err("EIO") # Err("NO_XATTR")
      BY DEF Holds, Err
    <3> QED
      BY <3>3, <3>4 DEF IsData
  <2>8. IsData(EmptyCells.status)
    BY DEF IsData, EmptyCells, Unanswered, Err
  <2>9. ASSUME ~handler.changed, NEW t \in tasks', Mine(t)', NEW k \in DOMAIN t.writes
        PROVE  IsData(t.writes[k].cells.status)
    <3>1. t.writes \in XattrAnswers(handler.buffer)
      BY <2>5, <2>9 DEF Mine
    <3> QED
      BY <2>7, <2>9, <3>1
  <2> QED
    BY <1>1, <2>2, <2>5, <2>6, <2>8, <2>9 DEF Told, DescriptorWhole, Idle, IsData
<1>8. CASE /\ handler.buffer >= needed.value /\ ~NeedsFetch(status.length, hint)
           /\ Copies(needed.value, status.length)
  <2>1. ~handler.changed => status.length = n
    <3>1. ASSUME ~handler.changed PROVE ~hint.given
      BY <1>2, <1>4, <1>8, <3>1 DEF NeedsFetch
    <3> QED
      BY <1>3, <1>5, <3>1
  <2>2. Copies(n, status.length)
    BY <1>5, <1>8
  <2> QED
    BY <1>2, <2>1, <2>2, CopiesWhole
<1> QED
  BY <1>1, <1>6, <1>7, <1>8

LEMMA ToldStep ==
  ASSUME Kinds, Settled, Told, [Next]_vars
  PROVE  Told'
<1>1. /\ handler \in HandlerSet /\ handler.needed \in Nat
      /\ Synthesized \in Nat /\ reply.cells.status.length \in Nat
  BY LengthsAssumption, WidthsAssumption DEF Kinds, HandlerSet, CellSet, StatusSet
<1>2. CASE UNCHANGED vars
  <2>1. UNCHANGED <<reply, tasks, handler, descriptor>>
    BY <1>2 DEF vars
  <2> QED
    BY <2>1 DEF Told, SaysLength, WillSayLength, IsData, DescriptorWhole, Idle, Mine
<1>3. ASSUME NEW t \in tasks, Answer(t) PROVE Told'
  <2>1. UNCHANGED <<handler, descriptor>>
    BY <1>3, Zenon DEF Answer
  <2>2. /\ reply'.number = reply.number
        /\ t.number # reply.number => reply' = reply
        /\ \A u \in tasks' : u \in tasks \/ u.number = t.number
    BY <1>3, AnswerKinds, Zenon
  <2>3. DescriptorWhole'
    BY <2>1 DEF Told, DescriptorWhole, Idle
  <2>4. CASE ~Mine(t)
    <3>1. reply' = reply /\ \A u \in tasks' : Mine(u)' => u \in tasks /\ Mine(u)
      BY <2>2, <2>4 DEF Mine
    <3>2. ASSUME ~handler.changed, handler.at = "probed"
          PROVE  /\ SaysLength(reply.cells)'
                 /\ \A u \in tasks' : Mine(u)' => WillSayLength(u.writes)'
      BY <2>1, <3>1, <3>2 DEF Told, SaysLength, WillSayLength
    <3>3. ASSUME ~handler.changed, handler.at = "fetched"
          PROVE  /\ handler.needed = descriptor /\ descriptor # 0
                 /\ IsData(reply.cells.status)'
                 /\ \A u \in tasks' : Mine(u)' =>
                      \A k \in DOMAIN u.writes : IsData(u.writes[k].cells.status)'
      BY <2>1, <3>1, <3>3 DEF Told, IsData
    <3> QED
      BY <2>1, <2>3, <3>2, <3>3 DEF Told
  <2>5. CASE Mine(t)
    <3>1. ASSUME ~handler.changed, handler.at = "probed"
          PROVE  /\ SaysLength(reply.cells)'
                 /\ \A u \in tasks' : Mine(u)' => WillSayLength(u.writes)'
      <4>1. SaysLength(reply.cells) /\ WillSayLength(t.writes)
        BY <2>5, <3>1 DEF Told
      <4> QED
        BY <1>3, <2>5, <4>1, AnswerToProbe
    <3>2. ASSUME ~handler.changed, handler.at = "fetched"
          PROVE  /\ handler.needed = descriptor /\ descriptor # 0
                 /\ IsData(reply.cells.status)'
                 /\ \A u \in tasks' : Mine(u)' =>
                      \A k \in DOMAIN u.writes : IsData(u.writes[k].cells.status)'
      <4>1. /\ handler.needed = descriptor /\ descriptor # 0 /\ IsData(reply.cells.status)
            /\ \A k \in DOMAIN t.writes : IsData(t.writes[k].cells.status)
        BY <2>5, <3>2 DEF Told
      <4> QED
        BY <1>3, <2>5, <4>1, AnswerToFetch
    <3> QED
      BY <2>1, <2>3, <3>1, <3>2 DEF Told
  <2> QED
    BY <2>4, <2>5
<1>4. CASE AsksStep
  BY <1>4, AsksTold
\* A step of another kind of request, and one that fails.
<1>5. ASSUME handler'.at \in {"idle", "delivered"}, handler'.kind # "security" PROVE Told'
  BY <1>5 DEF Told, DescriptorWhole, Idle
<1>6. ASSUME NEW status, handler' = Answers(status), ~status.ok PROVE Told'
  <2>1. handler'.at = "idle" /\ handler'.answer = status
    BY <1>1, <1>6, AnswerMade
  <2> QED
    BY <1>6, <2>1 DEF Told, DescriptorWhole
<1>7. CASE QuietStep
  <2>1. CASE Change
    <3>1. handler'.changed /\ handler'.at = handler.at /\ handler.at \in {"probed", "fetched"}
      BY <1>1, <2>1 DEF Change, HandlerSet
    <3> QED
      BY <3>1 DEF Told, DescriptorWhole
  <2>2. CASE EndLookup \/ EndList
    <3>1. /\ handler' = Answers(Seen(reply.cells.status)) /\ handler.at \in {"asked", "delivered"}
      BY <2>2, Zenon DEF EndLookup, EndList, Returned
    <3>2. handler'.at = "idle" /\ handler'.kind = handler.kind
      BY <1>1, <3>1, AnswerMade
    <3>3. handler.kind # "security"
      BY <3>1 DEF Settled
    <3> QED
      BY <1>5, <3>2, <3>3
  <2>3. CASE SecurityFails
    <3>1. handler' = Answers(Seen(reply.cells.status)) /\ ~reply.cells.status.ok
      BY <2>3, Zenon DEF SecurityFails
    <3>2. ~Seen(reply.cells.status).ok
      BY <3>1 DEF Seen, Err
    <3> QED
      BY <1>6, <3>1, <3>2
  <2>4. CASE Close
    <3>1. handler'.kind = "none" /\ handler'.at = "idle"
      BY <2>4 DEF Close, Request
    <3> QED
      BY <1>5, <3>1
  <2>5. ASSUME NEW n \in 0 .. Len(Directory), Emit(n) \/ EmitPlus(n) PROVE Told'
    <3>1. /\ handler' = [handler EXCEPT !.at = "delivered", !.whole = n = Len(reply.cells.entries)]
          /\ handler.at \in {"listed", "listedPlus"}
      BY <2>5, Zenon DEF Emit, EmitPlus, Delivers, Returned
    <3>2. handler'.kind = handler.kind /\ handler'.at = "delivered"
      BY <1>1, <3>1 DEF HandlerSet
    <3>3. handler.kind # "security"
      BY <3>1 DEF Settled
    <3> QED
      BY <1>5, <3>2, <3>3
  <2>6. CASE Fetched
    <3>1. /\ Copies(handler.needed, reply.cells.status.length)
          /\ handler.at = "fetched" /\ reply.cells.status.ok
      BY <2>6 DEF Fetched, Returned
    <3>2. ~handler.changed => reply.cells.status.length = handler.needed
      BY <3>1 DEF Told, IsData
    <3> QED
      BY <1>1, <3>1, <3>2, CopiesWhole
  <2>7. CASE Synthesize
    <3>1. /\ handler.at \in {"probed", "fetched"} /\ reply.cells.status = Err("NO_XATTR")
          /\ \/ Copies(IF handler.at = "probed" THEN Synthesized ELSE handler.needed, Synthesized)
             \/ handler' = Answers(Err("EIO"))
      BY <2>7, Zenon DEF Synthesize, Returned
    <3>2. CASE handler' = Answers(Err("EIO"))
      BY <1>6, <3>2, StatusWritten
    <3>3. CASE handler.at = "probed" /\ Copies(Synthesized, Synthesized)
      BY <1>1, <3>3, CopiesWhole
    <3>4. CASE handler.at = "fetched" /\ Copies(handler.needed, Synthesized)
      <4>1. handler.changed
        BY <1>1, <3>1, <3>4 DEF Told, IsData
      <4> QED
        BY <1>1, <3>4, <4>1, CopiesWhole
    <3> QED
      BY <3>1, <3>2, <3>3, <3>4
  <2> QED
    BY <1>7, <2>1, <2>2, <2>3, <2>4, <2>5, <2>6, <2>7 DEF QuietStep
<1>8. CASE Probed
  BY <1>8, ProbedTold
<1> QED
  BY <1>2, <1>3, <1>4, <1>7, <1>8, StepsAre

\* Windows is told the length of what it was given, by a file system of either
\* style, for descriptors and buffers of any length: unless the descriptor was
\* replaced between the two getxattr (security_locks_streams.rs:323).
THEOREM RepliesDescriptorWhole == Spec => []DescriptorWhole
<1>1. Init => Told
  BY DEF Init, Told, DescriptorWhole, Idle, Request
<1>2. Told => DescriptorWhole
  BY DEF Told
<1> QED
  BY <1>1, <1>2, InitKinds, InitSettled, KindsStep, SettledStep, ToldStep, PTL DEF Spec

=============================================================================
