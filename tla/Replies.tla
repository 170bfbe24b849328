------------------------------- MODULE Replies -------------------------------
(***************************************************************************)
(* How an answer gets from the file system to a handler.  A callback is    *)
(* handed a reply that shares its cells with the one the handler keeps;    *)
(* the handler looks into the cells when the callback returns and never    *)
(* again.  A file system may answer in the callback, or not at all; behind *)
(* TokioAdapter it answers from a task, which may still run when the       *)
(* handler looks, or long after.                                           *)
(*                                                                         *)
(* The handlers here are those whose answer has parts: a lookup, which     *)
(* grants a lookup count; a listing, with entries and a status read at     *)
(* different times; a security descriptor, asked for twice.  The fs mutex  *)
(* lets one handler run at a time.                                         *)
(***************************************************************************)
EXTENDS IoPlan, Sequences, FiniteSets, Functions

CONSTANTS
  Directory,     \* the names in the directory that is listed, in order
  Lengths,       \* lengths a stored security descriptor may have
  Synthesized,   \* the length of one made up from the attributes
  Buffers,       \* lengths of the buffers for one
  MaxCalls,      \* bound: the requests of a behaviour
  Mixes          \* bound: the sets of requests that are made in one behaviour

Dots == {".", ".."}
Children == Range(Directory) \ Dots

ASSUME DirectoryAssumption ==
  /\ Directory \in Seq(Range(Directory))
  /\ \A m, n \in DOMAIN Directory : Directory[m] = Directory[n] => m = n
ASSUME LengthsAssumption ==
  /\ Lengths \subseteq 1 .. U32Max /\ Buffers \subseteq 0 .. U32Max
  /\ Synthesized \in 0 .. U32Max
ASSUME MaxCallsAssumption == MaxCalls \in Nat

VARIABLES
  fs,          \* "direct", or "tokio" for a TokioAdapter
  reply,       \* the reply the handler looks at: its number and its cells
  tasks,       \* what the file system has still to write: a callback or a task
  handler,     \* the request being handled, or the last one
  mix,         \* bound: the kinds of requests of this behaviour
  calls,       \* bound: requests so far
  granted,     \* lookups of a child that the file system counts
  known,       \* lookups of a name that the resolver will forget one day
  offset,      \* dir_offsets of the directory
  delivered,   \* ghost: the names Dokan has taken since the directory was opened
  descriptor,  \* length of the stored descriptor, 0 when there is none
  refused      \* ghost: Dokan has refused an entry of readdirplus

vars == <<fs, reply, tasks, handler, mix, calls, granted, known, offset, delivered,
          descriptor, refused>>

Err(errno) == [ok |-> FALSE, errno |-> errno, name |-> "none", length |-> 0]
Unanswered == Err("none")
Found(name) == [ok |-> TRUE, errno |-> "none", name |-> name, length |-> 0]
Holds(length) == [ok |-> TRUE, errno |-> "none", name |-> "none", length |-> length]
Listed == Holds(0)
NoHint == [given |-> FALSE, size |-> 0]

EmptyCells == [status |-> Unanswered, entries |-> << >>, hint |-> NoHint]

\* Mutant: the cells of the last reply are emptied and taken again.
CaptureAgain(old) == [old EXCEPT !.cells = EmptyCells]

\* capture: cells of its own.  Those of the reply before are left to the task
\* that may still hold them.
Capture(old) == [number |-> old.number + 1, cells |-> EmptyCells]

\* What a file system writes to a reply, one cell after the other.
Status(status) == [cells |-> [EmptyCells EXCEPT !.status = status], grants |-> {}]
Grant(name) == [Status(Found(name)) EXCEPT !.grants = {name}]
Size(n) ==
  [cells |-> [EmptyCells EXCEPT !.hint = [given |-> TRUE, size |-> n]], grants |-> {}]
Entry(name, plus) ==
  [cells |-> [EmptyCells EXCEPT !.entries = <<name>>],
   grants |-> IF plus THEN {name} \ Dots ELSE {}]

\* The setters: add appends, the others overwrite their cell.  The replies of
\* the adapter have room for any number of entries.
Written(old, new) ==
  [status |-> IF new.status = Unanswered THEN old.status ELSE new.status,
   entries |-> old.entries \o new.entries,
   hint |-> IF new.hint.given THEN new.hint ELSE old.hint]

-----------------------------------------------------------------------------
(* The file system: the ways it may answer, each a sequence of writes *)

LookupAnswers(name) == {<<Grant(name)>>, <<Status(Err("ENOENT"))>>, << >>}

\* The entries after the offset, up to the n-th.
EntriesUpTo(from, n, plus) == [k \in 1 .. n - from |-> Entry(Directory[from + k], plus)]

\* Everything after the offset, or less and a failure, or less and no status.
ListAnswers(from, plus) ==
  {EntriesUpTo(from, Len(Directory), plus) \o <<Status(Listed)>>}
  \cup UNION {{EntriesUpTo(from, n, plus) \o <<Status(Err("EIO"))>>, EntriesUpTo(from, n, plus)} :
              n \in from .. Len(Directory)}

NotThere == {<<Status(Err("ENOSYS"))>>}

\* Of a size or of the data; one that looks at the size given refuses a short
\* one, another sends what it has.
XattrAnswers(size) ==
  IF descriptor = 0 THEN {<<Status(Err("NO_XATTR"))>>}
  ELSE {<<Status(Holds(descriptor))>>, <<Status(Err("EIO"))>>, << >>}
       \cup (IF size = 0 THEN {<<Size(descriptor), Status(Holds(0))>>}
             ELSE IF size < descriptor THEN {<<Status(Err("ERANGE"))>>} ELSE {})

\* A callback: a reply is captured, and its duplicate handed over.
Calls(answers) ==
  /\ reply' = Capture(reply)
  /\ \E answer \in answers :
       tasks' = tasks \cup (IF answer = << >> THEN {}
                            ELSE {[number |-> reply'.number, writes |-> answer]})

\* A step of the callback, or of the task that was spawned.
Answer(t) ==
  LET w == Head(t.writes) IN
  /\ reply' = IF t.number = reply.number
                THEN [reply EXCEPT !.cells = Written(@, w.cells)] ELSE reply
  /\ tasks' = (tasks \ {t}) \cup (IF Len(t.writes) = 1 THEN {}
                                  ELSE {[t EXCEPT !.writes = Tail(@)]})
  /\ granted' = [name \in Children |-> granted[name] + Cardinality({name} \cap w.grants)]
  /\ UNCHANGED <<fs, mix, handler, calls, known, offset, delivered, descriptor, refused>>

\* The stored descriptor is replaced or removed by somebody else.
Change ==
  /\ handler.at \in {"probed", "fetched"}
  /\ descriptor' \in (Lengths \cup {0}) \ {descriptor}
  /\ handler' = [handler EXCEPT !.changed = TRUE]
  /\ UNCHANGED <<fs, mix, reply, tasks, calls, granted, known, offset, delivered, refused>>

-----------------------------------------------------------------------------
(* The handlers *)

\* The callback has returned.  Behind TokioAdapter it returns at once.
Returned(at) == handler.at = at /\ (fs = "direct" => tasks = {})

Request(kind, at) ==
  [at |-> at, kind |-> kind, asked |-> "none", answer |-> Unanswered, whole |-> TRUE,
   buffer |-> 0, needed |-> 0, copied |-> 0, changed |-> FALSE]

Starts(request) ==
  /\ request.kind \in mix
  /\ handler.at = "idle" /\ calls < MaxCalls
  /\ calls' = calls + 1
  /\ handler' = request
  /\ UNCHANGED <<fs, mix, granted, known, offset, delivered, descriptor, refused>>

Answers(status) == [handler EXCEPT !.at = "idle", !.answer = status]

\* Mutant: a reply without a status is a success.
SilenceIsSuccess(status) == IF status = Unanswered THEN Listed ELSE status

\* missing_reply_status; a walk says EIO.
Seen(status) == IF status = Unanswered THEN Err("UNSUCCESSFUL") ELSE status

\* Mutant: what is known already is not counted again.
RememberedOnce(counts, name) == [counts EXCEPT ![name] = 1]

\* remember_lookup, remember_positive: one more lookup to forget.
Remembered(counts, name) == [counts EXCEPT ![name] = @ + 1]

\* lookup_path_component, for a name that is not cached.
StartLookup(name) ==
  /\ Starts([Request("lookup", "asked") EXCEPT !.asked = name])
  /\ Calls(LookupAnswers(name))

EndLookup ==
  /\ Returned("asked")
  /\ handler' = Answers(Seen(reply.cells.status))
  /\ known' = IF reply.cells.status.ok THEN Remembered(known, reply.cells.status.name) ELSE known
  /\ UNCHANGED <<fs, mix, reply, tasks, calls, granted, offset, delivered, descriptor, refused>>

\* find_files
StartList ==
  /\ Starts(Request("list", "listed"))
  /\ Calls(ListAnswers(offset, FALSE))

\* find_files_with_pattern, of a pattern that everything matches.
StartFind ==
  /\ Starts(Request("list", "listedPlus"))
  /\ Calls(IF fs = "tokio" THEN NotThere ELSE ListAnswers(offset, TRUE) \cup NotThere)

\* Without readdirplus it asks readdir.
FallBack ==
  /\ Returned("listedPlus") /\ reply.cells.status = Err("ENOSYS")
  /\ Calls(ListAnswers(offset, FALSE))
  /\ handler' = [handler EXCEPT !.at = "listed"]
  /\ UNCHANGED <<fs, mix, calls, granted, known, offset, delivered, descriptor, refused>>

\* Mutant: the offset of the last entry there is.
AdvancedToLast(from, entries, n) == from + Len(entries)

\* Mutant: one further than that of the last entry taken.
AdvancedBeyond(from, entries, n) == from + n + 1

\* advance_offset_on_emitted: that of the last entry that Dokan took.
Advanced(from, entries, n) == from + n

\* emit_readdir_entries: Dokan takes the first n.
Delivers(n) ==
  /\ n <= Len(reply.cells.entries)
  /\ delivered' = delivered \o SubSeq(reply.cells.entries, 1, n)
  /\ offset' = Advanced(offset, reply.cells.entries, n)
  /\ handler' = [handler EXCEPT !.at = "delivered", !.whole = n = Len(reply.cells.entries)]

Emit(n) ==
  /\ Returned("listed")
  /\ Delivers(n)
  /\ UNCHANGED <<fs, mix, reply, tasks, calls, granted, known, descriptor, refused>>

\* emit_readdirplus_pattern_entries: an entry is remembered, then offered.
EmitPlus(n) ==
  LET offered == {reply.cells.entries[k] : k \in DOMAIN reply.cells.entries \cap 1 .. n + 1} IN
  /\ Returned("listedPlus") /\ reply.cells.status # Err("ENOSYS")
  /\ Delivers(n)
  /\ known' = [name \in DOMAIN known |->
                 IF name \in offered THEN Remembered(known, name)[name] ELSE known[name]]
  /\ refused' = (refused \/ n < Len(reply.cells.entries))
  /\ UNCHANGED <<fs, mix, reply, tasks, calls, granted, descriptor>>

\* The status is looked at last.
EndList ==
  /\ handler.at = "delivered"
  /\ handler' = Answers(Seen(reply.cells.status))
  /\ UNCHANGED <<fs, reply, tasks, mix, calls, granted, known, offset, delivered,
                 descriptor, refused>>

\* close_file
Close ==
  /\ handler.at = "idle" /\ offset > 0
  /\ offset' = 0 /\ delivered' = << >>
  /\ handler' = Request("none", "idle")
  /\ UNCHANGED <<fs, mix, reply, tasks, calls, granted, known, descriptor, refused>>

\* get_file_security
StartSecurity(buffer) ==
  /\ Starts([Request("security", "probed") EXCEPT !.buffer = buffer])
  /\ Calls(IF fs = "tokio" THEN NotThere ELSE XattrAnswers(0))

\* Mutant: that it fits was decided when the length was reported.
CopiedUnchecked(length, buffer) == length

\* copy_security_descriptor: what does not fit is not copied.
Copied(length, buffer) == IF buffer < length THEN 0 ELSE length

\* The answer with a length and the bytes put into the buffer.
Copies(needed, length) ==
  handler' = [Answers(Holds(needed)) EXCEPT !.needed = needed, !.copied = Copied(length, handler.buffer)]

Probed ==
  LET status == reply.cells.status
      needed == ReportedLength(status.length, reply.cells.hint) IN
  /\ Returned("probed") /\ status.ok /\ needed.ok
  /\ \/ /\ handler.buffer < needed.value
        /\ handler' = [Answers(Holds(needed.value)) EXCEPT !.needed = needed.value]
        /\ UNCHANGED <<reply, tasks>>
     \/ /\ handler.buffer >= needed.value /\ NeedsFetch(status.length, reply.cells.hint)
        /\ handler' = [handler EXCEPT !.at = "fetched", !.needed = needed.value]
        /\ Calls(XattrAnswers(handler.buffer))
     \/ /\ handler.buffer >= needed.value /\ ~NeedsFetch(status.length, reply.cells.hint)
        /\ Copies(needed.value, status.length)
        /\ UNCHANGED <<reply, tasks>>
  /\ UNCHANGED <<fs, mix, calls, granted, known, offset, delivered, descriptor, refused>>

\* fetch_security_descriptor_data: the length reported is that of the probe.
Fetched ==
  /\ Returned("fetched") /\ reply.cells.status.ok
  /\ Copies(handler.needed, reply.cells.status.length)
  /\ UNCHANGED <<fs, reply, tasks, mix, calls, granted, known, offset, delivered,
                 descriptor, refused>>

\* None is stored: one is made up from the attributes, if those can be had.
Synthesize ==
  /\ Returned("probed") \/ Returned("fetched")
  /\ reply.cells.status = Err("NO_XATTR")
  /\ \/ Copies(IF handler.at = "probed" THEN Synthesized ELSE handler.needed, Synthesized)
     \/ handler' = Answers(Err("EIO"))
  /\ UNCHANGED <<fs, reply, tasks, mix, calls, granted, known, offset, delivered,
                 descriptor, refused>>

SecurityFails ==
  /\ Returned("probed") \/ Returned("fetched")
  /\ ~reply.cells.status.ok /\ reply.cells.status # Err("NO_XATTR")
  /\ handler' = Answers(Seen(reply.cells.status))
  /\ UNCHANGED <<fs, reply, tasks, mix, calls, granted, known, offset, delivered,
                 descriptor, refused>>

-----------------------------------------------------------------------------

Init ==
  /\ fs \in {"direct", "tokio"}
  /\ reply = [number |-> 0, cells |-> EmptyCells] /\ tasks = {}
  /\ handler = Request("none", "idle")
  /\ mix \in Mixes /\ calls = 0
  /\ granted = [name \in Children |-> 0]
  /\ known = [name \in Range(Directory) |-> 0]
  /\ offset = 0 /\ delivered = << >>
  /\ descriptor \in IF "security" \in mix THEN Lengths \cup {0} ELSE {0}
  /\ refused = FALSE

Next ==
  \/ \E t \in tasks : Answer(t)
  \/ Change
  \/ \E name \in Children : StartLookup(name)
  \/ EndLookup \/ StartList \/ StartFind \/ FallBack
  \/ \E n \in 0 .. Len(Directory) : Emit(n) \/ EmitPlus(n)
  \/ EndList \/ Close
  \/ \E buffer \in Buffers : StartSecurity(buffer)
  \/ Probed \/ Fetched \/ Synthesize \/ SecurityFails

Spec == Init /\ [][Next]_vars

-----------------------------------------------------------------------------
(* Correctness *)

TypeOK ==
  /\ fs \in {"direct", "tokio"} /\ calls \in 0 .. MaxCalls
  /\ \A t \in tasks : t.number \in 1 .. reply.number /\ t.writes # << >>
  /\ reply.number \in Nat /\ reply.cells.status.ok \in BOOLEAN
  /\ granted \in [Children -> Nat] /\ known \in [Range(Directory) -> Nat]
  /\ offset \in 0 .. Len(Directory)
  /\ descriptor \in Lengths \cup {0}

Idle(kind) == handler.at = "idle" /\ handler.kind = kind

\* A walk gets the inode of the name it asked for, whatever other answers are
\* still to come: a late answer goes to a reply nobody looks at any more
\* (experimental.rs:128, path_routes.rs:92).
OwnAnswers ==
  Idle("lookup") /\ handler.answer.ok => handler.answer.name = handler.asked

\* A listing that was answered with success and of which nothing was refused
\* has delivered the whole directory (dispatch.rs:113).  Not behind
\* TokioAdapter: entries that come between the two looks are lost, and the
\* status of success that follows them is seen.
ListingsComplete ==
  fs = "direct" /\ Idle("list") /\ handler.answer.ok /\ handler.whole =>
    delivered = Directory

\* What Dokan has got is the beginning of the directory up to the offset that
\* is kept, without a gap or a repetition: over calls that failed, that Dokan
\* cut short, that were answered late or without a status (directory_routes.rs:39).
DeliveredInOrder == delivered = SubSeq(Directory, 1, offset)

\* The resolver forgets no lookup of a child that it was not granted; and it
\* knows of all of them at rest, unless Dokan refused an entry of readdirplus
\* (those after it are never remembered, directory_routes.rs:157), or an answer
\* came too late.  "." and ".." are no children: they are remembered although
\* nothing is granted for them (directory_routes.rs:130).
LookupsKept ==
  \A name \in Children :
    /\ known[name] <= granted[name]
    /\ fs = "direct" /\ handler.at = "idle" /\ ~refused => known[name] = granted[name]

\* No more is copied than the buffer holds, also when the descriptor grows
\* between the probe and the fetch (security.rs:118).
CopyFits == handler.copied <= handler.buffer

\* Windows is told the length of what it was given, unless the descriptor was
\* replaced between the probe and the fetch: then the length is that of the
\* old one (security_locks_streams.rs:323).
DescriptorWhole ==
  Idle("security") /\ handler.answer.ok /\ handler.needed <= handler.buffer /\ ~handler.changed =>
    handler.copied = handler.needed

=============================================================================
