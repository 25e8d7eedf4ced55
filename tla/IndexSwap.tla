------------------------------ MODULE IndexSwap ------------------------------
(***************************************************************************)
(* The life of the index files: the /build and /search handlers of main.cpp*)
(* around TrigramBuilder::build and TrigramQuery.  A build writes the five *)
(* files of a new index under names that end in .new and then renames them,*)
(* one by one, over the files that searches open, one by one.  Builds      *)
(* exclude each other with build_mutex; searches take no lock.             *)
(*                                                                         *)
(* A file is the value it was given: the text itself for content.bin, the  *)
(* ids for ids.bin, and for the other three the text they were built from  *)
(* (TrigramIndex says what is in them).  A file that a search has opened   *)
(* stays what it was: rename replaces a directory entry, not a file, and a *)
(* build creates its files under names that no search opens.               *)
(***************************************************************************)
EXTENDS TrigramQuery

CONSTANTS
  Builder, Searcher,  \* the requests to /build and to /search
  NoBuilder,          \* owns the mutex when nobody does
  Modes,              \* what builds are asked for: "db", "linear" (debug&ids=linear)
  Tables,             \* the successive states of the database table words
  Uploads,            \* texts somebody may put in place as content.bin.new
  Queries,            \* query strings
  MaxFaults           \* bound: renames that fail, and times the process is stopped

ASSUME IndexSwapAssumption ==
  /\ Builder \cap Searcher = {} /\ NoBuilder \notin Builder
  /\ Modes \subseteq {"db", "linear"}
  /\ Tables \in Seq(Seq([id : Nat, word : Seq(ByteValue)])) \ {<<>>}
  /\ Uploads \subseteq Seq(ByteValue)
  /\ MaxFaults \in Nat

Files == {"mapping", "index", "offsets", "ids", "content"}

(* Faulty variant of the next definition: a rename is forgotten.           *)
OffsetsForgotten == <<"mapping", "index", "ids", "content">>

(* The order of replace_active_index, and of TrigramQuery's constructor    *)
(* followed by query().                                                    *)
FileOrder == <<"mapping", "index", "offsets", "ids", "content">>

Missing == <<>>

VARIABLES
  table,      \* index into Tables of the table's present state
  fresh,      \* the files whose names end in .new
  active,     \* the files that searches open
  holder,     \* the build that owns build_mutex
  pc,         \* program counter of each request
  mode,       \* what each build was asked for
  rows,       \* the state of the table a build fetches
  text,       \* a build's input_file
  step,       \* the place in FileOrder a build's renames or a search's opens are at
  reply,      \* the status of each build's answer
  before,     \* the active files when a build took the mutex (for the properties)
  query,      \* the query of each search
  got,        \* the files each search has opened
  result,     \* each search's answer
  disturbed,  \* a search met a swap in progress (for the properties)
  cut,        \* the last swap to begin lost a rename, or the process within it
              \* (for the properties)
  faults, uploaded   \* count against the bounds

buildVars  == <<mode, rows, text, reply, before>>
searchVars == <<query, got, result>>
noteVars   == <<disturbed, cut>>
envVars    == <<table, faults, uploaded>>
vars == <<fresh, active, holder, pc, step, buildVars, searchVars, noteVars, envVars>>

Request == Builder \cup Searcher

NoResult == [status |-> "none", ids |-> <<>>]
NoFiles  == [f \in Files |-> Missing]

(* What request_content writes for a state of the table.                   *)
TextOf(t) == FlattenSeq([n \in DOMAIN t |-> Append(t[n].word, Newline)])
IdsOf(t)  == [n \in DOMAIN t |-> t[n].id]
Zeros(n)  == [k \in 1 .. n |-> 0]

(* The texts of the instance, and the files that are built from each.      *)
TableTexts == { TextOf(t) : t \in Range(Tables) }
Texts      == TableTexts \cup { Zeros(Len(c)) : c \in TableTexts } \cup Uploads
Built      == [c \in Texts |-> [mapping |-> MappingFile(c), index |-> IndexFile(c),
                               offsets |-> OffsetsFile(c)]]

Goto(r, label) == pc' = [pc EXCEPT ![r] = label]

Init ==
  /\ table = 1
  /\ fresh = NoFiles /\ active = NoFiles
  /\ holder = NoBuilder
  /\ pc = [r \in Request |-> "idle"]
  /\ mode \in [Builder -> Modes]
  /\ rows = [b \in Builder |-> 1]
  /\ text = [b \in Builder |-> <<>>]
  /\ step = [r \in Request |-> 1]
  /\ reply = [b \in Builder |-> "none"]
  /\ before = [b \in Builder |-> NoFiles]
  /\ query \in [Searcher -> Queries]
  /\ got = [s \in Searcher |-> NoFiles]
  /\ result = [s \in Searcher |-> NoResult]
  /\ disturbed = [s \in Searcher |-> FALSE] /\ cut = FALSE
  /\ faults = 0 /\ uploaded = FALSE

-----------------------------------------------------------------------------
(* Faulty variants of steps below, to show that the properties can fail.   *)
(* They are no part of Next.                                               *)

(* The handler without its lock_guard.                                     *)
LockNothing(b) ==
  /\ pc[b] = "lock"
  /\ holder' = b
  /\ before' = [before EXCEPT ![b] = active]
  /\ Goto(b, IF mode[b] = "db" THEN "fetch" ELSE "open")
  /\ UNCHANGED <<fresh, active, step, mode, rows, text, reply, searchVars, noteVars, envVars>>

(* The content is written where searches read it.                          *)
FetchInPlace(b) ==
  /\ pc[b] = "fetch"
  /\ rows' = [rows EXCEPT ![b] = table]
  /\ fresh' = [fresh EXCEPT !["content"] = Zeros(Len(TextOf(Tables[table]))),
                            !["ids"]     = Zeros(Len(Tables[table]))]
  /\ active' = [active EXCEPT !["content"] = Zeros(Len(TextOf(Tables[table])))]
  /\ Goto(b, "fill")
  /\ UNCHANGED <<holder, step, mode, text, reply, before, searchVars, noteVars, envVars>>

(* The search maps the ids that a build is writing.                        *)
OpenUnfinished(s) ==
  /\ pc[s] = "opening" /\ step[s] \in DOMAIN FileOrder
  /\ LET f == FileOrder[step[s]]
     IN  IF active[f] # Missing
         THEN /\ got' = [got EXCEPT ![s] = [@ EXCEPT ![f] = IF f = "ids" THEN fresh[f]
                                                                       ELSE active[f]]]
              /\ step' = [step EXCEPT ![s] = @ + 1]
              /\ UNCHANGED <<pc, result>>
         ELSE /\ result' = [result EXCEPT ![s] = Error]
              /\ Goto(s, "answered")
              /\ UNCHANGED <<got, step>>
  /\ UNCHANGED <<fresh, active, holder, buildVars, query, noteVars, envVars>>

(* The renames miss every second file.                                     *)
RenameSkipping(b) ==
  /\ pc[b] = "rename" /\ step[b] \in DOMAIN FileOrder
  /\ LET f == FileOrder[step[b]]
     IN  /\ fresh[f] # Missing
         /\ active' = [active EXCEPT ![f] = fresh[f]]
         /\ fresh' = [fresh EXCEPT ![f] = Missing]
  /\ step' = [step EXCEPT ![b] = @ + 2]
  /\ UNCHANGED <<holder, pc, buildVars, searchVars, noteVars, envVars>>

-----------------------------------------------------------------------------
(* The /build handler.                                                     *)

Arrive(b) ==
  /\ pc[b] = "idle"
  /\ Goto(b, "lock")
  /\ UNCHANGED <<fresh, active, holder, step, buildVars, searchVars, noteVars, envVars>>

(* std::lock_guard build_in_progress(build_mutex).                         *)
Lock(b) ==
  /\ pc[b] = "lock" /\ holder = NoBuilder
  /\ holder' = b
  /\ before' = [before EXCEPT ![b] = active]
  /\ Goto(b, IF mode[b] = "db" THEN "fetch" ELSE "open")
  /\ UNCHANGED <<fresh, active, step, mode, rows, text, reply, searchVars, noteVars, envVars>>

(* The handler ends with an exception: the mutex is released on the way to *)
(* the exception handler, which answers 500.                               *)
Fail(b) ==
  /\ holder' = NoBuilder
  /\ reply' = [reply EXCEPT ![b] = "500"]
  /\ Goto(b, "answered")
  /\ UNCHANGED <<fresh, active, step, mode, rows, text, before, searchVars, noteVars, envVars>>

(* request_content creates content.bin.new and ids.bin.new at their size,  *)
(* filled with zeros, ...                                                  *)
FetchCreate(b) ==
  /\ pc[b] = "fetch"
  /\ rows' = [rows EXCEPT ![b] = table]
  /\ fresh' = [fresh EXCEPT !["content"] = Zeros(Len(TextOf(Tables[table]))),
                            !["ids"]     = Zeros(Len(Tables[table]))]
  /\ Goto(b, "fill")
  /\ UNCHANGED <<active, holder, step, mode, text, reply, before, searchVars, noteVars, envVars>>

(* ... and then fills them.                                                *)
FetchFill(b) ==
  /\ pc[b] = "fill"
  /\ fresh' = [fresh EXCEPT !["content"] = TextOf(Tables[rows[b]]),
                            !["ids"]     = IdsOf(Tables[rows[b]])]
  /\ Goto(b, "open")
  /\ UNCHANGED <<active, holder, step, buildVars, searchVars, noteVars, envVars>>

(* The database is not there, or its connection breaks.                    *)
FetchFails(b) == pc[b] \in {"fetch", "fill"} /\ Fail(b)

(* build() maps content.bin.new, which an earlier build may have used up.  *)
OpenContent(b) ==
  /\ pc[b] = "open" /\ fresh["content"] # Missing
  /\ text' = [text EXCEPT ![b] = fresh["content"]]
  /\ Goto(b, "offsets")
  /\ UNCHANGED <<fresh, active, holder, step, mode, rows, reply, before, searchVars,
                 noteVars, envVars>>

OpenFails(b) == pc[b] = "open" /\ fresh["content"] = Missing /\ Fail(b)

(* Some of a build's renames are done and some are not.                    *)
HalfSwapped ==
  \E b \in Builder : pc[b] = "rename" /\ step[b] \in 2 .. Len(FileOrder)

(* The server process ends: the requests it was serving get no answer.  It *)
(* is started again and finds the files as they are.                       *)
ProcessEnds ==
  /\ holder' = NoBuilder
  /\ pc' = [r \in Request |-> IF pc[r] = "idle" THEN "idle" ELSE "answered"]
  /\ reply' = [b \in Builder |-> IF pc[b] \in {"idle", "answered"} THEN reply[b] ELSE "lost"]
  /\ cut' = (cut \/ HalfSwapped)
  /\ UNCHANGED <<fresh, active, step, mode, rows, text, before, query, got, disturbed,
                 table, uploaded>>

(* The threads of create_shards survive the text: longest_line - 2 does    *)
(* not wrap around.                                                        *)
Shardable(b) == LongestLine(text[b]) >= 2

(* create_offsets_file; create_shards, process_shards and create_mapping;  *)
(* and build_ids write their files from the text.                          *)
WriteFile(b) ==
  /\ \/ /\ pc[b] = "offsets" /\ Goto(b, "index")
        /\ fresh' = [fresh EXCEPT !["offsets"] = text[b]]
     \/ /\ pc[b] = "index" /\ Shardable(b)
        /\ Goto(b, IF mode[b] = "linear" THEN "ids" ELSE "rename")
        /\ fresh' = [fresh EXCEPT !["mapping"] = text[b], !["index"] = text[b]]
     \/ /\ pc[b] = "ids" /\ Goto(b, "rename")
        /\ fresh' = [fresh EXCEPT !["ids"] = LinearIds(text[b])]
  /\ UNCHANGED <<active, holder, step, buildVars, searchVars, noteVars, envVars>>

(* In any other text an exception leaves a thread: std::terminate.         *)
BuildKills(b) ==
  /\ pc[b] = "index" /\ ~Shardable(b)
  /\ ProcessEnds
  /\ UNCHANGED <<result, faults>>

(* A MemoryMappedFile cannot be created.                                   *)
WriteFails(b) == pc[b] \in {"offsets", "index", "ids"} /\ Fail(b)

(* The searches that are opening files.                                    *)
Opening(s) == pc[s] = "opening" /\ step[s] > 1

(* One of replace_active_index's renames.                                  *)
Rename(b) ==
  /\ pc[b] = "rename" /\ step[b] \in DOMAIN FileOrder
  /\ LET f == FileOrder[step[b]]
     IN  /\ fresh[f] # Missing
         /\ active' = [active EXCEPT ![f] = fresh[f]]
         /\ fresh' = [fresh EXCEPT ![f] = Missing]
  /\ step' = [step EXCEPT ![b] = @ + 1]
  /\ disturbed' = [s \in Searcher |-> disturbed[s] \/ Opening(s)]
  /\ cut' = (step[b] > 1 /\ cut)
  /\ UNCHANGED <<holder, pc, buildVars, searchVars, envVars>>

(* A rename that fails is reported on stderr; the runtime_error is made    *)
(* and not thrown, so the next rename follows.                             *)
RenameFails(b) ==
  /\ pc[b] = "rename" /\ step[b] \in DOMAIN FileOrder
  /\ IF fresh[FileOrder[step[b]]] = Missing
     THEN UNCHANGED faults
     ELSE faults < MaxFaults /\ faults' = faults + 1
  /\ step' = [step EXCEPT ![b] = @ + 1]
  /\ cut' = TRUE
  /\ UNCHANGED <<fresh, active, holder, pc, buildVars, searchVars, disturbed, table,
                 uploaded>>

(* res.status = 200, "index rebuilt", and the mutex is released.           *)
Renamed(b) == pc[b] = "rename" /\ step[b] \notin DOMAIN FileOrder

Reply(b) ==
  /\ Renamed(b)
  /\ holder' = NoBuilder
  /\ reply' = [reply EXCEPT ![b] = "200"]
  /\ Goto(b, "answered")
  /\ UNCHANGED <<fresh, active, step, mode, rows, text, before, searchVars, noteVars, envVars>>

-----------------------------------------------------------------------------
(* The /search handler.                                                    *)

Search(s) ==
  /\ pc[s] = "idle"
  /\ Goto(s, "opening")
  /\ UNCHANGED <<fresh, active, holder, step, buildVars, searchVars, noteVars, envVars>>

(* A file of no bytes can be opened but not mapped.                        *)
Mappable(f) ==
  active[f] # Missing /\ (f = "index" => Built[active[f]].index # <<>>)

Open(s) ==
  /\ pc[s] = "opening" /\ step[s] \in DOMAIN FileOrder
  /\ LET f == FileOrder[step[s]]
     IN  \/ /\ Mappable(f)
            /\ got' = [got EXCEPT ![s] = [@ EXCEPT ![f] = active[f]]]
            /\ step' = [step EXCEPT ![s] = @ + 1]
            /\ UNCHANGED <<pc, result>>
         \/ /\ ~Mappable(f)
            /\ result' = [result EXCEPT ![s] = Error]
            /\ Goto(s, "answered")
            /\ UNCHANGED <<got, step>>
  /\ disturbed' = [disturbed EXCEPT ![s] = @ \/ HalfSwapped \/ cut]
  /\ UNCHANGED <<fresh, active, holder, buildVars, query, cut, envVars>>

(* The rest of query(), on files that no longer change.                    *)
Answer(s) ==
  /\ pc[s] = "opening" /\ step[s] \notin DOMAIN FileOrder
  /\ \E a \in Answers(query[s], Built[got[s].mapping].mapping, Built[got[s].index].index,
                      Built[got[s].offsets].offsets, got[s].ids, got[s].content) :
       /\ result' = [result EXCEPT ![s] = a]
       /\ IF a = Killed
          THEN ProcessEnds /\ UNCHANGED faults
          ELSE /\ Goto(s, "answered")
               /\ UNCHANGED <<fresh, active, holder, step, buildVars, query, got, noteVars,
                              envVars>>

-----------------------------------------------------------------------------
(* The environment.                                                        *)

(* The table is edited, but not between the two statements of a build:     *)
(* ContentFetch shows what comes of that.                                  *)
EditTable ==
  /\ table < Len(Tables)
  /\ \A b \in Builder : pc[b] # "fill"
  /\ table' = table + 1
  /\ UNCHANGED <<fresh, active, holder, pc, step, buildVars, searchVars, noteVars,
                 faults, uploaded>>

(* A text is put in place for a linear build, while none is running.       *)
Upload ==
  /\ ~uploaded /\ holder = NoBuilder
  /\ uploaded' = TRUE
  /\ \E u \in Uploads : fresh' = [fresh EXCEPT !["content"] = u]
  /\ UNCHANGED <<active, holder, pc, step, buildVars, searchVars, noteVars, table,
                 faults>>

Crash ==
  /\ faults < MaxFaults
  /\ faults' = faults + 1
  /\ ProcessEnds
  /\ UNCHANGED result

(* Nothing is left to do; keeps TLC's deadlock check on everywhere else.   *)
Idle == (\A r \in Request : pc[r] = "answered") /\ UNCHANGED vars

BuildStep(b) ==
  \/ FetchCreate(b) \/ FetchFill(b) \/ FetchFails(b) \/ OpenContent(b) \/ OpenFails(b)
  \/ WriteFile(b) \/ BuildKills(b) \/ WriteFails(b)
  \/ Rename(b) \/ RenameFails(b) \/ Reply(b)

Next ==
  \/ \E b \in Builder : Arrive(b) \/ Lock(b) \/ BuildStep(b)
  \/ \E s \in Searcher : Search(s) \/ Open(s) \/ Answer(s)
  \/ EditTable \/ Upload \/ Crash \/ Idle

Spec == Init /\ [][Next]_vars

-----------------------------------------------------------------------------
(***************************************************************************)
(* Properties.                                                             *)
(***************************************************************************)

(* The type of every variable.                                             *)
TypeOK ==
  /\ table \in DOMAIN Tables
  /\ fresh \in [Files -> Seq(Nat)] /\ active \in [Files -> Seq(Nat)]
  /\ holder \in Builder \cup {NoBuilder}
  /\ \A b \in Builder : pc[b] \in {"idle", "lock", "fetch", "fill", "open", "offsets",
                                   "index", "ids", "rename", "answered"}
  /\ \A s \in Searcher : pc[s] \in {"idle", "opening", "answered"}
  /\ mode \in [Builder -> Modes]
  /\ rows \in [Builder -> DOMAIN Tables]
  /\ text \in [Builder -> Seq(ByteValue)]
  /\ step \in [Request -> 1 .. Len(FileOrder) + 1]
  /\ reply \in [Builder -> {"none", "200", "500", "lost"}]
  /\ before \in [Builder -> [Files -> Seq(Nat)]]
  /\ query \in [Searcher -> Queries]
  /\ got \in [Searcher -> [Files -> Seq(Nat)]]
  /\ \A s \in Searcher : result[s].status \in {"none", "200", "500", "killed"}
  /\ disturbed \in [Searcher -> BOOLEAN] /\ cut \in BOOLEAN
  /\ faults \in 0 .. MaxFaults /\ uploaded \in BOOLEAN

(* The ids belong to the lines of the text.                                *)
Belong(ids, c) ==
  ids = LinearIds(c) \/ \E t \in Range(Tables) : ids = IdsOf(t) /\ c = TextOf(t)

(* The five files are those of one build.                                  *)
OneIndex(files) ==
  /\ \A f \in Files : files[f] # Missing
  /\ \A f \in Files \ {"ids"} : files[f] = files["content"]
  /\ Belong(files["ids"], files["content"])

(***************************************************************************)
(* "They might overwrite each others shards / output files": they do not.  *)
(* However many builds are asked for, and whatever earlier ones left behind*)
(* when they failed, the .new files a build is about to rename are all     *)
(* there and all its own; and build_mutex belongs to the one build that is *)
(* at work, so that none leaves its handler, with an answer or with an     *)
(* exception, and takes the mutex with it.                                 *)
(***************************************************************************)
PromotesItsOwn ==
  \A b \in Builder :
    /\ holder = b <=> pc[b] \notin {"idle", "lock", "answered"}
    /\ pc[b] = "rename" /\ step[b] = 1 => OneIndex(fresh) /\ fresh["content"] = text[b]

(***************************************************************************)
(* Between swaps the active files are one index, or there is none yet,     *)
(* unless the last swap lost a rename or was cut short by the end of the   *)
(* process; and then the next build that gets through its swap, with       *)
(* whatever .new files were left lying about, makes them one index again.  *)
(***************************************************************************)
SettledIndex ==
  ~HalfSwapped /\ ~cut => OneIndex(active) \/ active = NoFiles

(***************************************************************************)
(* A search that no swap disturbs has opened the files of one index, and   *)
(* gets exactly the lines that hold its query there, however many builds   *)
(* write their .new files meanwhile.  It is refused if its query has no    *)
(* trigram, or if there is a file it cannot map.                           *)
(***************************************************************************)
Refused(s) ==
  \/ \E f \in Files : got[s][f] = Missing
  \/ Len(query[s]) < 3

QuietSearchExact ==
  \A s \in Searcher :
    result[s] # NoResult /\ ~disturbed[s] =>
      IF Refused(s) THEN result[s] = Error
      ELSE /\ OneIndex(got[s])
           /\ result[s] = Truth(query[s], got[s].ids, got[s].content)

(***************************************************************************)
(* A build that is answered with an error has left the index that searches *)
(* use as it found it.                                                     *)
(***************************************************************************)
FailedBuildKeepsIndex ==
  [][\A b \in Builder : reply[b] # "500" /\ reply'[b] = "500" => active' = before[b]]_vars

(***************************************************************************)
(* "Build the index based on the file": no text ends the process, so that  *)
(* a build is lost only by a crash.  The code does not keep to it: it may  *)
(* take longest_line - 2 below zero.                                       *)
(***************************************************************************)
BuildSurvives == \A b \in Builder : reply[b] = "lost" => faults > 0

(***************************************************************************)
(* "index rebuilt": a build that answers this has put its index in place.  *)
(***************************************************************************)
RebuiltMeansServed ==
  \A b \in Builder : Renamed(b) => OneIndex(active) /\ active["content"] = text[b]

(***************************************************************************)
(* The lines a search returns are lines "where the query is definitely     *)
(* part": each id it gives belongs to a word that held the query in some   *)
(* state the table has had.                                                *)
(***************************************************************************)
DefinitelyPart ==
  \A s \in Searcher :
    \A id \in Range(result[s].ids) :
      \E n \in 1 .. table : 
        id \in Range(Truth(query[s], IdsOf(Tables[n]), TextOf(Tables[n])).ids)
=============================================================================
