--------------------------- MODULE SpeechArchive ---------------------------
(***************************************************************************)
(* Speech of the agent and its archive: the tts, voice_event, voice_report *)
(* and tts_upload handlers of crates/b3-cli/src/daemon/web.rs, the GPU     *)
(* client the daemon speaks through when no browser does (gpu_client.rs),  *)
(* and the archive of WAV files with its index (tts_archive.rs).           *)
(*                                                                         *)
(* Each message has one task, the tts handler's and then the one it spawns *)
(* (generation, or the watchdog); each upload is a task of its own.  Every *)
(* await between two accesses of shared state is a step boundary.  A       *)
(* message is a name; its audio is the set of chunks that are in it.       *)
(***************************************************************************)
EXTENDS Naturals, Sequences, FiniteSets, SequencesExt

CONSTANTS
  Message,      \* message ids; bound: the calls of tts
  Upload,       \* bound: the calls of tts_upload that run at once
  MaxEntries,   \* MAX_ENTRIES of the archive
  MaxAudio,     \* bound: the chunks the worker makes of a message
  MaxEvents,    \* bound: the events browsers report
  MaxCrashes,   \* bound: the crashes of the daemon
  NoTask, NoMessage

ASSUME SpeechArchiveAssumption ==
  /\ MaxEntries \in Nat \ {0} /\ MaxAudio \in Nat \ {0} /\ MaxEvents \in Nat
  /\ Message \cap Upload = {} /\ NoTask \notin Message \cup Upload
  /\ NoMessage \notin Message /\ MaxCrashes \in Nat

VARIABLES
  audio_browser,  \* some browser with an audio context is connected
  spc,            \* the task of a message: next step
  live_clients,   \* what its pre-flight counted: was there such a browser
  heard,          \* the TtsStream event reached such a browser
  tts_progress,   \* "none", a "recent" or an "old" (30 s) event of a browser
  produced,       \* chunks the worker has made of the daemon's own job
  returned,       \* how many of them /stream has returned: it returns each once
  ended,          \* the job is over
  chunks,         \* all_chunks: those the daemon got
  store,          \* step of the task in TtsArchive::store or before it
  uploading,      \* the message an upload is about
  writer,         \* the task that holds the index lock for writing
  index, index_file, wav_files,
  evicted,        \* history: messages ever evicted
  report,         \* statuses reported to the voice job ledger; also, as history,
                  \* "unstored", "hung", "crashed", that nobody is told
  browser_events, crashes

tasksVars == <<spc, live_clients, store, uploading, writer>>
listenerVars == <<audio_browser, heard, tts_progress, browser_events>>
speechWorkerVars == <<produced, returned, ended, chunks>>
archiveVars == <<index, index_file, wav_files, evicted>>
speechVars == <<tasksVars, listenerVars, speechWorkerVars, archiveVars, report, crashes>>

Speaker == Message \cup Upload
At(m, here, next) == spc[m] = here /\ spc' = [spc EXCEPT ![m] = next]
Storing(p, here, next) == store[p] = here /\ store' = [store EXCEPT ![p] = next]
MessageOf(p) == IF p \in Message THEN p ELSE uploading[p]

\* contains: the index is read under its lock.
Readable == writer = NoTask
Archived(m) == m \in ToSet(index)

\* What is reported about m is sent in the background.
Report(m, status) == report' = [report EXCEPT ![m] = @ \cup {status}]

----------------------------------------------------------------------------
(* POST /api/tts *)

\* Pre-flight: browsers with an audio context are counted, and the job is
\* registered in the ledger.
Preflight(m) ==
  /\ At(m, "new", "conditionals")
  /\ live_clients' = [live_clients EXCEPT ![m] = audio_browser]
  /\ Report(m, "registered")
  /\ UNCHANGED <<store, uploading, writer, listenerVars, speechWorkerVars, archiveVars,
                 crashes>>

\* The voice's conditionals come from the cache or from the server; without them
\* the message is dispatched as well.
FetchConditionals(m) ==
  /\ At(m, "conditionals", "dispatch")
  /\ UNCHANGED <<live_clients, store, uploading, writer, listenerVars, speechWorkerVars,
                 archiveVars, report, crashes>>

\* The event goes to the browsers that are there now; who speaks is decided by
\* the count of before.
Dispatch(m) ==
  /\ At(m, "dispatch", IF live_clients[m] THEN "watch" ELSE "submit")
  /\ heard' = [heard EXCEPT ![m] = audio_browser]
  /\ UNCHANGED <<live_clients, store, uploading, writer, audio_browser,
                 tts_progress, browser_events, speechWorkerVars, archiveVars, report,
                 crashes>>

\* The watchdog, after 30 s: a message that is in the archive is left alone.
WatchdogLooks(m) ==
  /\ Readable
  /\ At(m, "watch", IF Archived(m) THEN "over" ELSE "judge")
  /\ tts_progress' = IF Archived(m) THEN [tts_progress EXCEPT ![m] = "none"]
                     ELSE tts_progress
  /\ UNCHANGED <<live_clients, store, uploading, writer, audio_browser, heard,
                 browser_events, speechWorkerVars, archiveVars, report, crashes>>

\* Mutant: any progress keeps the watchdog waiting, however old.
WatchdogTrusts(m) ==
  /\ At(m, "judge", IF tts_progress[m] # "none" THEN "watch" ELSE "submit")
  /\ tts_progress' = IF tts_progress[m] # "none" THEN tts_progress
                     ELSE [tts_progress EXCEPT ![m] = "none"]
  /\ UNCHANGED <<live_clients, store, uploading, writer, audio_browser, heard,
                 browser_events, speechWorkerVars, archiveVars, report, crashes>>

\* A browser that reported something in the last 30 s gets 30 s more; for any
\* other the daemon speaks itself.
WatchdogJudges(m) ==
  /\ At(m, "judge", IF tts_progress[m] = "recent" THEN "watch" ELSE "submit")
  /\ tts_progress' = IF tts_progress[m] = "recent" THEN tts_progress
                     ELSE [tts_progress EXCEPT ![m] = "none"]
  /\ UNCHANGED <<live_clients, store, uploading, writer, audio_browser, heard,
                 browser_events, speechWorkerVars, archiveVars, report, crashes>>

----------------------------------------------------------------------------
(* daemon_generate_and_archive and the GPU client *)

\* The generation of m fails: that is reported.
GenerationFails(m, here) ==
  /\ At(m, here, "over")
  /\ Report(m, "failed")
  /\ UNCHANGED <<live_clients, store, uploading, writer, listenerVars, speechWorkerVars,
                 archiveVars, crashes>>

\* The voice is looked up, and the job goes to the local GPU or else to RunPod.
Submit(m) ==
  /\ At(m, "submit", "poll")
  /\ UNCHANGED <<live_clients, store, uploading, writer, listenerVars, speechWorkerVars,
                 archiveVars, report, crashes>>

\* Neither takes the job, or an answer of one cannot be read.
SubmitFails(m) == GenerationFails(m, "submit")

\* What a response of /stream says: the chunks made since the last one, and
\* whether that was all.
StreamResponse(m) ==
  [chunks |-> returned[m] + 1 .. produced[m], done |-> ended[m]]

PollStream(m) ==
  /\ spc[m] = "poll"
  /\ chunks' = [chunks EXCEPT ![m] = @ \cup StreamResponse(m).chunks]
  /\ returned' = [returned EXCEPT ![m] = produced[m]]
  /\ spc' = [spc EXCEPT ![m] = IF StreamResponse(m).done THEN "stitch" ELSE "poll"]
  /\ UNCHANGED <<live_clients, store, uploading, writer, listenerVars, produced,
                 ended, archiveVars, report, crashes>>

\* A poll is answered, but not to the daemon: what it returned is gone.
PollLost(m) ==
  /\ spc[m] = "poll" /\ returned[m] < produced[m]
  /\ returned' = [returned EXCEPT ![m] = produced[m]]
  /\ UNCHANGED <<tasksVars, listenerVars, produced, ended, chunks, archiveVars,
                 report, crashes>>

\* After ten empty polls the job's status ends the polling, also when it is
\* FAILED or CANCELLED.
PollStatus(m) ==
  /\ At(m, "poll", "stitch")
  /\ ended[m] /\ returned[m] = produced[m]
  /\ UNCHANGED <<live_clients, store, uploading, writer, listenerVars, speechWorkerVars,
                 archiveVars, report, crashes>>

\* MAX_POLL_TIME is over, or a response cannot be read.
PollFails(m) == GenerationFails(m, "poll")

\* Gaps are skipped; no chunk at all is an error.
Stitch(m) ==
  /\ chunks[m] # {}
  /\ At(m, "stitch", "over")
  /\ Storing(m, "idle", "wav")
  /\ UNCHANGED <<live_clients, uploading, writer, listenerVars, speechWorkerVars,
                 archiveVars, report, crashes>>

\* No request of the GPU client but the local /run has a timeout: one to a server
\* that falls silent is waited for for ever.
RequestHangs(m) ==
  /\ spc[m] \in {"conditionals", "submit", "poll"}
  /\ spc' = [spc EXCEPT ![m] = "over"]
  /\ Report(m, "hung")
  /\ UNCHANGED <<live_clients, store, uploading, writer, listenerVars, speechWorkerVars,
                 archiveVars, crashes>>

StitchFails(m) == chunks[m] = {} /\ GenerationFails(m, "stitch")

\* The worker (external): it makes chunks, and its job ends, done or failed.
WorkerMakes(m) ==
  /\ spc[m] = "poll" /\ ~ended[m] /\ produced[m] < MaxAudio
  /\ produced' = [produced EXCEPT ![m] = @ + 1]
  /\ UNCHANGED <<tasksVars, listenerVars, returned, ended, chunks, archiveVars,
                 report, crashes>>

WorkerEnds(m) ==
  /\ spc[m] = "poll" /\ ~ended[m]
  /\ ended' = [ended EXCEPT ![m] = TRUE]
  /\ UNCHANGED <<tasksVars, listenerVars, produced, returned, chunks, archiveVars,
                 report, crashes>>

----------------------------------------------------------------------------
(* POST /api/tts-upload and TtsArchive::store *)

\* A browser that heard of m uploads its audio; it looks into the archive first.
UploadChecks(u, m) ==
  /\ heard[m] /\ uploading[u] = NoMessage /\ Readable
  /\ ~Archived(m)   \* else "already_archived"
  /\ uploading' = [uploading EXCEPT ![u] = m]
  /\ Storing(u, "idle", "wav")
  /\ UNCHANGED <<spc, live_clients, writer, listenerVars, speechWorkerVars, archiveVars,
                 report, crashes>>

\* The task p returns from store; an upload's handler returns too.
Returns(p) == uploading' = IF p \in Upload THEN [uploading EXCEPT ![p] = NoMessage]
                           ELSE uploading

\* Mutant: a write that failed goes on as if it had not.
WriteWavUnchecked(p) ==
  /\ Storing(p, "wav", "lock")
  /\ wav_files' \in {wav_files, wav_files \cup {MessageOf(p)}}
  /\ UNCHANGED <<spc, live_clients, uploading, writer, listenerVars, speechWorkerVars,
                 index, index_file, evicted, report, crashes>>

\* The audio is written first, with no lock held.
WriteWav(p) ==
  /\ Storing(p, "wav", "lock")
  /\ wav_files' = wav_files \cup {MessageOf(p)}
  /\ UNCHANGED <<spc, live_clients, uploading, writer, listenerVars, speechWorkerVars,
                 index, index_file, evicted, report, crashes>>

\* A file that cannot be written: an upload reports it, the daemon only logs.
WriteWavFails(p) ==
  /\ Storing(p, "wav", "idle")
  /\ Returns(p)
  /\ LET status == IF p \in Upload THEN "failed" ELSE "unstored"
     IN  Report(MessageOf(p), status)
  /\ UNCHANGED <<spc, live_clients, writer, listenerVars, speechWorkerVars, archiveVars,
                 crashes>>

LockIndex(p) ==
  /\ Readable /\ Storing(p, "lock", "evict")
  /\ writer' = p
  /\ UNCHANGED <<spc, live_clients, uploading, listenerVars, speechWorkerVars,
                 archiveVars, report, crashes>>

\* The oldest entry goes, and its file, if that can be removed.
Evict(p) ==
  /\ store[p] = "evict" /\ Len(index) >= MaxEntries
  /\ index' = Tail(index)
  /\ wav_files' \in {wav_files, wav_files \ {Head(index)}}
  /\ evicted' = evicted \cup {Head(index)}
  /\ UNCHANGED <<tasksVars, listenerVars, speechWorkerVars, index_file, report, crashes>>

PushEntry(p) ==
  /\ Len(index) < MaxEntries
  /\ Storing(p, "evict", "save")
  /\ index' = Append(index, MessageOf(p))
  /\ UNCHANGED <<spc, live_clients, uploading, writer, listenerVars, speechWorkerVars,
                 index_file, wav_files, evicted, report, crashes>>

\* The index is written beside its file and renamed over it; when that fails it
\* is only logged.
SaveIndex(p) ==
  /\ Storing(p, "save", "idle")
  /\ index_file' \in {index, index_file}
  /\ writer' = NoTask
  /\ Returns(p)
  /\ Report(MessageOf(p), IF p \in Upload THEN "archived" ELSE "done")
  /\ UNCHANGED <<spc, live_clients, listenerVars, speechWorkerVars, index, wav_files,
                 evicted, crashes>>

StoreStep(p) ==
  WriteWav(p) \/ WriteWavFails(p) \/ LockIndex(p) \/ Evict(p) \/ PushEntry(p)
    \/ SaveIndex(p)

----------------------------------------------------------------------------
(* Browsers (external), and the daemon's crash *)

AudioChanges ==
  /\ browser_events < MaxEvents
  /\ browser_events' = browser_events + 1
  /\ audio_browser' = ~audio_browser
  /\ UNCHANGED <<tasksVars, heard, tts_progress, speechWorkerVars, archiveVars, report,
                 crashes>>

\* voice_event ("delivered", "started", "finished") and voice_report
\* ("delivered", "finished", "played", "complete") count as progress.
BrowserReports(m) ==
  /\ heard[m] /\ browser_events < MaxEvents
  /\ browser_events' = browser_events + 1
  /\ tts_progress' = [tts_progress EXCEPT ![m] = "recent"]
  /\ UNCHANGED <<tasksVars, audio_browser, heard, speechWorkerVars, archiveVars, report,
                 crashes>>

ProgressAges(m) ==
  /\ tts_progress[m] = "recent"
  /\ tts_progress' = [tts_progress EXCEPT ![m] = "old"]
  /\ UNCHANGED <<tasksVars, audio_browser, heard, browser_events, speechWorkerVars,
                 archiveVars, report, crashes>>

\* The daemon dies and starts again: tasks are gone, and TtsArchive::open reads
\* the index file.
CrashAndOpen ==
  /\ crashes < MaxCrashes /\ crashes' = crashes + 1
  /\ spc' = [m \in Message |-> IF spc[m] = "new" THEN "new" ELSE "over"]
  /\ store' = [p \in Speaker |-> "idle"]
  /\ uploading' = [u \in Upload |-> NoMessage]
  /\ writer' = NoTask
  /\ tts_progress' = [m \in Message |-> "none"]
  /\ audio_browser' = FALSE
  /\ index' = index_file
  /\ report' = [m \in Message |->
       IF spc[m] = "new" THEN report[m] ELSE report[m] \cup {"crashed"}]
  /\ UNCHANGED <<live_clients, heard, browser_events, speechWorkerVars, index_file,
                 wav_files, evicted>>

SpeechInit ==
  /\ audio_browser \in BOOLEAN
  /\ spc = [m \in Message |-> "new"] /\ live_clients = [m \in Message |-> FALSE]
  /\ heard = [m \in Message |-> FALSE] /\ tts_progress = [m \in Message |-> "none"]
  /\ produced = [m \in Message |-> 0] /\ returned = [m \in Message |-> 0]
  /\ ended = [m \in Message |-> FALSE] /\ chunks = [m \in Message |-> {}]
  /\ store = [p \in Speaker |-> "idle"]
  /\ uploading = [u \in Upload |-> NoMessage] /\ writer = NoTask
  /\ index = <<>> /\ index_file = <<>> /\ wav_files = {} /\ evicted = {}
  /\ report = [m \in Message |-> {}]
  /\ browser_events = 0 /\ crashes = 0

Speak(m) ==
  \/ FetchConditionals(m) \/ Dispatch(m) \/ WatchdogLooks(m) \/ WatchdogJudges(m)
  \/ Submit(m) \/ SubmitFails(m)
  \/ Stitch(m) \/ StitchFails(m)
Poll(m) == PollStream(m) \/ PollLost(m) \/ PollStatus(m)

SpeechNext ==
  \/ \E m \in Message :
       \/ Preflight(m) \/ Speak(m) \/ Poll(m) \/ PollFails(m) \/ RequestHangs(m)
       \/ WorkerMakes(m) \/ WorkerEnds(m) \/ BrowserReports(m) \/ ProgressAges(m)
  \/ \E u \in Upload, m \in Message : UploadChecks(u, m)
  \/ \E p \in Speaker : StoreStep(p)
  \/ AudioChanges \/ CrashAndOpen

SpeechSpec == SpeechInit /\ [][SpeechNext]_speechVars

----------------------------------------------------------------------------
(* Properties *)

\* The type invariant.
SpeechTypeOK ==
  /\ audio_browser \in BOOLEAN
  /\ spc \in [Message -> {"new", "conditionals", "dispatch", "watch", "judge", "submit",
                          "poll", "stitch", "over"}]
  /\ live_clients \in [Message -> BOOLEAN] /\ heard \in [Message -> BOOLEAN]
  /\ tts_progress \in [Message -> {"none", "recent", "old"}]
  /\ produced \in [Message -> 0..MaxAudio] /\ returned \in [Message -> 0..MaxAudio]
  /\ ended \in [Message -> BOOLEAN]
  /\ chunks \in [Message -> SUBSET (1..MaxAudio)]
  /\ store \in [Speaker -> {"idle", "wav", "lock", "evict", "save"}]
  /\ uploading \in [Upload -> Message \cup {NoMessage}]
  /\ writer \in Speaker \cup {NoTask}
  /\ index \in Seq(Message) /\ index_file \in Seq(Message)
  /\ wav_files \subseteq Message /\ evicted \subseteq Message
  /\ report \in [Message -> SUBSET {"registered", "done", "archived", "failed",
                                    "unstored", "hung", "crashed"}]
  /\ browser_events \in 0..MaxEvents /\ crashes \in 0..MaxCrashes

\* audio_path finds the audio of an entry.
AudioPath(m) == Archived(m) /\ m \in wav_files

\* An entry of the archive, in memory or in the file a restart reads, has its
\* audio (tts_archive.rs:109, audio_path) unless the message was evicted once:
\* whatever tasks store at the same time, whatever saves of the index fail and
\* wherever the daemon dies.
EntryHasAudio ==
  /\ \A m \in ToSet(index) : AudioPath(m) \/ m \in evicted
  /\ \A m \in ToSet(index_file) : m \in wav_files \/ m \in evicted

\* web.rs:2524 ("when browsers fail to archive"): a message that was dispatched
\* is archived, or its failure is reported, or storing it failed in the daemon,
\* or a server never answered it, or it died meanwhile: the watchdog waits for no
\* browser for ever.
SpeechSettles ==
  \A m \in Message : spc[m] = "watch" ~> m \in ToSet(index) \cup evicted
                       \/ report[m] \cap {"failed", "unstored", "hung", "crashed"} # {}

=============================================================================
