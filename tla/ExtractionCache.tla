--------------------------- MODULE ExtractionCache ---------------------------
(***************************************************************************)
(* Extraction of what a task asked for from a fetched page, by a summary   *)
(* model, and the file in which the answers are kept                       *)
(* (agentic/tools/web_search/_scrape_utils.py: extract_with_llm for a page *)
(* that fits, LLMExtractionCache).  The file is shared by the processes of *)
(* all runs.  Each has its own copy, and each put merges the copy's new    *)
(* entries into the file under a lock; the file is replaced whole.  A      *)
(* process may die at any point, a flush may fail at any point.            *)
(***************************************************************************)
EXTENDS Integers

CONSTANTS
  Extractions,        \* calls of extract_with_llm
  RunnerOf,    \* the process of each
  Keys,         \* page, question and model, as _make_key joins them
  PageSize,     \* length of a page
  MaxTries,  \* RetryConfig.max_attempts of the summary model
  Free          \* nobody holds a lock

Runners == {RunnerOf[c] : c \in Extractions}

ASSUME CacheAssumption ==
  /\ PageSize \in Nat \ {0} /\ MaxTries \in Nat \ {0} /\ Keys # {}
  /\ Free \notin Extractions \cup Runners

VARIABLES
  file,       \* keys in the cache file
  loaded,     \* processes that have read the file
  store,      \* keys in the copy of each process (_store)
  dirty,      \* keys of the copy that no flush has written yet (_dirty_keys)
  written,    \* keys in the temporary file of each process
  threadLock, \* the call that holds the lock of each process
  fileLock,   \* the process that holds the lock on the file
  extractions \* per call: where it is, its key, how much of the page is asked about, retries

cacheVars == <<file, loaded, store, dirty, written, threadLock, fileLock, extractions>>

Stages == {"idle", "asking", "answered", "flushing", "writing", "done", "failed"}
Extraction == [at : Stages, key : Keys, size : 0..PageSize, transient : 0..MaxTries]
NoExtraction == [at |-> "idle", key |-> CHOOSE k \in Keys : TRUE, size |-> 0, transient |-> 0]

CacheInit ==
  /\ file = {}
  /\ loaded = {}
  /\ store = [p \in Runners |-> {}]
  /\ dirty = [p \in Runners |-> {}]
  /\ written = [p \in Runners |-> {}]
  /\ threadLock = [p \in Runners |-> Free]
  /\ fileLock = Free
  /\ extractions = [c \in Extractions |-> NoExtraction]

Goes(c, stage) == extractions' = [extractions EXCEPT ![c].at = stage]
Ends(c, stage) == extractions' = [extractions EXCEPT ![c] = [NoExtraction EXCEPT !.at = stage]]

\* _ensure_loaded: the file is read once.
Loaded(p) == IF p \in loaded THEN store[p] ELSE file

-----------------------------------------------------------------------------
(***************************************************************************)
(* extract_with_llm.                                                       *)
(***************************************************************************)

\* The lookup, under the lock of the process.
Lookup(c) ==
  LET p == RunnerOf[c]
  IN  /\ extractions[c].at = "idle" /\ threadLock[p] = Free
      /\ loaded' = loaded \cup {p} /\ store' = [store EXCEPT ![p] = Loaded(p)]
      /\ \E k \in Keys :
           IF k \in Loaded(p) THEN Ends(c, "done")
           ELSE extractions' = [extractions EXCEPT ![c] = [at |-> "asking", key |-> k, size |-> PageSize, transient |-> 0]]
      /\ UNCHANGED <<file, dirty, written, threadLock, fileLock>>

\* _halve_content_for_length_retry
CanHalve(size) == size \div 2 > 0

\* The page, or the answer, is too long: ask about the first half.  No retry is spent.
AskAboutHalf(c) ==
  /\ extractions[c].at = "asking" /\ CanHalve(extractions[c].size)
  /\ extractions' = [extractions EXCEPT ![c].size = @ \div 2]
  /\ UNCHANGED <<file, loaded, store, dirty, written, threadLock, fileLock>>

\* A transport error or a status worth another try.
AskAgain(c) ==
  /\ extractions[c].at = "asking" /\ extractions[c].transient < MaxTries - 1
  /\ extractions' = [extractions EXCEPT ![c].transient = @ + 1]
  /\ UNCHANGED <<file, loaded, store, dirty, written, threadLock, fileLock>>

\* No retry or no half is left, the error is final, or the answer is no text.
AskFails(c) ==
  /\ extractions[c].at = "asking"
  /\ Ends(c, "failed")
  /\ UNCHANGED <<file, loaded, store, dirty, written, threadLock, fileLock>>

AskSucceeds(c) ==
  /\ extractions[c].at = "asking"
  /\ extractions' = [extractions EXCEPT ![c] = [NoExtraction EXCEPT !.at = "answered", !.key = extractions[c].key]]
  /\ UNCHANGED <<file, loaded, store, dirty, written, threadLock, fileLock>>

-----------------------------------------------------------------------------
(***************************************************************************)
(* LLMExtractionCache.put and _flush.                                      *)
(***************************************************************************)
Put(c) ==
  LET p == RunnerOf[c]
  IN  /\ extractions[c].at = "answered" /\ threadLock[p] = Free
      /\ threadLock' = [threadLock EXCEPT ![p] = c]
      /\ loaded' = loaded \cup {p} /\ store' = [store EXCEPT ![p] = Loaded(p) \cup {extractions[c].key}]
      /\ dirty' = [dirty EXCEPT ![p] = @ \cup {extractions[c].key}]
      /\ Goes(c, "flushing")
      /\ UNCHANGED <<file, written, fileLock>>

\* Defect in the operator below: a process writes the copy it has.
OwnCopy(p) == store[p]

\* What the file is replaced with: what is in it now, and what is new here.
Merged(p) == file \cup (dirty[p] \cap store[p])

WriteTemporary(c) ==
  LET p == RunnerOf[c]
  IN  /\ extractions[c].at = "flushing" /\ fileLock = Free
      /\ fileLock' = p
      /\ written' = [written EXCEPT ![p] = Merged(p)]
      /\ Goes(c, "writing")
      /\ UNCHANGED <<file, loaded, store, dirty, threadLock>>

\* The locks go, and with them what was in the temporary file.
Release(p) ==
  /\ threadLock' = [threadLock EXCEPT ![p] = Free]
  /\ fileLock' = IF fileLock = p THEN Free ELSE fileLock
  /\ written' = [written EXCEPT ![p] = {}]

ReplaceFile(c) ==
  LET p == RunnerOf[c]
  IN  /\ extractions[c].at = "writing"
      /\ file' = written[p]
      /\ store' = [store EXCEPT ![p] = written[p]]
      /\ dirty' = [dirty EXCEPT ![p] = {}]
      /\ Ends(c, "done") /\ Release(p)
      /\ UNCHANGED loaded

\* A flush that fails is logged, and the answer is given all the same.
FlushFails(c) ==
  /\ extractions[c].at \in {"flushing", "writing"}
  /\ Ends(c, "done") /\ Release(RunnerOf[c])
  /\ UNCHANGED <<file, loaded, store, dirty>>

\* The process dies; its extractions are made again by the one that follows it.
ProcessDies(p) ==
  /\ loaded' = loaded \ {p} /\ store' = [store EXCEPT ![p] = {}]
  /\ dirty' = [dirty EXCEPT ![p] = {}]
  /\ extractions' = [c \in Extractions |-> IF RunnerOf[c] = p THEN NoExtraction ELSE extractions[c]]
  /\ Release(p)
  /\ UNCHANGED file

ExtractionStep(c) ==
  \/ Lookup(c) \/ AskAboutHalf(c) \/ AskAgain(c) \/ AskFails(c) \/ AskSucceeds(c)
  \/ Put(c) \/ WriteTemporary(c) \/ ReplaceFile(c) \/ FlushFails(c)

CacheNext == (\E c \in Extractions : ExtractionStep(c)) \/ (\E p \in Runners : ProcessDies(p))

CacheSpec == CacheInit /\ [][CacheNext]_cacheVars

-----------------------------------------------------------------------------
(***************************************************************************)
(* Properties.                                                             *)
(***************************************************************************)

\* An answer that a process has got and kept stays: it is in the file, or still marked as
\* to be written there, whatever other processes have written, whichever flush has failed
\* and whichever process has died in between.
NothingForgotten ==
  \A p \in Runners : store[p] \subseteq file \cup dirty[p]
=============================================================================
