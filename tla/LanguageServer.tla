--------------------------- MODULE LanguageServer ---------------------------
(***************************************************************************)
(* The PuyaPy language server (puyapy/lsp/server.py, puyapy/lsp/analyse.py): *)
(* the main thread updates the workspace and queues the changed documents, *)
(* a worker thread waits for the queue, debounces, analyses and publishes  *)
(* diagnostics.  The workspace (an object of pygls) is shared between the  *)
(* two threads without a lock.                                             *)
(*                                                                         *)
(* A critical section under _analysis_lock is one action, since nothing in *)
(* it blocks.  Time is abstract: the debounce interval may elapse at any   *)
(* moment.  The texts of a document are numbered as they are written, and  *)
(* a text parses or does not; diagnostics are the numbers of the texts     *)
(* they were computed from.  The version of a document is the client's: it *)
(* grows from change to change and starts anew, anywhere, when the         *)
(* document is opened again.                                               *)
(*                                                                         *)
(* A definition F_Fault is F with a plausible mistake; it is used only to  *)
(* see that a property notices the mistake.                                *)
(***************************************************************************)
EXTENDS Integers, FiniteSets, Functions

CONSTANTS
  Doc,        \* documents (file uris outside the package search paths)
  Imports,    \* <<a, b>>: the module of a imports the module of b
  OnDisk,     \* documents that have been saved: text 0
  CanClose,   \* whether the client opens and closes documents
  CanBreak,   \* whether the client writes text that does not parse
  MaxText,    \* bound: texts written of a document
  MaxWritten, \* bound: texts written of all documents
  MaxVersion, \* bound: version of a document
  None        \* no version, no diagnostics

ASSUME ServerAssumption ==
  /\ IsFiniteSet(Doc)
  /\ Imports \subseteq Doc \X Doc
  /\ OnDisk \subseteq Doc
  /\ CanClose \in BOOLEAN
  /\ CanBreak \in BOOLEAN
  /\ MaxText \in Nat \ {0}
  /\ MaxWritten \in Nat
  /\ MaxVersion \in Nat \ {0}
  /\ None \notin Nat

VARIABLES
  opened,         \* workspace.text_documents, as the set of its keys
  text,           \* the text of a document in the workspace
  version,        \* its version
  numbered,       \* the text that the client gave each version number, since
                  \* it last opened the document
  broken,         \* open documents whose text does not parse
  handler,        \* documents whose notification handler has not queued yet
  changed,        \* _changed_uris
  workAvailable,  \* _work_available is set
  dependencies,   \* CodeAnalyser._dependencies: the importers of a document
  pc,             \* where the worker is
  todo,           \* documents that the worker's current loop has not visited
  size,           \* size of text_documents when the loop over it began
  paths,          \* the documents to analyse
  seen,           \* file_contents: the text that is analysed
  seenBroken,     \* documents whose text in file_contents does not parse
  versions,       \* path_to_uri_version
  published       \* the diagnostics the client has for each document

workspace == <<opened, text, version, numbered, broken>>
queue == <<changed, workAvailable>>
scan == <<todo, size>>
analysis == <<paths, seen, seenBroken, versions>>
vars == <<workspace, handler, queue, dependencies, pc, scan, analysis,
          published>>

Texts == 0..MaxText
Versions == 1..MaxVersion
Diagnostics == [version : Versions \cup {None}, seen : [Doc -> Texts]]

TypeOK ==
  /\ opened \subseteq Doc
  /\ text \in [Doc -> Texts]
  /\ version \in [Doc -> Versions \cup {None}]
  /\ numbered \in [Doc -> [Versions -> Texts \cup {None}]]
  /\ broken \subseteq Doc
  /\ handler \subseteq Doc
  /\ changed \subseteq Doc
  /\ workAvailable \in BOOLEAN
  /\ dependencies \in [Doc -> SUBSET Doc]
  /\ pc \in {"wait", "debounce", "take", "relate", "contents", "parse",
             "versions", "publish", "dead"}
  /\ todo \subseteq Doc
  /\ size \in 0..Cardinality(Doc)
  /\ paths \subseteq Doc
  /\ seen \in [Doc -> Texts]
  /\ seenBroken \subseteq Doc
  /\ versions \in [Doc -> Versions \cup {None}]
  /\ published \in [Doc -> Diagnostics \cup {None}]

-----------------------------------------------------------------------------
(* The main thread                                                         *)

(* pygls updates the workspace, then calls the handler of puyapy, one      *)
(* notification at a time.                                                 *)
Notified(d) == handler = {} /\ handler' = {d}

Written == FoldFunction(+, 0, text)

(* A new text, under the version that the client gives it.                 *)
WriteText(d, n) ==
  /\ text[d] < MaxText
  /\ Written < MaxWritten
  /\ text' = [text EXCEPT ![d] = @ + 1]
  /\ version' = [version EXCEPT ![d] = n]
  /\ \/ broken' = broken \ {d}
     \/ CanBreak /\ broken' = broken \cup {d}

Unnumbered == [n \in Versions |-> None]

(* didOpen: any version, and what the numbers meant before is forgotten.   *)
Open(d) ==
  /\ CanClose
  /\ d \notin opened
  /\ opened' = opened \cup {d}
  /\ \E n \in Versions :
       /\ WriteText(d, n)
       /\ numbered' = [numbered EXCEPT ![d] =
                         [Unnumbered EXCEPT ![n] = text'[d]]]
  /\ Notified(d)
  /\ UNCHANGED <<queue, dependencies, pc, scan, analysis, published>>

(* didChange: the version is greater than before.                          *)
Change(d) ==
  /\ d \in opened
  /\ \E n \in Versions :
       /\ n > version[d]
       /\ WriteText(d, n)
       /\ numbered' = [numbered EXCEPT ![d][n] = text'[d]]
  /\ Notified(d)
  /\ UNCHANGED <<opened, queue, dependencies, pc, scan, analysis, published>>

(* puyapy has no handler for a closed document.                            *)
Close(d) ==
  /\ CanClose
  /\ handler = {}
  /\ d \in opened
  /\ opened' = opened \ {d}
  /\ broken' = broken \ {d}
  /\ UNCHANGED <<text, version, numbered, handler, queue, dependencies, pc,
                 scan, analysis, published>>

Signal_Not == UNCHANGED workAvailable
Signal == workAvailable' = TRUE

(* queue_diagnostics                                                       *)
Queue ==
  /\ handler # {}
  /\ changed' = changed \cup handler
  /\ Signal
  /\ handler' = {}
  /\ UNCHANGED <<workspace, dependencies, pc, scan, analysis, published>>

-----------------------------------------------------------------------------
(* The worker: _analysis_worker_loop                                       *)

Goto(l) == pc' = l

Wake ==
  /\ pc = "wait"
  /\ workAvailable
  /\ Goto("debounce")
  /\ UNCHANGED <<workspace, handler, queue, dependencies, scan, analysis,
                 published>>

Debounced ==
  /\ pc = "debounce"
  /\ Goto("take")
  /\ UNCHANGED <<workspace, handler, queue, dependencies, scan, analysis,
                 published>>

Take ==
  /\ pc = "take"
  /\ todo' = changed
  /\ paths' = {}
  /\ changed' = {}
  /\ workAvailable' = FALSE
  /\ Goto("relate")
  /\ UNCHANGED <<workspace, handler, dependencies, size, seen, seenBroken,
                 versions, published>>

(* Steps in a relation R from d: the documents reached, and whether d      *)
(* reaches a cycle.                                                        *)
Successors(R, S) == {e[2] : e \in {x \in R : x[1] \in S}}
ReachedFrom(R, S) ==
  {d \in Doc : \A T \in SUBSET Doc :
     S \subseteq T /\ Successors(R, T) \subseteq T => d \in T}
Importers == {e \in Doc \X Doc : e[2] \in dependencies[e[1]]}
Cyclic(R, d) ==
  \E e \in ReachedFrom(R, {d}) : e \in ReachedFrom(R, Successors(R, {e}))

(* A document that is not open is read from the disk.                      *)
Unreadable(d) == d \notin opened /\ d \notin OnDisk
Compatible(d) == d \notin broken

(* _get_algopy_related_files: one changed document.  An exception here     *)
(* ends the thread: a file that is not there, or the unbounded recursion   *)
(* of _get_dependencies through a cycle of imports.                        *)
Relate(d) ==
  /\ pc = "relate"
  /\ d \in todo
  /\ \/ /\ Unreadable(d)
        /\ Goto("dead")
        /\ UNCHANGED <<paths, todo>>
     \/ /\ ~Unreadable(d)
        /\ ~Compatible(d)
        /\ todo' = todo \ {d}
        /\ UNCHANGED <<pc, paths>>
     \/ /\ ~Unreadable(d)
        /\ Compatible(d)
        /\ Cyclic(Importers, d)
        /\ Goto("dead")
        /\ UNCHANGED <<paths, todo>>
     \/ /\ ~Unreadable(d)
        /\ Compatible(d)
        /\ ~Cyclic(Importers, d)
        /\ paths' = paths \cup ReachedFrom(Importers, {d})
        /\ todo' = todo \ {d}
        /\ UNCHANGED pc
  /\ UNCHANGED <<workspace, handler, queue, dependencies, size, seen,
                 seenBroken, versions, published>>

(* A loop over text_documents raises RuntimeError when the main thread has *)
(* changed the size of the dictionary meanwhile.                           *)
StartScan == todo' = opened /\ size' = Cardinality(opened)
SizeChanged == Cardinality(opened) # size

Related ==
  /\ pc = "relate"
  /\ todo = {}
  /\ \/ paths = {} /\ Goto("wait") /\ UNCHANGED scan
     \/ paths # {} /\ Goto("contents") /\ StartScan
  /\ seen' = [d \in Doc |-> 0]
  /\ seenBroken' = {}
  /\ UNCHANGED <<workspace, handler, queue, dependencies, paths, versions,
                 published>>

TextOf_PathsOnly(d) == IF d \in paths THEN text[d] ELSE seen[d]
TextOf(d) == text[d]

(* _get_file_contents; its exceptions are taken for errors of the parser.  *)
ReadContents(d) ==
  /\ pc = "contents"
  /\ d \in todo
  /\ ~SizeChanged
  /\ seen' = [seen EXCEPT ![d] = TextOf(d)]
  /\ seenBroken' = IF d \in broken THEN seenBroken \cup {d} ELSE seenBroken
  /\ todo' = todo \ {d}
  /\ UNCHANGED <<workspace, handler, queue, dependencies, pc, size, paths,
                 versions, published>>

ContentsFailed ==
  /\ pc = "contents"
  /\ SizeChanged
  /\ Goto("wait")
  /\ UNCHANGED <<workspace, handler, queue, dependencies, scan, analysis,
                 published>>

ContentsRead ==
  /\ pc = "contents"
  /\ todo = {}
  /\ ~SizeChanged
  /\ Goto("parse")
  /\ UNCHANGED <<workspace, handler, queue, dependencies, scan, analysis,
                 published>>

(* The modules of a compilation: the paths and all that they import.       *)
Modules == ReachedFrom(Imports, paths)
ImportersIn(M, d) == {a \in M : <<a, d>> \in Imports}

ParseFails == Modules \cap seenBroken # {}

(* parse_python failed: nothing is analysed.                               *)
ParseFailed ==
  /\ pc = "parse"
  /\ ParseFails
  /\ Goto("wait")
  /\ UNCHANGED <<workspace, handler, queue, dependencies, scan, analysis,
                 published>>

UpdateDependencies_Skipped == UNCHANGED dependencies

(* _analyse_dependencies: dict.update replaces the importers of a module   *)
(* by those of this compilation, when it has any.                          *)
UpdateDependencies ==
  dependencies' = [d \in Doc |-> IF ImportersIn(Modules, d) = {}
                                   THEN dependencies[d]
                                   ELSE ImportersIn(Modules, d)]

ForgetVersions_Not == UNCHANGED versions
ForgetVersions_Default == versions' = [d \in Doc |-> -1]
ForgetVersions == versions' = [d \in Doc |-> None]

(* The rest of the compilation changes no shared state; then the loop over *)
(* text_documents for the uris and versions begins.                        *)
ParseAndCompile ==
  /\ pc = "parse"
  /\ ~ParseFails
  /\ UpdateDependencies
  /\ Goto("versions")
  /\ StartScan
  /\ ForgetVersions
  /\ UNCHANGED <<workspace, handler, queue, paths, seen, seenBroken,
                 published>>

ReadVersion(d) ==
  /\ pc = "versions"
  /\ d \in todo
  /\ ~SizeChanged
  /\ versions' = [versions EXCEPT ![d] = version[d]]
  /\ todo' = todo \ {d}
  /\ UNCHANGED <<workspace, handler, queue, dependencies, pc, size, paths,
                 seen, seenBroken, published>>

(* This loop is outside of the handler of exceptions.                      *)
VersionsFailed ==
  /\ pc = "versions"
  /\ SizeChanged
  /\ Goto("dead")
  /\ UNCHANGED <<workspace, handler, queue, dependencies, scan, analysis,
                 published>>

VersionsRead ==
  /\ pc = "versions"
  /\ todo = {}
  /\ ~SizeChanged
  /\ Goto("publish")
  /\ todo' = paths
  /\ UNCHANGED <<workspace, handler, queue, dependencies, size, analysis,
                 published>>

(* _publish_diagnostics: one document.                                     *)
Publish(d) ==
  /\ pc = "publish"
  /\ d \in todo
  /\ published' = [published EXCEPT ![d] =
                     [version |-> versions[d], seen |-> seen]]
  /\ todo' = todo \ {d}
  /\ UNCHANGED <<workspace, handler, queue, dependencies, pc, size, analysis>>

KeepQueue_Cleared == workAvailable' = FALSE /\ UNCHANGED changed
KeepQueue == UNCHANGED queue

Published ==
  /\ pc = "publish"
  /\ todo = {}
  /\ Goto("wait")
  /\ KeepQueue
  /\ UNCHANGED <<workspace, handler, dependencies, scan, analysis,
                 published>>

-----------------------------------------------------------------------------
Init ==
  /\ opened \in IF CanClose THEN {{}} ELSE {Doc}
  /\ text = [d \in Doc |-> IF d \in opened THEN 1 ELSE 0]
  /\ version = [d \in Doc |-> IF d \in opened THEN 1 ELSE None]
  /\ numbered = [d \in Doc |-> IF d \in opened
                                 THEN [Unnumbered EXCEPT ![1] = 1]
                                 ELSE Unnumbered]
  /\ broken = {}
  /\ handler = {}
  /\ changed = opened
  /\ workAvailable = (opened # {})
  /\ dependencies = [d \in Doc |-> {}]
  /\ pc = "wait"
  /\ todo = {}
  /\ size = 0
  /\ paths = {}
  /\ seen = [d \in Doc |-> 0]
  /\ seenBroken = {}
  /\ versions = [d \in Doc |-> None]
  /\ published = [d \in Doc |-> None]

Client == \E d \in Doc : Open(d) \/ Change(d) \/ Close(d)

Worker ==
  \/ Wake \/ Debounced \/ Take
  \/ (\E d \in Doc : Relate(d)) \/ Related
  \/ (\E d \in Doc : ReadContents(d)) \/ ContentsFailed \/ ContentsRead
  \/ ParseFailed \/ ParseAndCompile
  \/ (\E d \in Doc : ReadVersion(d)) \/ VersionsFailed \/ VersionsRead
  \/ (\E d \in Doc : Publish(d)) \/ Published

Next == Client \/ Queue \/ Worker

Spec == Init /\ [][Next]_vars

(* The main thread runs the handler of a notification it has received, and *)
(* the worker thread is scheduled; the client need not do anything.        *)
FairSpec == Spec /\ WF_vars(Queue) /\ WF_vars(Worker)

-----------------------------------------------------------------------------
(* Properties                                                              *)

(* No lost wakeup: while a changed document is queued the event is set, so *)
(* that the worker never waits with work to do (queue_diagnostics and the  *)
(* critical section of the worker loop).                                   *)
NoLostWakeup == changed # {} => workAvailable

(* Published diagnostics are never computed from a text that is newer than *)
(* the one their version stands for, so a client that drops what is older  *)
(* than its document never shows diagnostics for another text as those of  *)
(* the version it has.  The numbers of a document start anew when it is    *)
(* opened again, so the text meant is the one that the client has given    *)
(* the number since; a number it has not given again stands for none.      *)
(* (analyse reads the texts before the compilation and the versions after  *)
(* it, and the client may change, close and open documents in between.)    *)
VersionNotOlder ==
  \A d \in Doc : published[d] # None =>
    \A n \in Versions :
      published[d].version = n /\ numbered[d][n] # None
        => published[d].seen[d] <= numbered[d][n]

(* While documents stay open, diagnostics never go back: those that replace *)
(* others were computed from texts at least as new, of the document and of *)
(* the documents it imports.                                               *)
DiagnosticsNeverGoBack ==
  [][\A d \in Doc : published[d] # None =>
       \A e \in ReachedFrom(Imports, {d}) :
         published'[d].seen[e] >= published[d].seen[e]]_vars

(* Everything that is queued is taken by the worker, or the worker has     *)
(* died.                                                                   *)
QueuedIsTaken ==
  \A d \in Doc : d \in changed ~> d \notin changed \/ pc = "dead"

(* When the client stops typing, the diagnostics it ends up with are those *)
(* of the text it sees: of each document and of all it imports, and under  *)
(* the document's own version.                                             *)
UpToDate(d) ==
  /\ published[d] # None
  /\ published[d].version = version[d]
  /\ \A e \in ReachedFrom(Imports, {d}) : published[d].seen[e] = text[e]
EventuallyUpToDate == <>[](\A d \in Doc : UpToDate(d))

(* "loop indefinitely, thread is a daemon and will be killed when the      *)
(* process is terminated" (server.py, _analysis_worker_loop).              *)
WorkerSurvives == pc # "dead"
=============================================================================
