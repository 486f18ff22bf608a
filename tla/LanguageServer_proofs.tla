------------------------ MODULE LanguageServer_proofs ------------------------
(***************************************************************************)
(* Proofs about the language server, for any finite set of documents, any  *)
(* imports among them and any interleaving of the client, the main thread  *)
(* and the worker.                                                         *)
(***************************************************************************)
EXTENDS LanguageServer, FiniteSetTheorems, TLAPS

(* The texts that the worker has read, and those that diagnostics were     *)
(* published from, are at most as new as those of the workspace.           *)
TextsAreRead ==
  \A d \in Doc :
    /\ seen[d] <= text[d]
    /\ published[d] # None => published[d].seen[d] <= text[d]

(* The version of a document stands for its text.                          *)
VersionIsNumbered ==
  \A d \in Doc : version[d] # None => numbered[d][version[d]] = text[d]

(* The texts that are meant by the versions read after the compilation are *)
(* at least as new as those it compiled.                                   *)
VersionsFollowTexts ==
  pc \in {"versions", "publish"} =>
    \A d \in Doc : \A n \in Versions :
      versions[d] = n /\ numbered[d][n] # None => seen[d] <= numbered[d][n]

(* VersionNotOlder is not inductive: what is published comes from versions *)
(* and seen, which are read at different moments.                          *)
InductiveServer ==
  /\ TypeOK
  /\ TextsAreRead
  /\ VersionIsNumbered
  /\ VersionsFollowTexts
  /\ VersionNotOlder

-----------------------------------------------------------------------------
(* The types                                                               *)

LEMMA ScanSize ==
  ASSUME NEW S \in SUBSET Doc
  PROVE  Cardinality(S) \in 0..Cardinality(Doc)
<1>1. IsFiniteSet(Doc)
  BY ServerAssumption
<1>2. IsFiniteSet(S) /\ Cardinality(S) <= Cardinality(Doc)
  BY <1>1, FS_Subset
<1>3. Cardinality(S) \in Nat /\ Cardinality(Doc) \in Nat
  BY <1>1, <1>2, FS_CardinalityType
<1>4. QED
  BY <1>2, <1>3

LEMMA InitTypes == Init => TypeOK
<1>1. SUFFICES ASSUME Init PROVE TypeOK
  OBVIOUS
<1>2. opened \subseteq Doc /\ changed \subseteq Doc
  <2>1. CASE CanClose
    BY <1>1, <2>1 DEF Init
  <2>2. CASE ~CanClose
    BY <1>1, <2>2 DEF Init
  <2>3. QED
    BY <2>1, <2>2
<1>3. /\ text \in [Doc -> Texts]
      /\ version \in [Doc -> Versions \cup {None}]
      /\ numbered \in [Doc -> [Versions -> Texts \cup {None}]]
      /\ seen \in [Doc -> Texts]
  BY <1>1, ServerAssumption DEF Init, Texts, Versions, Unnumbered
<1>4. size \in 0..Cardinality(Doc)
  BY <1>1, ServerAssumption, FS_CardinalityType DEF Init
<1>5. QED
  BY <1>1, <1>2, <1>3, <1>4 DEF Init, TypeOK

(* A step of the client changes the workspace and the running handler.     *)
LEMMA ClientTypes ==
  ASSUME TypeOK, NEW d \in Doc, Open(d) \/ Change(d) \/ Close(d)
  PROVE  TypeOK'
<1>1. ASSUME NEW n \in Versions, WriteText(d, n)
      PROVE  /\ text' \in [Doc -> Texts] /\ text'[d] \in Texts
             /\ version' \in [Doc -> Versions \cup {None}]
             /\ broken' \subseteq Doc
  BY <1>1, ServerAssumption DEF TypeOK, WriteText, Texts
<1>2. CASE Open(d)
  <2>1. numbered' \in [Doc -> [Versions -> Texts \cup {None}]]
    BY <1>1, <1>2 DEF Open, Unnumbered, TypeOK
  <2>2. QED
    BY <1>1, <1>2, <2>1 DEF Open, Notified, TypeOK, queue, scan, analysis
<1>3. CASE Change(d)
  <2>1. numbered' \in [Doc -> [Versions -> Texts \cup {None}]]
    BY <1>1, <1>3 DEF Change, TypeOK
  <2>2. QED
    BY <1>1, <1>3, <2>1 DEF Change, Notified, TypeOK, queue, scan, analysis
<1>4. CASE Close(d)
  BY <1>4 DEF Close, TypeOK, queue, scan, analysis
<1>5. QED
  BY <1>2, <1>3, <1>4

LEMMA QueueTypes == ASSUME TypeOK, Queue PROVE TypeOK'
  BY DEF Queue, Signal, TypeOK, workspace, scan, analysis

(* The documents that are reached from some documents are documents.       *)
LEMMA ReachedTypes ==
  ASSUME NEW R, NEW S PROVE ReachedFrom(R, S) \subseteq Doc
  BY DEF ReachedFrom

LEMMA WaitingTypes ==
  ASSUME TypeOK, Wake \/ Debounced \/ Take PROVE TypeOK'
  BY DEF Wake, Debounced, Take, Goto, TypeOK, workspace, queue, scan, analysis

LEMMA RelateTypes ==
  ASSUME TypeOK, NEW d \in Doc, Relate(d) PROVE TypeOK'
<1>1. paths' \subseteq Doc /\ todo' \subseteq Doc
  BY ReachedTypes DEF Relate, TypeOK
<1>2. pc' \in {"relate", "dead"}
  BY DEF Relate, Goto
<1>3. QED
  BY <1>1, <1>2 DEF Relate, TypeOK, workspace, queue

LEMMA RelatedTypes == ASSUME TypeOK, Related PROVE TypeOK'
<1>1. todo' \subseteq Doc /\ size' \in 0..Cardinality(Doc)
  BY ScanSize DEF Related, StartScan, TypeOK, scan
<1>2. seen' \in [Doc -> Texts]
  BY ServerAssumption DEF Related, Texts
<1>3. QED
  BY <1>1, <1>2 DEF Related, Goto, TypeOK, workspace, queue

LEMMA ReadContentsTypes ==
  ASSUME TypeOK, NEW d \in Doc, ReadContents(d) PROVE TypeOK'
<1>1. seen' \in [Doc -> Texts]
  BY DEF ReadContents, TextOf, TypeOK
<1>2. QED
  BY <1>1 DEF ReadContents, TypeOK, workspace, queue

LEMMA ParseAndCompileTypes == ASSUME TypeOK, ParseAndCompile PROVE TypeOK'
<1>1. todo' \subseteq Doc /\ size' \in 0..Cardinality(Doc)
  BY ScanSize DEF ParseAndCompile, StartScan, TypeOK
<1>2. Modules \subseteq Doc
  BY ReachedTypes DEF Modules
<1>3. \A d \in Doc : ImportersIn(Modules, d) \in SUBSET Doc
  BY <1>2 DEF ImportersIn
<1>4. dependencies' \in [Doc -> SUBSET Doc]
  BY <1>3 DEF ParseAndCompile, UpdateDependencies, TypeOK
<1>5. QED
  BY <1>1, <1>4 DEF ParseAndCompile, ForgetVersions, Goto, TypeOK, workspace,
                    queue

LEMMA ReadVersionTypes ==
  ASSUME TypeOK, NEW d \in Doc, ReadVersion(d) PROVE TypeOK'
<1>1. versions' \in [Doc -> Versions \cup {None}]
  BY DEF ReadVersion, TypeOK
<1>2. QED
  BY <1>1 DEF ReadVersion, TypeOK, workspace, queue

LEMMA PublishTypes ==
  ASSUME TypeOK, NEW d \in Doc, Publish(d) PROVE TypeOK'
<1>1. [version |-> versions[d], seen |-> seen] \in Diagnostics
  BY DEF TypeOK, Diagnostics
<1>2. published' \in [Doc -> Diagnostics \cup {None}]
  BY <1>1 DEF Publish, TypeOK
<1>3. QED
  BY <1>2 DEF Publish, TypeOK, workspace, queue, analysis

(* The steps that only move the worker on.                                 *)
Moves ==
  \/ ContentsFailed \/ ContentsRead \/ ParseFailed \/ VersionsFailed
  \/ VersionsRead \/ Published

LEMMA MovesTypes == ASSUME TypeOK, Moves PROVE TypeOK'
  BY DEF Moves, ContentsFailed, ContentsRead, ParseFailed, VersionsFailed,
         VersionsRead, Published, KeepQueue, Goto, TypeOK, workspace, queue,
         scan, analysis

LEMMA NextTypes == TypeOK /\ [Next]_vars => TypeOK'
<1>1. SUFFICES ASSUME TypeOK, [Next]_vars PROVE TypeOK'
  OBVIOUS
<1>2. CASE Client
  BY <1>1, <1>2, ClientTypes DEF Client
<1>3. CASE Queue
  BY <1>1, <1>3, QueueTypes
<1>4. CASE Worker
  BY <1>1, <1>4, WaitingTypes, RelateTypes, RelatedTypes, ReadContentsTypes,
     ParseAndCompileTypes, ReadVersionTypes, PublishTypes, MovesTypes
  DEF Worker, Moves
<1>5. CASE UNCHANGED vars
  BY <1>1, <1>5 DEF vars, TypeOK, workspace, queue, scan, analysis
<1>6. QED
  BY <1>1, <1>2, <1>3, <1>4, <1>5 DEF Next

(* The state of the server has its types: above all, a loop over the open  *)
(* documents, and what it remembers of their number, is about documents.   *)
THEOREM ServerTypes == Spec => []TypeOK
  BY InitTypes, NextTypes, PTL DEF Spec

-----------------------------------------------------------------------------
(* The queue                                                               *)

(* queue_diagnostics and the worker loop never leave a document queued     *)
(* with the event cleared, whatever the interleaving.                      *)
THEOREM WakeupIsKept == Spec => []NoLostWakeup
<1>1. Init => NoLostWakeup
  BY DEF Init, NoLostWakeup
<1>2. NoLostWakeup /\ [Next]_vars => NoLostWakeup'
  <2>1. SUFFICES ASSUME NoLostWakeup, [Next]_vars PROVE NoLostWakeup'
    OBVIOUS
  <2>2. CASE Queue
    BY <2>2 DEF Queue, Signal, NoLostWakeup
  <2>3. CASE Take
    BY <2>3 DEF Take, NoLostWakeup
  <2>4. CASE UNCHANGED queue
    BY <2>1, <2>4 DEF NoLostWakeup, queue
  <2>5. Queue \/ Take \/ UNCHANGED queue
    <3>1. ASSUME Client PROVE UNCHANGED queue
      BY <3>1 DEF Client, Open, Change, Close
    <3>2. ASSUME Worker PROVE Take \/ UNCHANGED queue
      BY <3>2 DEF Worker, Wake, Debounced, Relate, Related, ReadContents,
           ContentsFailed, ContentsRead, ParseFailed, ParseAndCompile,
           ReadVersion, VersionsFailed, VersionsRead, Publish, Published,
           KeepQueue
    <3>3. QED
      BY <2>1, <3>1, <3>2 DEF Next, vars
  <2>6. QED
    BY <2>2, <2>3, <2>4, <2>5
<1>3. QED
  BY <1>1, <1>2, PTL DEF Spec

-----------------------------------------------------------------------------
(* The versions of diagnostics                                             *)

(* What a step has to keep of InductiveServer, next to the types.          *)
VersionsKept ==
  TextsAreRead /\ VersionIsNumbered /\ VersionsFollowTexts /\ VersionNotOlder

(* Texts and their numbers.                                                *)
LEMMA NumbersTypes ==
  ASSUME TypeOK
  PROVE  \A d \in Doc :
           /\ text[d] \in Nat /\ seen[d] \in Nat
           /\ published[d] # None => published[d].seen[d] \in Nat
           /\ \A n \in Versions : n \in Nat /\ n # None
                                  /\ numbered[d][n] \in Nat \cup {None}
  BY ServerAssumption DEF TypeOK, Texts, Versions, Diagnostics

(* Steps that leave the texts, what was read of them and what was          *)
(* published alone, and do not enter the loop over the versions.           *)
LEMMA NothingRead ==
  ASSUME InductiveServer,
         UNCHANGED <<text, version, numbered, seen, versions, published>>,
         pc' \in {"versions", "publish"} => pc \in {"versions", "publish"}
  PROVE  VersionsKept'
  BY DEF InductiveServer, VersionsKept, TextsAreRead, VersionIsNumbered,
         VersionsFollowTexts, VersionNotOlder

(* A text is newer than all before it, and so is what a number stands for  *)
(* from then on; other numbers stand for what they did or for nothing.     *)
LEMMA NumbersMove ==
  ASSUME TypeOK, Client
  PROVE  \A d \in Doc :
           /\ text[d] <= text'[d]
           /\ text'[d] \in Nat
           /\ \A n \in Versions :
                numbered'[d][n] \in {numbered[d][n], None, text'[d]}
<1>1. \A d \in Doc : text[d] \in Nat
  BY NumbersTypes
<1>2. ASSUME NEW c \in Doc, NEW n \in Versions, WriteText(c, n)
      PROVE  \A d \in Doc : text[d] <= text'[d] /\ text'[d] \in Nat
  BY <1>1, <1>2 DEF WriteText, TypeOK
<1>3. CASE \E c \in Doc : Open(c)
  BY <1>2, <1>3 DEF Open, Unnumbered, TypeOK
<1>4. CASE \E c \in Doc : Change(c)
  BY <1>2, <1>4 DEF Change, TypeOK
<1>5. CASE \E c \in Doc : Close(c)
  BY <1>1, <1>5 DEF Close
<1>6. QED
  BY <1>3, <1>4, <1>5 DEF Client

LEMMA ClientNumbers ==
  ASSUME TypeOK, VersionIsNumbered, Client PROVE VersionIsNumbered'
<1>1. ASSUME NEW c \in Doc, NEW n \in Versions, WriteText(c, n)
      PROVE  \A d \in Doc :
               /\ text'[d] = IF d = c THEN text[d] + 1 ELSE text[d]
               /\ version'[d] = IF d = c THEN n ELSE version[d]
  BY <1>1 DEF WriteText, TypeOK
<1>2. CASE \E c \in Doc : Open(c)
  BY <1>1, <1>2 DEF Open, Unnumbered, VersionIsNumbered, TypeOK
<1>3. CASE \E c \in Doc : Change(c)
  BY <1>1, <1>3 DEF Change, VersionIsNumbered, TypeOK
<1>4. CASE \E c \in Doc : Close(c)
  BY <1>4 DEF Close, VersionIsNumbered
<1>5. QED
  BY <1>2, <1>3, <1>4 DEF Client

LEMMA ClientVersions ==
  ASSUME InductiveServer, Client PROVE VersionsKept'
<1>1. UNCHANGED <<pc, seen, versions, published>>
  BY DEF Client, Open, Change, Close, analysis
<1>2. TypeOK
  BY DEF InductiveServer
<1>3. \A d \in Doc :
        /\ text[d] \in Nat /\ seen[d] \in Nat
        /\ published[d] # None => published[d].seen[d] \in Nat
  BY <1>2, NumbersTypes
<1>4. \A d \in Doc : text[d] <= text'[d] /\ text'[d] \in Nat
  BY <1>2, NumbersMove
<1>5. TextsAreRead'
  BY <1>1, <1>3, <1>4 DEF InductiveServer, TextsAreRead
<1>6. VersionIsNumbered'
  BY ClientNumbers DEF InductiveServer
<1>7. \A d \in Doc : \A n \in Versions :
        numbered'[d][n] \in {numbered[d][n], None, text'[d]}
  BY <1>2, NumbersMove
<1>8. VersionsFollowTexts'
  BY <1>1, <1>5, <1>7 DEF InductiveServer, TextsAreRead, VersionsFollowTexts
<1>9. VersionNotOlder'
  BY <1>1, <1>5, <1>7 DEF InductiveServer, TextsAreRead, VersionNotOlder
<1>10. QED
  BY <1>5, <1>6, <1>8, <1>9 DEF VersionsKept

(* A step that leaves the workspace and what is published alone, and what  *)
(* remains to show of it.                                                  *)
LEMMA WorkspaceKept ==
  ASSUME InductiveServer, UNCHANGED <<text, version, numbered, published>>,
         \A d \in Doc : seen'[d] <= text[d], VersionsFollowTexts'
  PROVE  VersionsKept'
  BY DEF InductiveServer, VersionsKept, TextsAreRead, VersionIsNumbered,
         VersionNotOlder

LEMMA ReadContentsVersions ==
  ASSUME InductiveServer, NEW d \in Doc, ReadContents(d) PROVE VersionsKept'
<1>1. pc' = "contents" /\ UNCHANGED <<text, version, numbered, published>>
  BY DEF ReadContents, workspace
<1>2. text[d] \in Nat
  BY NumbersTypes DEF InductiveServer
<1>3. \A e \in Doc : seen'[e] <= text[e]
  BY <1>2 DEF ReadContents, TextOf, InductiveServer, TypeOK, TextsAreRead
<1>4. VersionsFollowTexts'
  BY <1>1 DEF VersionsFollowTexts
<1>5. QED
  BY <1>1, <1>3, <1>4, WorkspaceKept

LEMMA RelatedVersions ==
  ASSUME InductiveServer, Related PROVE VersionsKept'
<1>1. /\ pc' \in {"wait", "contents"}
      /\ UNCHANGED <<text, version, numbered, published>>
  BY DEF Related, Goto, workspace
<1>2. \A d \in Doc : text[d] \in Nat
  BY NumbersTypes DEF InductiveServer
<1>3. \A d \in Doc : seen'[d] <= text[d]
  BY <1>2 DEF Related
<1>4. VersionsFollowTexts'
  BY <1>1 DEF VersionsFollowTexts
<1>5. QED
  BY <1>1, <1>3, <1>4, WorkspaceKept

LEMMA ParseAndCompileVersions ==
  ASSUME InductiveServer, ParseAndCompile PROVE VersionsKept'
<1>1. UNCHANGED <<text, version, numbered, seen, published>>
  BY DEF ParseAndCompile, workspace
<1>2. \A d \in Doc : versions'[d] = None
  BY DEF ParseAndCompile, ForgetVersions
<1>3. \A n \in Versions : n # None
  BY ServerAssumption DEF Versions
<1>4. VersionsFollowTexts'
  BY <1>2, <1>3 DEF VersionsFollowTexts
<1>5. \A d \in Doc : seen'[d] <= text[d]
  BY <1>1 DEF InductiveServer, TextsAreRead
<1>6. QED
  BY <1>1, <1>4, <1>5, WorkspaceKept

(* The version that is read now stands for a text at least as new as the   *)
(* one read before.                                                        *)
LEMMA ReadVersionVersions ==
  ASSUME InductiveServer, NEW d \in Doc, ReadVersion(d) PROVE VersionsKept'
<1>1. /\ pc = "versions"
      /\ UNCHANGED <<pc, text, version, numbered, seen, published>>
  BY DEF ReadVersion, workspace
<1>2. \A e \in Doc : versions'[e] = IF e = d THEN version[d] ELSE versions[e]
  BY DEF ReadVersion, InductiveServer, TypeOK
<1>3. \A n \in Versions : n # None
  BY ServerAssumption DEF Versions
<1>4. VersionsFollowTexts'
  BY <1>1, <1>2, <1>3
  DEF InductiveServer, TextsAreRead, VersionIsNumbered, VersionsFollowTexts
<1>5. \A e \in Doc : seen'[e] <= text[e]
  BY <1>1 DEF InductiveServer, TextsAreRead
<1>6. QED
  BY <1>1, <1>4, <1>5, WorkspaceKept

LEMMA PublishVersions ==
  ASSUME InductiveServer, NEW d \in Doc, Publish(d) PROVE VersionsKept'
<1>1. pc = "publish" /\ UNCHANGED <<pc, text, version, numbered, seen, versions>>
  BY DEF Publish, workspace, analysis
<1>2. \A e \in Doc :
        published'[e] = IF e = d THEN [version |-> versions[d], seen |-> seen]
                                 ELSE published[e]
  BY DEF Publish, InductiveServer, TypeOK
<1>3. \A n \in Versions : versions[d] = n /\ numbered[d][n] # None
                            => seen[d] <= numbered[d][n]
  BY <1>1 DEF InductiveServer, VersionsFollowTexts
<1>4. VersionNotOlder'
  BY <1>1, <1>2, <1>3 DEF InductiveServer, VersionNotOlder
<1>5. TextsAreRead'
  BY <1>1, <1>2 DEF InductiveServer, TextsAreRead
<1>6. QED
  BY <1>1, <1>4, <1>5
  DEF InductiveServer, VersionsKept, VersionIsNumbered, VersionsFollowTexts

LEMMA NextVersions == InductiveServer /\ [Next]_vars => InductiveServer'
<1>1. SUFFICES ASSUME InductiveServer, [Next]_vars
               PROVE  VersionsKept'
  BY NextTypes DEF InductiveServer, VersionsKept
<1>2. CASE Client
  BY <1>1, <1>2, ClientVersions
<1>3. CASE Queue \/ UNCHANGED vars
  <2>1. UNCHANGED <<text, version, numbered, seen, versions, published,
                  pc>>
    BY <1>3 DEF Queue, vars, workspace, analysis
  <2>2. QED
    BY <1>1, <2>1, NothingRead
<1>4. CASE Worker
  <2>1. CASE \/ Wake \/ Debounced \/ Take \/ Moves
             \/ \E d \in Doc : Relate(d)
    <3>1. UNCHANGED <<text, version, numbered, seen, versions, published>>
      BY <2>1 DEF Wake, Debounced, Take, Moves, Relate, ContentsFailed,
           ContentsRead, ParseFailed, VersionsFailed, VersionsRead, Published,
           workspace, analysis
    <3>2. pc' \in {"versions", "publish"} => pc \in {"versions", "publish"}
      BY <2>1 DEF Wake, Debounced, Take, Moves, Relate, ContentsFailed,
           ContentsRead, ParseFailed, VersionsFailed, VersionsRead, Published,
           Goto
    <3>3. QED
      BY <1>1, <3>1, <3>2, NothingRead
  <2>2. CASE Related
    BY <1>1, <2>2, RelatedVersions
  <2>3. CASE \E d \in Doc : ReadContents(d)
    BY <1>1, <2>3, ReadContentsVersions
  <2>4. CASE ParseAndCompile
    BY <1>1, <2>4, ParseAndCompileVersions
  <2>5. CASE \E d \in Doc : ReadVersion(d)
    BY <1>1, <2>5, ReadVersionVersions
  <2>6. CASE \E d \in Doc : Publish(d)
    BY <1>1, <2>6, PublishVersions
  <2>7. QED
    BY <1>4, <2>1, <2>2, <2>3, <2>4, <2>5, <2>6 DEF Worker, Moves
<1>5. QED
  BY <1>1, <1>2, <1>3, <1>4 DEF Next

LEMMA InitServer == Init => InductiveServer
<1>1. Init => TextsAreRead
  BY ServerAssumption DEF Init, TextsAreRead
<1>2. Init => VersionsFollowTexts /\ VersionIsNumbered
  BY ServerAssumption
  DEF Init, VersionsFollowTexts, VersionIsNumbered, Unnumbered, Versions
<1>3. Init => VersionNotOlder
  BY DEF Init, VersionNotOlder
<1>4. QED
  BY <1>1, <1>2, <1>3, InitTypes DEF InductiveServer

(* The diagnostics of a document are never published under a version that  *)
(* stands for a text older than the one they were computed from, however   *)
(* the client changes, closes and opens the document meanwhile and         *)
(* whatever version it starts with: analyse reads the version after the    *)
(* compilation, what a version stands for never becomes older, and a text  *)
(* that a number is given to later is newer than any read before.          *)
THEOREM DiagnosticsNotOlder == Spec => []VersionNotOlder
<1>1. Init => InductiveServer
  BY InitServer
<1>2. InductiveServer => VersionNotOlder
  BY DEF InductiveServer
<1>3. QED
  BY <1>1, <1>2, NextVersions, PTL DEF Spec

-----------------------------------------------------------------------------
(* The order of diagnostics                                                *)

(* A text read since is as new as the one that d's diagnostics come from.  *)
AsNew(d, e, t) == published[d] # None => published[d].seen[e] <= t

(* Nothing that is published is newer than the workspace; what the worker  *)
(* has read of it for the analysis under way, it has read since the last   *)
(* publication.                                                            *)
NewlyRead(e) ==
  \/ pc = "contents" /\ e \notin todo
  \/ pc \in {"parse", "versions", "publish"}
PublishedFirst ==
  /\ opened = Doc
  /\ \A d, e \in Doc : /\ AsNew(d, e, text[e])
                       /\ NewlyRead(e) => AsNew(d, e, seen[e])

(* The texts, and what is published of them, are numbers.                  *)
LEMMA TextsAreNumbers ==
  ASSUME TypeOK
  PROVE  \A e \in Doc : /\ text[e] \in Nat /\ seen[e] \in Nat
                        /\ \A d \in Doc : published[d] # None =>
                             published[d].seen[e] \in Nat
  BY ServerAssumption DEF TypeOK, Texts, Diagnostics

(* Steps after which no more texts count as read.                          *)
LEMMA NoneNewlyRead ==
  ASSUME PublishedFirst, UNCHANGED <<opened, text, published>>,
         \A e \in Doc : NewlyRead(e)' => NewlyRead(e) /\ seen'[e] = seen[e]
  PROVE  PublishedFirst'
  BY DEF PublishedFirst, AsNew

LEMMA ClientOrder ==
  ASSUME CanClose = FALSE, TypeOK, PublishedFirst, Client
  PROVE  PublishedFirst'
<1>1. PICK c \in Doc : Change(c)
  BY DEF Client, Open, Close
<1>2. UNCHANGED <<opened, pc, todo, seen, published>>
  BY <1>1 DEF Change, scan, analysis
<1>3. \A e \in Doc : text'[e] \in Nat /\ text[e] <= text'[e]
  BY NumbersMove
<1>4. \A d, e \in Doc : AsNew(d, e, text[e])'
  BY <1>2, <1>3, TextsAreNumbers DEF PublishedFirst, AsNew
<1>5. QED
  BY <1>2, <1>4 DEF PublishedFirst, AsNew, NewlyRead

LEMMA ReadContentsOrder ==
  ASSUME TypeOK, PublishedFirst, NEW c \in Doc, ReadContents(c)
  PROVE  PublishedFirst'
<1>1. /\ pc = "contents"
      /\ UNCHANGED <<opened, text, published, pc>>
      /\ todo' = todo \ {c}
      /\ \A e \in Doc : seen'[e] = IF e = c THEN text[e] ELSE seen[e]
  BY DEF ReadContents, workspace, TextOf, TypeOK
<1>2. QED
  BY <1>1 DEF PublishedFirst, AsNew, NewlyRead

LEMMA PublishOrder ==
  ASSUME TypeOK, TextsAreRead, PublishedFirst, NEW c \in Doc, Publish(c)
  PROVE  PublishedFirst'
<1>1. pc = "publish" /\ UNCHANGED <<opened, text, seen, pc>>
  BY DEF Publish, workspace, analysis
<1>2. \A d \in Doc : published'[d] = IF d = c
                                       THEN [version |-> versions[c], seen |-> seen]
                                       ELSE published[d]
  BY DEF Publish, TypeOK
<1>3. \A d, e \in Doc : AsNew(d, e, text[e])' /\ AsNew(d, e, seen[e])'
  BY <1>1, <1>2, TextsAreNumbers DEF PublishedFirst, AsNew, NewlyRead, TextsAreRead
<1>4. QED
  BY <1>1, <1>3 DEF PublishedFirst

LEMMA NextOrder ==
  ASSUME CanClose = FALSE, TypeOK, TextsAreRead, PublishedFirst, [Next]_vars
  PROVE  PublishedFirst'
<1>1. CASE Client
  BY <1>1, ClientOrder
<1>2. CASE Queue \/ UNCHANGED vars
  <2>1. UNCHANGED <<opened, text, seen, published, pc, todo>>
    BY <1>2 DEF Queue, vars, workspace, scan, analysis
  <2>2. QED
    BY <2>1 DEF PublishedFirst, AsNew, NewlyRead
<1>3. CASE Worker
  <2>1. CASE \/ Wake \/ Debounced \/ Take \/ Related \/ ContentsFailed
             \/ ParseFailed \/ VersionsFailed \/ Published
             \/ \E d \in Doc : Relate(d)
    <3>1. UNCHANGED <<opened, text, published>>
      BY <2>1 DEF Wake, Debounced, Take, Related, Relate, ContentsFailed,
           ParseFailed, VersionsFailed, Published, workspace
    <3>2. \/ pc' \notin {"contents", "parse", "versions", "publish"}
          \/ pc' = "contents" /\ todo' = opened
      <4>1. CASE Related
        BY <4>1 DEF Related, Goto, StartScan
      <4>2. CASE Wake \/ Debounced \/ Take \/ \E d \in Doc : Relate(d)
        BY <4>2 DEF Wake, Debounced, Take, Relate, Goto
      <4>3. CASE ContentsFailed \/ ParseFailed \/ VersionsFailed \/ Published
        BY <4>3 DEF ContentsFailed, ParseFailed, VersionsFailed, Published, Goto
      <4>4. QED
        BY <2>1, <4>1, <4>2, <4>3
    <3>3. \A e \in Doc : ~NewlyRead(e)'
      BY <3>2 DEF NewlyRead, PublishedFirst
    <3>4. QED
      BY <3>1, <3>3, NoneNewlyRead
  <2>2. CASE \E d \in Doc : ReadContents(d)
    BY <2>2, ReadContentsOrder
  <2>3. CASE \/ ContentsRead \/ ParseAndCompile \/ VersionsRead
             \/ \E d \in Doc : ReadVersion(d)
    <3>1. UNCHANGED <<opened, text, published, seen>>
      BY <2>3 DEF ContentsRead, ParseAndCompile, VersionsRead, ReadVersion,
           workspace, analysis
    <3>2. \A e \in Doc : NewlyRead(e)
      BY <2>3 DEF ContentsRead, ParseAndCompile, VersionsRead, ReadVersion,
           NewlyRead
    <3>3. QED
      BY <3>1, <3>2, NoneNewlyRead
  <2>4. CASE \E d \in Doc : Publish(d)
    BY <2>4, PublishOrder
  <2>5. QED
    BY <1>3, <2>1, <2>2, <2>3, <2>4 DEF Worker
<1>4. QED
  BY <1>1, <1>2, <1>3 DEF Next

LEMMA PublishedChanges ==
  ASSUME TypeOK, [Next]_vars, NEW d \in Doc
  PROVE  published'[d] = published[d] \/ Publish(d)
<1>1. CASE UNCHANGED published
  BY <1>1
<1>2. ASSUME NEW c \in Doc, Publish(c)
      PROVE  published'[d] = published[d] \/ c = d
  BY <1>2 DEF Publish, TypeOK
<1>3. UNCHANGED published \/ \E c \in Doc : Publish(c)
  <2>1. ASSUME Client \/ Queue PROVE UNCHANGED published
    BY <2>1 DEF Client, Open, Change, Close, Queue
  <2>2. ASSUME Worker PROVE UNCHANGED published \/ \E c \in Doc : Publish(c)
    BY <2>2 DEF Worker, Wake, Debounced, Take, Relate, Related, ReadContents,
         ContentsFailed, ContentsRead, ParseFailed, ParseAndCompile,
         ReadVersion, VersionsFailed, VersionsRead, Published
  <2>3. QED
    BY <2>1, <2>2 DEF Next, vars
<1>4. QED
  BY <1>1, <1>2, <1>3

(* While documents stay open, what is published for a document comes from  *)
(* texts at least as new as what it replaces did, for any finite set of    *)
(* documents and any interleaving of the edits and the worker: the loop    *)
(* over the open documents begins after the last publication.              *)
THEOREM DiagnosticsAdvance ==
  ASSUME CanClose = FALSE
  PROVE  Spec => DiagnosticsNeverGoBack
<1>1. Init => InductiveServer /\ PublishedFirst
  <2>1. Init => InductiveServer
    BY InitServer
  <2>2. Init => PublishedFirst
    BY DEF Init, PublishedFirst, AsNew
  <2>3. QED
    BY <2>1, <2>2
<1>2. InductiveServer /\ PublishedFirst /\ [Next]_vars
        => (InductiveServer /\ PublishedFirst)'
  BY NextVersions, NextOrder DEF InductiveServer
<1>3. InductiveServer /\ PublishedFirst /\ [Next]_vars =>
        [\A d \in Doc : published[d] # None =>
           \A e \in ReachedFrom(Imports, {d}) :
             published'[d].seen[e] >= published[d].seen[e]]_vars
  <2>1. SUFFICES ASSUME InductiveServer, PublishedFirst, [Next]_vars,
                        NEW d \in Doc, published[d] # None,
                        NEW e \in ReachedFrom(Imports, {d})
                 PROVE  published'[d].seen[e] >= published[d].seen[e]
    OBVIOUS
  <2>2. e \in Doc
    BY ReachedTypes
  <2>3. published[d].seen[e] \in Nat /\ seen[e] \in Nat
    BY <2>1, <2>2, TextsAreNumbers DEF InductiveServer
  <2>4. CASE published'[d] = published[d]
    BY <2>3, <2>4
  <2>5. CASE Publish(d)
    <3>1. published'[d].seen = seen
      <4>1. published \in [Doc -> Diagnostics \cup {None}]
        BY <2>1 DEF InductiveServer, TypeOK
      <4>2. published'[d] = [version |-> versions[d], seen |-> seen]
        BY <2>5, <4>1 DEF Publish
      <4>3. QED
        BY <4>2
    <3>2. published[d].seen[e] <= seen[e]
      BY <2>1, <2>2, <2>5 DEF Publish, PublishedFirst, NewlyRead, AsNew
    <3>3. QED
      BY <2>3, <3>1, <3>2
  <2>6. published'[d] = published[d] \/ Publish(d)
    BY <2>1, PublishedChanges DEF InductiveServer
  <2>7. QED
    BY <2>4, <2>5, <2>6
<1>4. QED
  BY <1>1, <1>2, <1>3, PTL DEF Spec, DiagnosticsNeverGoBack
=============================================================================
