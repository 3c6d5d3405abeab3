---------------------------- MODULE WatcherRaces ----------------------------
(***************************************************************************)
(* What the watcher's goroutines promise together, and the races that      *)
(* break the promise.  The watcher changes its state under clientsMutex    *)
(* and hands the updates over after unlocking; a reload reads every file   *)
(* before it locks; a removal soon after another one is dropped; and the   *)
(* configuration is read three times in one reload.  Nothing in the code   *)
(* keeps these steps apart.  Four history variables say for which          *)
(* credentials, and since when, such a race has happened; they are         *)
(* cleared by the step of the program that makes good for it.  They guard  *)
(* nothing: a step of this module is a step of Watcher with its record.    *)
(***************************************************************************)
EXTENDS Watcher

VARIABLES
  overtaken,  \* credentials whose updates may arrive in the wrong order
  unseen,     \* files a reload has installed from an outdated reading
  debounced,  \* files with a removal that was dropped
  missed      \* a version of the configuration that no reload has read

raceVars == <<overtaken, unseen, debounced, missed>>
allVars == <<watcherVars, raceVars>>

(* The goroutines that have changed a credential and not yet handed the    *)
(* update over.                                                            *)
Held(g) == IF g = "handler" THEN handler.out
           ELSE IF g \in Reloads THEN reload[g].out
           ELSE reporter[g]
Holders(id) ==
  {g \in {"handler"} \cup Reloads \cup Reporters : Held(g)[id] # None}

Contended(id) == \E g \in Holders(id), h \in Holders(id) : g # h

(* A credential is overtaken once two goroutines hold an update of it, or  *)
(* once a reload forgets its value without an update (the credentials of   *)
(* an affected provider).  The next update that travels alone puts it      *)
(* right.                                                                  *)
Overtakes ==
  overtaken' = {id \in Ids :
    \/ Contended(id)'
    \/ currentAuths'[id] # currentAuths[id] /\ Holders(id)' = Holders(id)
    \/ id \in overtaken /\ ~(Holders(id) = {} /\ Holders(id)' # {})}

(* The reading a reload is about to install is not the content whose hash  *)
(* is remembered: an event of that file came between the two, or will not  *)
(* be looked at.  Put right once the credential agrees with the hash.      *)
Outdated(f) ==
  \E r \in Reloads : reload[r].at = "install"
                       /\ reload[r].snap[f] # Parsed(lastAuthHashes[f])
Unsees ==
  unseen' = {f \in Files :
    \/ Outdated(f)'
    \/ f \in unseen /\ currentAuths'[f] # Parsed(lastAuthHashes'[f])}

(* A removal is dropped while the file is known.  Put right by the next    *)
(* event of the file that is looked at, or by a scan of the directory.     *)
Debounces ==
  LET f == events[1][1] IN
  debounced' =
    IF TakeEvent
    THEN IF handler'.at # "idle" THEN debounced \ {f}
         ELSE IF lastAuthHashes[f] # Absent THEN debounced \cup {f}
         ELSE debounced
    ELSE IF \E r \in Reloads : RescanFiles(r) THEN {} ELSE debounced

(* The configuration is written between the reading that is applied and    *)
(* the reading whose hash is remembered.  Put right by a reload that       *)
(* begins when no other has read.                                          *)
HasRead(r) == reload[r].cfg # 0
Misses ==
  missed' =
    \/ missed /\ ~(\E r \in Reloads : HasRead(r)' /\ \A x \in Reloads : ~HasRead(x))
    \/ cfgDisk' # cfgDisk /\ \E r \in Reloads : HasRead(r)

RacesInit ==
  /\ WatcherInit
  /\ overtaken = {} /\ unseen = {} /\ debounced = {} /\ missed = FALSE

RacesNext == WatcherNext /\ Overtakes /\ Unsees /\ Debounces /\ Misses

RacesSpec == RacesInit /\ [][RacesNext]_allVars

FairRacesSpec == RacesSpec /\ WatcherFairness

----------------------------------------------------------------------------
(* Properties *)

Settled ==
  /\ \A f \in Files : disk[f] # Partial
  /\ events = <<>> /\ handler.at = "idle"
  /\ ~cfgTimer /\ \A r \in Reloads : reload[r].at = "idle"
  /\ \A p \in Reporters : reporter[p] = NoUpdates
  /\ NothingUnderWay

(* The service, the watcher and the sources of credentials agree, but for  *)
(* what the races above have put out of step.                              *)
InStep ==
  /\ \A id \in Ids \ overtaken : applied[id] = currentAuths[id]
  /\ \A id \in Runtimes \ overtaken : currentAuths[id] = runtimeAuths[id]
  /\ \A f \in Files \ (unseen \cup debounced) : currentAuths[f] = disk[f]
  /\ missed \/ config = cfgDisk

(* However events, reloads and reports interleave: once all is handled, a  *)
(* credential that no race of this module has hit has the same value at    *)
(* the service, in the watcher and at its source, and the configuration in *)
(* force is the one on disk.  Hashes, merging, diffs and the index of      *)
(* files hide no change, and only these four races do.                     *)
SettledInStep == Settled => InStep

(* When the changes end the service catches up and stays there, although   *)
(* the queue is full again and again and updates are merged meanwhile; the *)
(* credentials the races have hit at the end are left out here too.        *)
CatchesUp == <>[]InStep
=============================================================================
