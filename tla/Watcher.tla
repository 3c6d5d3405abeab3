------------------------------ MODULE Watcher ------------------------------
(***************************************************************************)
(* The watcher of credential files and of the configuration file           *)
(* (internal/watcher): file events are handled one at a time under         *)
(* authRescanMu, a configuration reload runs in the goroutine of a timer,  *)
(* and credentials that live only at run time are reported by others.  All *)
(* three change currentAuths under clientsMutex and hand their updates to  *)
(* the dispatcher (UpdateDispatch) after unlocking.  One action is one     *)
(* critical section of clientsMutex or one access to a file.               *)
(*                                                                         *)
(* A credential file holds one credential.  Its content is a version       *)
(* number, Absent, or Partial while it is being written (empty or not yet  *)
(* JSON).  Its hash stands for its content.  External: the file system,    *)
(* which reports every change after it happened, in order, a removal once  *)
(* or twice, and a replacement with or without a removal before it.        *)
(***************************************************************************)
EXTENDS UpdateDispatch

CONSTANTS
  Files,       \* credential files; each is also the id of its credential
  Runtimes,    \* ids of credentials that have no file
  Reloads,     \* goroutines of reloads; bounds how many overlap
  Reporters,   \* goroutines that report run time credentials; likewise
  MaxVersion,  \* bound: versions of a file's content
  MaxChanges,  \* bound: changes of files and configuration, and reports
  MaxConfig    \* bound: versions of the configuration

ASSUME WatcherAssumption ==
  /\ Ids = Files \cup Runtimes
  /\ Files \cap Runtimes = {}
  /\ Reloads # {} /\ Reloads \cap Reporters = {}
  /\ "handler" \notin Reloads \cup Reporters
  /\ MaxVersion \in Nat /\ MaxChanges \in Nat /\ MaxConfig \in Nat

VARIABLES
  disk,             \* content of each credential file
  events,           \* fsnotify events not yet taken: <<file, op>>
  changes,          \* changes and reports so far
  cfgDisk,          \* version of the configuration file
  cfgTimer,         \* the reload timer is set
  lastConfigHash,   \* hash of the configuration that was loaded last
  config,           \* the configuration in force
  lastAuthHashes,   \* hash of each known file (Absent: unknown)
  fileAuthsByPath,  \* files that have given a credential
  recentRemove,     \* files with a removal in the debounce window
  currentAuths,     \* the watcher's value of each credential
  runtimeAuths,     \* run time credentials
  handler,          \* handleEvent: where it is, its file, what it has read
  reload,           \* reloadConfigIfChanged and reloadClients, per goroutine
  reporter          \* dispatchRuntimeAuthUpdate: what is to be handed over

fileVars == <<disk, events, changes>>
configVars == <<cfgDisk, cfgTimer, lastConfigHash, config>>
cacheVars == <<lastAuthHashes, fileAuthsByPath, recentRemove>>
authVars == <<currentAuths, runtimeAuths>>
goVars == <<handler, reload, reporter>>
watcherVars == <<fileVars, configVars, cacheVars, authVars, goVars,
                 dispatchVars, serviceVars>>

Absent == Gone
Partial == -1
NoUpdates == [id \in Ids |-> None]
HandlerIdle == [at |-> "idle", file |-> None, data |-> Absent, out |-> NoUpdates]
ReloadIdle == [at |-> "idle", first |-> FALSE, cfg |-> 0, force |-> FALSE,
               snap |-> [f \in Files |-> Absent], out |-> NoUpdates]

(* The watcher starts with a full load and remembers no hash (0). *)
WatcherInit ==
  /\ DispatchInit
  /\ disk \in [Files -> {Absent, 1}]
  /\ events = <<>>
  /\ changes = 0
  /\ cfgDisk = 1 /\ cfgTimer = FALSE /\ lastConfigHash = 0 /\ config = 1
  /\ lastAuthHashes = [f \in Files |-> Absent]
  /\ fileAuthsByPath = {}
  /\ recentRemove = {}
  /\ currentAuths = [id \in Ids |-> Absent]
  /\ runtimeAuths = [id \in Runtimes |-> Absent]
  /\ handler = HandlerIdle
  /\ \E r \in Reloads :
       reload = [x \in Reloads |->
         IF x = r THEN [ReloadIdle EXCEPT !.at = "rescan", !.first = TRUE]
         ELSE ReloadIdle]
  /\ reporter = [p \in Reporters |-> NoUpdates]

----------------------------------------------------------------------------
(* External: the files *)

FileStep(f, content, ops) ==
  /\ disk' = [disk EXCEPT ![f] = content]
  /\ events' = events \o [i \in DOMAIN ops |-> <<f, ops[i]>>]
  /\ UNCHANGED <<configVars, cacheVars, authVars, goVars, dispatchVars,
                 serviceVars>>

(* A write in two steps, through a truncated file. *)
WriteBegin(f) ==
  /\ disk[f] # Partial /\ changes < MaxChanges
  /\ FileStep(f, Partial, <<"write">>)
  /\ changes' = changes + 1

WriteEnd(f, v) ==
  /\ disk[f] = Partial
  /\ FileStep(f, v, <<"write">>)
  /\ UNCHANGED changes

ReplaceFile(f) ==
  /\ disk[f] \in 1..(MaxVersion - 1) /\ changes < MaxChanges
  /\ \E ops \in {<<"write">>, <<"remove", "write">>} :
       FileStep(f, disk[f] + 1, ops)
  /\ changes' = changes + 1

RemoveFile(f) ==
  /\ disk[f] \in 1..MaxVersion /\ changes < MaxChanges
  /\ \E ops \in {<<"remove">>, <<"remove", "remove">>} :
       FileStep(f, Absent, ops)
  /\ changes' = changes + 1

(* A write of the configuration sets the timer of scheduleConfigReload     *)
(* anew; it fires 150 ms after the last one, whatever is under way then.   *)
WriteConfig(v) ==
  /\ v # cfgDisk /\ changes < MaxChanges
  /\ cfgDisk' = v
  /\ cfgTimer' = TRUE
  /\ changes' = changes + 1
  /\ UNCHANGED <<disk, events, lastConfigHash, config, cacheVars, authVars,
                 goVars, dispatchVars, serviceVars>>

DebounceEnds(f) ==
  /\ f \in recentRemove
  /\ recentRemove' = recentRemove \ {f}
  /\ UNCHANGED <<fileVars, configVars, lastAuthHashes, fileAuthsByPath,
                 authVars, goVars, dispatchVars, serviceVars>>

----------------------------------------------------------------------------
(* handleEvent, under authRescanMu *)

HandlerKeeps == UNCHANGED <<disk, changes, configVars, runtimeAuths, reload,
                            reporter, serviceVars>>

(* shouldDebounceRemove drops a second removal inside the window. *)
TakeEvent ==
  LET f == events[1][1] IN
  /\ handler.at = "idle"
  /\ events # <<>>
  /\ events' = Tail(events)
  /\ \/ /\ events[1][2] = "write"
        /\ handler' = [HandlerIdle EXCEPT !.at = "compare", !.file = f]
        /\ UNCHANGED recentRemove
     \/ /\ events[1][2] = "remove" /\ f \notin recentRemove
        /\ handler' = [HandlerIdle EXCEPT !.at = "stat", !.file = f]
        /\ recentRemove' = recentRemove \cup {f}
     \/ /\ events[1][2] = "remove" /\ f \in recentRemove
        /\ UNCHANGED <<handler, recentRemove>>
  /\ UNCHANGED <<lastAuthHashes, fileAuthsByPath, currentAuths, dispatchVars>>
  /\ HandlerKeeps

(* After replaceCheckDelay: a file that is there again was replaced. *)
StatRemoved ==
  LET f == handler.file IN
  /\ handler.at = "stat"
  /\ handler' = IF disk[f] # Absent THEN [handler EXCEPT !.at = "compare"]
                ELSE IF lastAuthHashes[f] # Absent
                     THEN [handler EXCEPT !.at = "forget"]
                ELSE HandlerIdle
  /\ UNCHANGED <<events, cacheVars, currentAuths, dispatchVars>>
  /\ HandlerKeeps

authFileUnchanged ==
  LET f == handler.file IN
  /\ handler.at = "compare"
  /\ handler' = IF disk[f] # Absent /\ disk[f] = lastAuthHashes[f]
                THEN HandlerIdle ELSE [handler EXCEPT !.at = "read"]
  /\ UNCHANGED <<events, cacheVars, currentAuths, dispatchVars>>
  /\ HandlerKeeps

(* The first part of addOrUpdateClientLocked: what cannot be read or       *)
(* parsed leaves the hash alone, so that the next event is looked at.      *)
ReadChanged ==
  LET f == handler.file
      data == disk[f] IN
  /\ handler.at = "read"
  /\ IF data \in {Absent, Partial} \/ data = lastAuthHashes[f]
     THEN handler' = HandlerIdle /\ UNCHANGED lastAuthHashes
     ELSE /\ handler' = [handler EXCEPT !.at = "apply", !.data = data]
          /\ lastAuthHashes' = [lastAuthHashes EXCEPT ![f] = data]
  /\ UNCHANGED <<events, fileAuthsByPath, recentRemove, currentAuths,
                 dispatchVars>>
  /\ HandlerKeeps

(* computePerPathUpdatesLocked for the credential of a changed file *)
ApplyChanged ==
  LET f == handler.file IN
  /\ handler.at = "apply"
  /\ fileAuthsByPath' = fileAuthsByPath \cup {f}
  /\ currentAuths' = [currentAuths EXCEPT ![f] = handler.data]
  /\ handler' = [handler EXCEPT !.at = "post", !.out =
       IF currentAuths[f] = handler.data THEN NoUpdates
       ELSE [NoUpdates EXCEPT ![f] = handler.data]]
  /\ UNCHANGED <<events, lastAuthHashes, recentRemove, dispatchVars>>
  /\ HandlerKeeps

removeClientLocked ==
  LET f == handler.file
      had == f \in fileAuthsByPath IN
  /\ handler.at = "forget"
  /\ lastAuthHashes' = [lastAuthHashes EXCEPT ![f] = Absent]
  /\ fileAuthsByPath' = fileAuthsByPath \ {f}
  /\ currentAuths' = IF had THEN [currentAuths EXCEPT ![f] = Absent]
                     ELSE currentAuths
  /\ handler' = [handler EXCEPT !.at = "post",
       !.out = IF had THEN [NoUpdates EXCEPT ![f] = Gone] ELSE NoUpdates]
  /\ UNCHANGED <<events, recentRemove, dispatchVars>>
  /\ HandlerKeeps

PostEvent ==
  /\ handler.at = "post"
  /\ dispatchAuthUpdates(handler.out)
  /\ handler' = HandlerIdle
  /\ UNCHANGED <<events, cacheVars, currentAuths>>
  /\ HandlerKeeps

HandlerStep ==
  \/ TakeEvent \/ StatRemoved \/ authFileUnchanged \/ ReadChanged
  \/ ApplyChanged \/ removeClientLocked \/ PostEvent

----------------------------------------------------------------------------
(* reloadConfigIfChanged: each timer that fires has its own goroutine, so  *)
(* reloads may overlap, and the first load may overlap with them           *)

SetReload(r, new) == reload' = [reload EXCEPT ![r] = new]
ReloadKeeps == UNCHANGED <<disk, events, recentRemove, runtimeAuths, handler,
                           reporter, changes, cfgDisk, serviceVars>>

(* The hash of what is on disk now is compared with the remembered one. *)
TimerFires(r) ==
  /\ cfgTimer /\ reload[r].at = "idle"
  /\ cfgTimer' = FALSE
  /\ IF cfgDisk = lastConfigHash THEN UNCHANGED reload
     ELSE SetReload(r, [ReloadIdle EXCEPT !.at = "load"])
  /\ UNCHANGED <<lastConfigHash, config, lastAuthHashes, fileAuthsByPath,
                 currentAuths, dispatchVars>>
  /\ ReloadKeeps

LoadConfig(r) ==
  /\ reload[r].at = "load"
  /\ SetReload(r, [reload[r] EXCEPT !.at = "commit", !.cfg = cfgDisk])
  /\ UNCHANGED <<cfgTimer, lastConfigHash, config, lastAuthHashes,
                 fileAuthsByPath, currentAuths, dispatchVars>>
  /\ ReloadKeeps

reloadConfig(r) ==
  /\ reload[r].at = "commit"
  /\ config' = reload[r].cfg
  /\ SetReload(r, [reload[r] EXCEPT
       !.at = IF reload[r].cfg = config THEN "snapshot" ELSE "affected"])
  /\ UNCHANGED <<cfgTimer, lastConfigHash, lastAuthHashes, fileAuthsByPath,
                 currentAuths, dispatchVars>>
  /\ ReloadKeeps

(* What changed in the configuration decides whether files are scanned     *)
(* anew, every credential is sent again, and which providers' credentials  *)
(* are forgotten, so that they count as new.                               *)
ForgetAffected(r) ==
  /\ reload[r].at = "affected"
  /\ \E rescan \in BOOLEAN, force \in BOOLEAN, affected \in SUBSET Ids :
       /\ SetReload(r, [reload[r] EXCEPT !.force = force,
                          !.at = IF rescan THEN "rescan" ELSE "snapshot"])
       /\ currentAuths' = [id \in Ids |-> IF id \in affected THEN Absent
                                          ELSE currentAuths[id]]
  /\ UNCHANGED <<cfgTimer, lastConfigHash, config, lastAuthHashes,
                 fileAuthsByPath, dispatchVars>>
  /\ ReloadKeeps

Parsed(content) == IF content = Partial THEN Absent ELSE content

(* The directory scan of reloadClients, under authRescanMu. *)
RescanFiles(r) ==
  /\ reload[r].at = "rescan"
  /\ handler.at = "idle"
  /\ lastAuthHashes' = disk
  /\ fileAuthsByPath' = {f \in Files : Parsed(disk[f]) # Absent}
  /\ SetReload(r, [reload[r] EXCEPT !.at = "snapshot"])
  /\ UNCHANGED <<cfgTimer, lastConfigHash, config, currentAuths, dispatchVars>>
  /\ ReloadKeeps

(* refreshAuthState reads the files before it takes clientsMutex. *)
SnapshotFiles(r) ==
  /\ reload[r].at = "snapshot"
  /\ SetReload(r, [reload[r] EXCEPT !.at = "install",
                     !.snap = [f \in Files |-> Parsed(disk[f])]])
  /\ UNCHANGED <<cfgTimer, lastConfigHash, config, lastAuthHashes,
                 fileAuthsByPath, currentAuths, dispatchVars>>
  /\ ReloadKeeps

(* prepareAuthUpdatesLocked: the snapshot and the run time credentials     *)
(* become the state, and what differs is reported.                         *)
prepareAuthUpdatesLocked(r) ==
  LET new == [id \in Ids |-> IF id \in Files THEN reload[r].snap[id]
                             ELSE runtimeAuths[id]]
      out == [id \in Ids |->
                IF new[id] # currentAuths[id]
                     \/ (reload[r].force /\ new[id] # Absent)
                THEN new[id] ELSE None]
  IN /\ reload[r].at = "install"
     /\ currentAuths' = new
     /\ SetReload(r, [ReloadIdle EXCEPT !.at = "post", !.first = reload[r].first,
                        !.cfg = reload[r].cfg, !.out = out])
     /\ UNCHANGED <<cfgTimer, lastConfigHash, config, lastAuthHashes,
                    fileAuthsByPath, dispatchVars>>
     /\ ReloadKeeps

PostReload(r) ==
  /\ reload[r].at = "post"
  /\ dispatchAuthUpdates(reload[r].out)
  /\ SetReload(r, IF reload[r].first THEN ReloadIdle
                  ELSE [ReloadIdle EXCEPT !.at = "hash", !.cfg = reload[r].cfg])
  /\ UNCHANGED <<cfgTimer, lastConfigHash, config, lastAuthHashes,
                 fileAuthsByPath, currentAuths>>
  /\ ReloadKeeps

(* The file is read once more for the hash to remember. *)
RememberHash(r) ==
  /\ reload[r].at = "hash"
  /\ lastConfigHash' = cfgDisk
  /\ SetReload(r, ReloadIdle)
  /\ UNCHANGED <<cfgTimer, config, lastAuthHashes, fileAuthsByPath,
                 currentAuths, dispatchVars>>
  /\ ReloadKeeps

ReloadStep(r) ==
  \/ TimerFires(r) \/ LoadConfig(r) \/ reloadConfig(r) \/ ForgetAffected(r)
  \/ RescanFiles(r) \/ SnapshotFiles(r) \/ prepareAuthUpdatesLocked(r)
  \/ PostReload(r) \/ RememberHash(r)

----------------------------------------------------------------------------
(* dispatchRuntimeAuthUpdate, by sessions that come and go at any time *)

ReporterKeeps == UNCHANGED <<disk, events, configVars, cacheVars, handler, reload,
                             serviceVars>>

(* The state changes under clientsMutex, the update follows. *)
ReportRuntime(p, id) ==
  LET val == IF runtimeAuths[id] = Absent THEN 1 ELSE Gone IN
  /\ reporter[p] = NoUpdates
  /\ changes < MaxChanges
  /\ runtimeAuths' = [runtimeAuths EXCEPT ![id] = val]
  /\ currentAuths' = [currentAuths EXCEPT ![id] = val]
  /\ reporter' = [reporter EXCEPT ![p] = [NoUpdates EXCEPT ![id] = val]]
  /\ changes' = changes + 1
  /\ UNCHANGED dispatchVars
  /\ ReporterKeeps

PostRuntime(p) ==
  /\ reporter[p] # NoUpdates
  /\ dispatchAuthUpdates(reporter[p])
  /\ reporter' = [reporter EXCEPT ![p] = NoUpdates]
  /\ UNCHANGED <<changes, authVars>>
  /\ ReporterKeeps

----------------------------------------------------------------------------

ServiceSide(A) ==
  /\ A
  /\ UNCHANGED <<fileVars, configVars, cacheVars, authVars, goVars>>

WatcherNext ==
  \/ \E f \in Files :
       \/ WriteBegin(f) \/ ReplaceFile(f) \/ RemoveFile(f) \/ DebounceEnds(f)
       \/ \E v \in 1..MaxVersion : WriteEnd(f, v)
  \/ \E v \in 1..MaxConfig : WriteConfig(v)
  \/ HandlerStep
  \/ \E r \in Reloads : ReloadStep(r)
  \/ \E p \in Reporters : PostRuntime(p) \/ \E id \in Runtimes : ReportRuntime(p, id)
  \/ ServiceSide(DispatchStep)
  \/ ServiceSide(ConsumerStep)

(* Goroutines go on and a set timer fires.  Writers finish what they       *)
(* began; nobody owes a further change.                                    *)
WatcherFairness ==
  /\ WF_watcherVars(HandlerStep)
  /\ \A r \in Reloads : WF_watcherVars(ReloadStep(r))
  /\ \A p \in Reporters : WF_watcherVars(PostRuntime(p))
  /\ WF_watcherVars(ServiceSide(DispatchStep))
  /\ WF_watcherVars(ServiceSide(ConsumerStep))
  /\ \A f \in Files : WF_watcherVars(\E v \in 1..MaxVersion : WriteEnd(f, v))

WatcherSpec == WatcherInit /\ [][WatcherNext]_watcherVars
=============================================================================
