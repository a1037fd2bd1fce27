---------------------------- MODULE PluginHost ----------------------------
(* The plugins of apps/server/src/plugins/host.ts: their rows, the tools   *)
(* and observers their code registered, and the operations on them, each   *)
(* an async request that other requests may overtake at every await.  A    *)
(* loading of a plugin is an instance (LoadedPlugin in the code); its code *)
(* may register one tool, under one name, and one observer: while it is    *)
(* activated and, as nothing takes the API back, whenever it likes later.  *)
(* Manifests are valid, and declare the permissions that this takes; what  *)
(* a manifest alone contributes follows from the rows.                     *)
EXTENDS Naturals

CONSTANTS
  Plugins,
  Code,       \* those with an entry module; the others only have a manifest
  Bundled,    \* those that ship with the office
  Operators,  \* requests in flight at once
  Insts,      \* instances alive at once
  Lingering,  \* bound: those whose code may do something once withdrawn
  NoInst,
  LastVersion \* the newest version a marketplace offers

ASSUME PluginsAssumption ==
  /\ Code \subseteq Plugins /\ Bundled \subseteq Plugins /\ Plugins # {}
  /\ NoInst \notin Insts /\ Lingering \subseteq Insts /\ LastVersion \in Nat \ {0}

VARIABLES
  disk,      \* the version in the plugin's directory, 0 when there is none
  cached,    \* the version whose module the process has imported, 0 before
  saved,     \* the operator's decision: on, off or never made
  inst,      \* the instances
  loaded,    \* the instance that is the plugin's row, if there is one
  holder,    \* the instance whose tool is registered under the plugin's name
  observers, \* instances subscribed to the event stream
  op,        \* what each operator's request is doing
  started    \* whether load() has been called

vars == <<disk, cached, saved, inst, loaded, holder, observers, op, started>>

(* A request of some kind, at some point, about p: the instance it puts    *)
(* up, the row it found, and the plugins a rescan has still to look at.    *)
Doing(kind, pc, p, fresh, old, todo) ==
  [kind |-> kind, pc |-> pc, plugin |-> p, fresh |-> fresh, old |-> old, todo |-> todo]
Idle == Doing("idle", "idle", CHOOSE p \in Plugins : TRUE, NoInst, NoInst, {})
GoesOn(o, pc) ==
  op' = [op EXCEPT ![o] = Doing(op[o].kind, pc, op[o].plugin, op[o].fresh, op[o].old, op[o].todo)]

(* What a loading of p is: `code` is the version of the code it runs, which *)
(* is not always that of its manifest, `api` whether that code holds the   *)
(* API, `late` (history) whether it registered when it was withdrawn.      *)
NewInstance(p, version, on) ==
  [plugin |-> p, version |-> version, enabled |-> on, tools |-> FALSE,
   status |-> IF on THEN "loaded" ELSE "disabled", api |-> FALSE, late |-> FALSE]

(* Instances nobody refers to any more, and whose code is done.            *)
Free == {i \in Insts : /\ \A p \in Plugins : i \notin {loaded[p], holder[p]}
                       /\ i \notin observers /\ ~(inst[i].api /\ i \in Lingering)
                       /\ \A o \in Operators : i \notin {op[o].fresh, op[o].old}}

Row(p) == inst[loaded[p]]
Wanted(p) == saved[p] # "off"

(* The process starts: what it knows is on disk and in the store.          *)
Init ==
  /\ disk \in [Plugins -> 0..LastVersion] /\ \A p \in Bundled : disk[p] = 1
  /\ cached = [p \in Plugins |-> 0]
  /\ saved \in [Plugins -> {"unset", "on", "off"}]
  /\ inst = [i \in Insts |-> NewInstance(CHOOSE p \in Plugins : TRUE, 1, FALSE)]
  /\ loaded = [p \in Plugins |-> NoInst]
  /\ holder = [p \in Plugins |-> NoInst]
  /\ observers = {}
  /\ op = [o \in Operators |-> Idle]
  /\ started = FALSE

-----------------------------------------------------------------------------
(* Pieces of the operations.                                               *)

(* The synchronous half of unloadPlugin.                                   *)
Withdraw(p) ==
  /\ holder' = IF loaded[p] # NoInst /\ Row(p).tools THEN [holder EXCEPT ![p] = NoInst] ELSE holder
  /\ observers' = observers \ {loaded[p]}

Scanning(kind, left) ==
  IF left = {} THEN Idle ELSE Doing(kind, "scanning", Idle.plugin, NoInst, NoInst, left)

Sweeping(kind, left) == Doing(kind, "sweeping", Idle.plugin, NoInst, NoInst, left)

(* What a request does next, once its plugin is loaded or not: a rescan    *)
(* goes on to the next directory, any other request is over.               *)
Over(o) ==
  op' = [op EXCEPT ![o] = Scanning(op[o].kind, op[o].todo)]

(* Put a fresh instance of p up for activation.                            *)
Activation(o, p, version) ==
  \E u \in Free :
    /\ inst' = [inst EXCEPT ![u] = NewInstance(p, version, TRUE)]
    /\ op' = [op EXCEPT ![o] = Doing(op[o].kind, "activating", p, u, NoInst, op[o].todo \ {p})]

(* loadDirectory: a plugin that is off only gets its row.                  *)
LoadDirectory(o, p, rows) ==
  IF Wanted(p)
    THEN Activation(o, p, disk'[p]) /\ loaded' = rows
    ELSE /\ \E u \in Free : /\ inst' = [inst EXCEPT ![u] = NewInstance(p, disk'[p], FALSE)]
                            /\ loaded' = [rows EXCEPT ![p] = u]
         /\ op' = [op EXCEPT ![o] = Scanning(op[o].kind, op[o].todo \ {p})]

Begin(o, kind, p, pc) ==
  op' = [op EXCEPT ![o] = Doing(kind, pc, p, NoInst, loaded[p], {})]

-----------------------------------------------------------------------------
(* The requests.                                                           *)

(* load() at start, before the server listens, and refresh: unload every   *)
(* row, forget them all, rescan the directories.                           *)
Rescan(o, kind) ==
  /\ op[o] = Idle
  /\ LET rows == {p \in Plugins : loaded[p] # NoInst}
         dirs == {p \in Plugins : disk[p] # 0}
     IN  op' = [op EXCEPT ![o] = IF rows = {} THEN Scanning(kind, dirs) ELSE Sweeping(kind, rows)]
  /\ UNCHANGED <<disk, cached, saved, inst, loaded, holder, observers>>

Enable(o, p) ==
  /\ op[o] = Idle /\ loaded[p] # NoInst
  /\ Row(p).enabled => Row(p).status = "error"
  /\ saved' = [saved EXCEPT ![p] = "on"]
  /\ \E u \in Free :
       /\ inst' = [inst EXCEPT ![u] = NewInstance(p, Row(p).version, TRUE)]
       /\ op' = [op EXCEPT ![o] = Doing("enable", "activating", p, u, NoInst, {})]
  /\ UNCHANGED <<disk, cached, loaded, holder, observers>>

(* Wrong: the decision is left for the next start to make again. *)
DisableForgets(o, p) ==
  /\ op[o] = Idle /\ loaded[p] # NoInst
  /\ Row(p).enabled \/ Row(p).status = "error"
  /\ Withdraw(p)
  /\ Begin(o, "disable", p, "deactivating")
  /\ UNCHANGED <<disk, cached, saved, inst, loaded>>

Disable(o, p) ==
  /\ op[o] = Idle /\ loaded[p] # NoInst
  /\ Row(p).enabled \/ Row(p).status = "error"
  /\ saved' = [saved EXCEPT ![p] = "off"]
  /\ Withdraw(p)
  /\ Begin(o, "disable", p, "deactivating")
  /\ UNCHANGED <<disk, cached, inst, loaded>>

(* Only a plugin with code is reloaded; a setting of another changes no    *)
(* state kept here.                                                        *)
Configure(o, p) ==
  /\ op[o] = Idle /\ loaded[p] # NoInst /\ p \in Code
  /\ Row(p).enabled
  /\ Withdraw(p)
  /\ Begin(o, "configure", p, "deactivating")
  /\ UNCHANGED <<disk, cached, saved, inst, loaded>>

Remove(o, p) ==
  /\ op[o] = Idle /\ loaded[p] # NoInst /\ p \notin Bundled
  /\ Withdraw(p)
  /\ Begin(o, "remove", p, "deactivating")
  /\ UNCHANGED <<disk, cached, saved, inst, loaded>>

(* The catalogue and the bundle take their time to arrive.                 *)
Install(o, p) ==
  /\ op[o] = Idle /\ p \notin Bundled
  /\ loaded[p] # NoInst => Row(p).version < LastVersion
  /\ Begin(o, "install", p, "downloading")
  /\ UNCHANGED <<disk, cached, saved, inst, loaded, holder, observers>>

-----------------------------------------------------------------------------
(* Their continuations.                                                    *)

(* The directory is replaced and read; nothing was loaded before.          *)
Unpacked(o) ==
  LET p == op[o].plugin
  IN  /\ op[o].pc = "downloading" /\ op[o].old = NoInst
      /\ \E v \in 1..LastVersion : disk' = [disk EXCEPT ![p] = v]
      /\ IF loaded[p] # NoInst
           THEN op' = [op EXCEPT ![o] = Idle] /\ UNCHANGED <<inst, loaded>>
           ELSE LoadDirectory(o, p, loaded)
      /\ UNCHANGED <<cached, saved, holder, observers>>

(* Wrong: the directory is replaced before the old code is withdrawn. *)
SwapFirst(o) ==
  LET p == op[o].plugin
  IN  /\ op[o].pc = "downloading" /\ op[o].old # NoInst
      /\ GoesOn(o, "deactivating")
      /\ disk' = [disk EXCEPT ![p] = LastVersion]
      /\ UNCHANGED <<cached, saved, inst, loaded, holder, observers>>

(* An upgrade withdraws the old version before the swap.                   *)
Upgrade(o) ==
  LET p == op[o].plugin
  IN  /\ op[o].pc = "downloading" /\ op[o].old # NoInst
      /\ GoesOn(o, "deactivating")
      /\ Withdraw(p)
      /\ UNCHANGED <<disk, cached, saved, inst, loaded>>

(* A download, a checksum or an unpacking that fails changes nothing; the  *)
(* move into place may fail when what lay there, without a row, is gone.   *)
InstallFails(o) ==
  LET p == op[o].plugin
  IN  /\ op[o].pc = "downloading"
      /\ \/ disk' = disk
         \/ op[o].old = NoInst /\ disk' = [disk EXCEPT ![p] = 0]
      /\ op' = [op EXCEPT ![o] = Idle]
      /\ UNCHANGED <<cached, saved, inst, loaded, holder, observers>>

Sweep(o, p) ==
  /\ op[o].pc = "sweeping" /\ p \in op[o].todo
  /\ Withdraw(p)
  /\ op' = [op EXCEPT ![o] = Doing(op[o].kind, "deactivating", p, NoInst, NoInst, op[o].todo \ {p})]
  /\ UNCHANGED <<disk, cached, saved, inst, loaded>>

Gone(p) == [loaded EXCEPT ![p] = NoInst]

(* deactivate() is through; its throw is only logged.                      *)
Disabled(o) ==
  LET p == op[o].plugin
  IN  /\ op[o].pc = "deactivating" /\ op[o].kind = "disable"
      /\ \E u \in Free :
           /\ inst' = [inst EXCEPT ![u] = NewInstance(p, inst[op[o].old].version, FALSE)]
           /\ loaded' = [loaded EXCEPT ![p] = u]
      /\ op' = [op EXCEPT ![o] = Idle]
      /\ UNCHANGED <<disk, cached, saved, holder, observers>>

Reconfigured(o) ==
  LET p == op[o].plugin
  IN  /\ op[o].pc = "deactivating" /\ op[o].kind = "configure"
      /\ loaded' = Gone(p)
      /\ Activation(o, p, inst[op[o].old].version)
      /\ UNCHANGED <<disk, cached, saved, holder, observers>>

Removed(o) ==
  LET p == op[o].plugin
  IN  /\ op[o].pc = "deactivating" /\ op[o].kind = "remove"
      /\ loaded' = Gone(p)
      /\ \/ disk' = [disk EXCEPT ![p] = 0] /\ saved' = [saved EXCEPT ![p] = "unset"]
         \/ UNCHANGED <<disk, saved>> \* the directory cannot be removed
      /\ op' = [op EXCEPT ![o] = Idle]
      /\ UNCHANGED <<cached, inst, holder, observers>>

(* The catalogue offered a newer version; nothing compares the bundle's.   *)
Upgraded(o) ==
  LET p == op[o].plugin
  IN  /\ op[o].pc = "deactivating" /\ op[o].kind = "install"
      /\ \E v \in 1..LastVersion : disk' = [disk EXCEPT ![p] = v]
      /\ LoadDirectory(o, p, Gone(p))
      /\ UNCHANGED <<cached, saved, holder, observers>>

(* The old directory cannot be removed, or the new one not be moved there. *)
SwapFails(o) ==
  LET p == op[o].plugin
  IN  /\ op[o].pc = "deactivating" /\ op[o].kind = "install"
      /\ disk' \in {disk, [disk EXCEPT ![p] = 0]}
      /\ loaded' = Gone(p)
      /\ op' = [op EXCEPT ![o] = Idle]
      /\ UNCHANGED <<cached, saved, inst, holder, observers>>

Swept(o) ==
  LET rows == Gone(op[o].plugin)
  IN  /\ op[o].pc = "deactivating" /\ op[o].kind \in {"load", "refresh"}
      /\ IF op[o].todo # {}
           THEN loaded' = rows /\ op' = [op EXCEPT ![o] = Sweeping(op[o].kind, op[o].todo)]
           ELSE /\ loaded' = [p \in Plugins |-> NoInst]
                /\ op' = [op EXCEPT ![o] = Scanning(op[o].kind, {p \in Plugins : disk[p] # 0})]
      /\ UNCHANGED <<disk, cached, saved, inst, holder, observers>>

(* A plugin that has a row already is passed over.                         *)
Scan(o, p) ==
  /\ op[o].pc = "scanning" /\ p \in op[o].todo
  /\ UNCHANGED <<disk, cached, saved, holder, observers>>
  /\ IF loaded[p] # NoInst \/ disk[p] = 0
       THEN /\ op' = [op EXCEPT ![o] = Scanning(op[o].kind, op[o].todo \ {p})]
            /\ UNCHANGED <<inst, loaded>>
       ELSE LoadDirectory(o, p, loaded)

-----------------------------------------------------------------------------
(* Activation: import the module, run activate() with the API, and take    *)
(* what it did for the plugin's row.                                       *)

(* A path that was imported once answers with the same module for as long  *)
(* as the process lives, whatever lies there now.                          *)
Imports(o) ==
  LET p == op[o].plugin
      i == op[o].fresh
  IN  /\ op[o].pc = "activating" /\ p \in Code
      /\ disk[p] # 0
      /\ cached' = [cached EXCEPT ![p] = IF @ = 0 THEN disk[p] ELSE @]
      /\ inst' = [inst EXCEPT ![i].api = TRUE]
      /\ GoesOn(o, "imported")
      /\ UNCHANGED <<disk, saved, loaded, holder, observers>>

(* The instance is being activated, or is a row that has not been withdrawn.*)
InUse(i) ==
  \/ \E o \in Operators : op[o].pc = "imported" /\ op[o].fresh = i
  \/ /\ loaded[inst[i].plugin] = i /\ inst[i].status = "loaded"
     /\ \A o \in Operators : ~(op[o].pc = "deactivating" /\ op[o].plugin = inst[i].plugin)

MayRegister(i) ==
  /\ inst[i].api
  /\ InUse(i) \/ i \in Lingering

(* api.registerTool and api.on, called by the code of an instance, which   *)
(* may be any time after. A name that is taken is refused.                 *)
RegistersTool(i) ==
  LET p == inst[i].plugin
  IN  /\ MayRegister(i) /\ holder[p] = NoInst
      /\ holder' = [holder EXCEPT ![p] = i]
      /\ inst' = [inst EXCEPT ![i].tools = TRUE, ![i].late = @ \/ ~InUse(i)]
      /\ UNCHANGED <<disk, cached, saved, loaded, observers, op>>

Subscribes(i) ==
  /\ MayRegister(i)
  /\ observers' = observers \cup {i}
  /\ inst' = [inst EXCEPT ![i].late = @ \/ ~InUse(i)]
  /\ UNCHANGED <<disk, cached, saved, loaded, holder, op>>

(* The unsubscribing that api.on returned.                                 *)
Unsubscribes(i) ==
  /\ i \in observers
  /\ observers' = observers \ {i}
  /\ UNCHANGED <<disk, cached, saved, inst, loaded, holder, op>>

(* The code of an instance that was withdrawn does nothing more.           *)
FallsSilent(i) ==
  /\ i \in Lingering /\ inst[i].api /\ ~InUse(i)
  /\ inst' = [inst EXCEPT ![i].api = FALSE]
  /\ UNCHANGED <<disk, cached, saved, loaded, holder, observers, op>>

Activated(o) ==
  /\ op[o].pc = IF op[o].plugin \in Code THEN "imported" ELSE "activating"
  /\ loaded' = [loaded EXCEPT ![op[o].plugin] = op[o].fresh]
  /\ Over(o)
  /\ UNCHANGED <<disk, cached, saved, inst, holder, observers>>

(* Wrong: the observer stays. *)
RollbackTools(p, i) ==
  /\ holder' = IF inst[i].tools THEN [holder EXCEPT ![p] = NoInst] ELSE holder
  /\ UNCHANGED observers

RollbackActivation(p, i) ==
  /\ holder' = IF inst[i].tools THEN [holder EXCEPT ![p] = NoInst] ELSE holder
  /\ observers' = observers \ {i}

(* The import fails, or activate() throws before or after it registered,   *)
(* for instance because the name is taken.                                 *)
ActivationFails(o) ==
  LET p == op[o].plugin
      i == op[o].fresh
  IN  /\ op[o].pc \in {"activating", "imported"} /\ p \in Code
      /\ RollbackActivation(p, i)
      /\ inst' = [inst EXCEPT ![i].tools = FALSE, ![i].status = "error"]
      /\ loaded' = [loaded EXCEPT ![p] = i]
      /\ Over(o)
      /\ UNCHANGED <<disk, cached, saved>>

Step(o) ==
  \/ Unpacked(o) \/ Upgrade(o) \/ InstallFails(o)
  \/ \E p \in Plugins : Sweep(o, p) \/ Scan(o, p)
  \/ Disabled(o) \/ Reconfigured(o) \/ Removed(o) \/ Upgraded(o) \/ SwapFails(o) \/ Swept(o)
  \/ Imports(o) \/ Activated(o) \/ ActivationFails(o)

PluginCode(i) == RegistersTool(i) \/ Subscribes(i) \/ Unsubscribes(i) \/ FallsSilent(i)

Load(o) == ~started /\ started' = TRUE /\ Rescan(o, "load")

Request(o) ==
  /\ started /\ \A q \in Operators : op[q].kind # "load"
  /\ \/ Rescan(o, "refresh")
     \/ \E p \in Plugins : \/ Enable(o, p) \/ Disable(o, p) \/ Configure(o, p)
                           \/ Remove(o, p) \/ Install(o, p)

Next ==
  \/ \E o \in Operators : Load(o)
  \/ UNCHANGED started /\ \E o \in Operators : Request(o) \/ Step(o)
  \/ UNCHANGED started /\ \E i \in Insts : PluginCode(i)
Spec == Init /\ [][Next]_vars

-----------------------------------------------------------------------------
Quiet == \A o \in Operators : op[o] = Idle

(* Once every request is through, a tool that can be called and an         *)
(* observer that hears events belong to the instance whose row says        *)
(* "loaded": an activation that failed, a reload, an upgrade and a removal *)
(* leave no trace. Only code that registers something when its instance    *)
(* has been withdrawn leaves one.                                          *)
NoTrace ==
  Quiet => /\ \A p \in Plugins : holder[p] # NoInst =>
                \/ inst[holder[p]].late
                \/ loaded[p] = holder[p] /\ Row(p).status = "loaded" /\ Row(p).enabled
           /\ \A i \in observers :
                \/ inst[i].late
                \/ \E p \in Plugins : loaded[p] = i /\ Row(p).status = "loaded"

(* ... and every row tells the truth: the version on disk, the decision    *)
(* that will be read at the next start, whose the tool is that it counts   *)
(* as its own, and that its module was imported. Not that the version is   *)
(* that of this module: see Imports.                                       *)
RowsTellTheTruth ==
  Quiet => \A p \in Plugins : loaded[p] # NoInst =>
             /\ Row(p).plugin = p /\ Row(p).version = disk[p]
             /\ Row(p).enabled = Wanted(p)
             /\ Row(p).status = "loaded" /\ Row(p).tools => holder[p] = loaded[p]
             /\ p \in Code /\ Row(p).status = "loaded" => cached[p] # 0

(* The files of a plugin change when no tool and no observer of its code   *)
(* is registered, but for what that code registered after its withdrawal.  *)
SwapsFindNothingRegistered ==
  [][\A p \in Plugins : disk'[p] # disk[p] =>
       \A i \in observers' \cup {holder'[p]} :
         i # NoInst /\ inst[i].plugin = p => inst[i].late]_vars
=============================================================================
