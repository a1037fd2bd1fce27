-------------------------- MODULE PluginHostProofs --------------------------
(* What the host keeps when requests come one at a time, for any set of    *)
(* plugins, any number of versions and code that may register whenever it  *)
(* likes: no trace of what was withdrawn or failed but what such code put  *)
(* there afterwards, rows that tell the truth, and files that change when  *)
(* nothing of them is registered. Two requests at once may lose rows       *)
(* (README); one at a time may not.                                        *)
EXTENDS PluginHost, TLAPS

OneRequest == \A o, q \in Operators : o = q

Ref == Insts \cup {NoInst}
InstanceType == [plugin : Plugins, version : Nat, enabled : BOOLEAN, tools : BOOLEAN,
                 status : {"loaded", "disabled", "error"}, api : BOOLEAN, late : BOOLEAN]
Rescans == {"load", "refresh"}
Kinds == Rescans \cup {"idle", "enable", "disable", "configure", "remove", "install"}
Points == {"idle", "sweeping", "scanning", "deactivating", "downloading", "activating",
           "imported"}
Activating == {"activating", "imported"}
RequestType == [kind : Kinds, pc : Points, plugin : Plugins, fresh : Ref, old : Ref,
             todo : SUBSET Plugins]

TypeOK ==
  /\ disk \in [Plugins -> Nat]
  /\ cached \in [Plugins -> Nat]
  /\ saved \in [Plugins -> {"unset", "on", "off"}]
  /\ inst \in [Insts -> InstanceType]
  /\ loaded \in [Plugins -> Ref]
  /\ holder \in [Plugins -> Ref]
  /\ observers \subseteq Insts
  /\ op \in [Operators -> RequestType]

(* The plugin a request has half changed.                                  *)
Touched(p) == \E o \in Operators :
  op[o].plugin = p /\ op[o].pc \in Activating \cup {"deactivating"}

(* An instance whose code is activated and that is not the plugin's row yet.*)
Registering(p, i) == \E o \in Operators :
  op[o].plugin = p /\ op[o].pc = "imported" /\ op[o].fresh = i

RowHolds(p) == loaded[p] # NoInst =>
  /\ Row(p).plugin = p /\ Row(p).version = disk[p]
  /\ Row(p).status = "loaded" => Row(p).enabled
  /\ Row(p).status = "loaded" /\ p \in Code => cached[p] # 0
  /\ ~Touched(p) => (Row(p).enabled <=> Wanted(p))
  /\ ~Touched(p) /\ Row(p).status = "loaded" /\ Row(p).tools => holder[p] = loaded[p]

HolderHolds(p) == holder[p] # NoInst =>
  /\ inst[holder[p]].plugin = p /\ inst[holder[p]].tools
  /\ ~inst[holder[p]].late =>
       /\ inst[holder[p]].status = "loaded" /\ inst[holder[p]].enabled
       /\ holder[p] = loaded[p] \/ Registering(p, holder[p])

ObserverHolds(i) == ~inst[i].late =>
  /\ inst[i].status = "loaded"
  /\ loaded[inst[i].plugin] = i \/ Registering(inst[i].plugin, i)

(* Nothing of p can be called, and nothing of it hears, but what is late.  *)
Silent(p) ==
  /\ holder[p] # NoInst => inst[holder[p]].late
  /\ \A i \in observers : inst[i].plugin = p => inst[i].late

(* What a request may rely on between two of its steps.                    *)
ActivationHolds(o) == op[o].pc \in Activating =>
  /\ op[o].fresh # NoInst
  /\ inst[op[o].fresh].plugin = op[o].plugin
  /\ inst[op[o].fresh].version = disk[op[o].plugin]
  /\ inst[op[o].fresh].enabled /\ inst[op[o].fresh].status = "loaded"
  /\ ~inst[op[o].fresh].late
  /\ inst[op[o].fresh].tools => holder[op[o].plugin] = op[o].fresh
  /\ Wanted(op[o].plugin)
  /\ loaded[op[o].plugin] # NoInst => Row(op[o].plugin).status # "loaded"
  /\ op[o].pc = "imported" => op[o].plugin \in Code /\ cached[op[o].plugin] # 0
  /\ op[o].pc = "activating" => /\ ~inst[op[o].fresh].api /\ ~inst[op[o].fresh].tools
                                /\ op[o].fresh \notin observers

WithdrawalHolds(o) == op[o].pc = "deactivating" =>
  /\ Silent(op[o].plugin)
  /\ op[o].kind \in Rescans =>
       \A p \in Plugins : loaded[p] # NoInst => p \in op[o].todo \cup {op[o].plugin}
  /\ op[o].kind \notin Rescans => op[o].old = loaded[op[o].plugin] /\ op[o].old # NoInst
  /\ op[o].kind = "disable" => ~Wanted(op[o].plugin)
  /\ op[o].kind = "configure" => Wanted(op[o].plugin)

SweepHolds(o) == op[o].pc = "sweeping" =>
  op[o].kind \in Rescans /\ \A p \in Plugins : loaded[p] # NoInst => p \in op[o].todo

DownloadHolds(o) == op[o].pc = "downloading" =>
  op[o].kind = "install" /\ op[o].old = loaded[op[o].plugin]

Rows == \A p \in Plugins : RowHolds(p)
Holders == \A p \in Plugins : HolderHolds(p)
Observing == \A i \in observers : ObserverHolds(i)
Requests == \A o \in Operators :
  ActivationHolds(o) /\ WithdrawalHolds(o) /\ SweepHolds(o) /\ DownloadHolds(o)

IInv == TypeOK /\ Rows /\ Holders /\ Observing /\ Requests

-----------------------------------------------------------------------------
(* With one request at a time, what it is doing is all that is going on.   *)
LEMMA Alone ==
  ASSUME OneRequest, NEW o \in Operators, NEW p
  PROVE  /\ Touched(p) <=> op[o].plugin = p /\ op[o].pc \in Activating \cup {"deactivating"}
         /\ Touched(p)' <=> op'[o].plugin = p /\ op'[o].pc \in Activating \cup {"deactivating"}
         /\ \A i : Registering(p, i) <=>
              op[o].plugin = p /\ op[o].pc = "imported" /\ op[o].fresh = i
         /\ \A i : Registering(p, i)' <=>
              op'[o].plugin = p /\ op'[o].pc = "imported" /\ op'[o].fresh = i
  BY DEF OneRequest, Touched, Registering

LEMMA IdleType == Idle \in RequestType /\ Idle.pc = "idle" /\ Idle.plugin \in Plugins
  BY PluginsAssumption DEF Idle, Doing, RequestType, Kinds, Points, Ref

LEMMA DoingType ==
  ASSUME NEW kind \in Kinds, NEW pc \in Points, NEW p \in Plugins, NEW fresh \in Ref,
         NEW old \in Ref, NEW todo \in SUBSET Plugins
  PROVE  Doing(kind, pc, p, fresh, old, todo) \in RequestType
  BY DEF Doing, RequestType

(* The points between two plugins of a rescan.                             *)
LEMMA ScanningType ==
  ASSUME NEW kind \in Kinds, NEW left \in SUBSET Plugins
  PROVE  /\ Scanning(kind, left) \in RequestType
         /\ Scanning(kind, left).pc \in {"idle", "scanning"}
<1>1. Doing(kind, "scanning", Idle.plugin, NoInst, NoInst, left) \in RequestType
  BY DoingType, IdleType DEF Points, Ref
<1>2. Doing(kind, "scanning", Idle.plugin, NoInst, NoInst, left).pc = "scanning"
  BY DEF Doing
<1> QED
  BY <1>1, <1>2, IdleType DEF Scanning

LEMMA SweepingType ==
  ASSUME NEW kind \in Rescans, NEW left \in SUBSET Plugins
  PROVE  /\ Sweeping(kind, left) \in RequestType
         /\ Sweeping(kind, left).pc = "sweeping" /\ Sweeping(kind, left).kind = kind
         /\ Sweeping(kind, left).todo = left
<1>1. Doing(kind, "sweeping", Idle.plugin, NoInst, NoInst, left) \in RequestType
  BY DoingType, IdleType DEF Points, Ref, Kinds
<1> QED
  BY <1>1 DEF Sweeping, Doing

(* A free instance is nobody's.                                            *)
LEMMA FreeIsNobodys ==
  ASSUME NEW u \in Free
  PROVE  /\ u \in Insts /\ u # NoInst
         /\ \A p \in Plugins : u # loaded[p] /\ u # holder[p]
         /\ u \notin observers
         /\ \A o \in Operators : u # op[o].fresh /\ u # op[o].old
  BY PluginsAssumption DEF Free

LEMMA InitHolds == Init => IInv
<1> SUFFICES ASSUME Init PROVE IInv
  OBVIOUS
<1>1. /\ \A o \in Operators : op[o] = Idle
      /\ \A p \in Plugins : loaded[p] = NoInst /\ holder[p] = NoInst
      /\ observers = {}
  BY DEF Init
<1>2. TypeOK
  <2>1. (CHOOSE p \in Plugins : TRUE) \in Plugins
    BY PluginsAssumption
  <2>2. NewInstance(CHOOSE p \in Plugins : TRUE, 1, FALSE) \in InstanceType
    BY <2>1 DEF NewInstance, InstanceType
  <2>3. disk \in [Plugins -> Nat]
    <3>1. disk \in [Plugins -> 0..LastVersion]
      BY DEF Init
    <3>2. 0..LastVersion \subseteq Nat
      BY PluginsAssumption
    <3> QED
      BY <3>1, <3>2
  <2> QED
    BY <2>2, <2>3, IdleType DEF Init, TypeOK, Ref
<1>3. Requests
  BY <1>1, IdleType DEF Requests, ActivationHolds, WithdrawalHolds, SweepHolds,
     DownloadHolds, Activating
<1> QED
  BY <1>1, <1>2, <1>3 DEF IInv, Rows, Holders, Observing, RowHolds, HolderHolds

-----------------------------------------------------------------------------
(* Steps that only change what the request is doing, and leave no plugin   *)
(* half changed; the files of one without a row may go.                    *)
LEMMA Passing ==
  ASSUME OneRequest, IInv, NEW o \in Operators,
         UNCHANGED <<cached, saved, inst, loaded, holder, observers>>,
         disk' \in [Plugins -> Nat],
         \A p \in Plugins : loaded[p] # NoInst => disk'[p] = disk[p],
         op[o].pc \notin Activating \cup {"deactivating"},
         op'[o].pc \notin Activating \cup {"deactivating"},
         op' \in [Operators -> RequestType], SweepHolds(o)', DownloadHolds(o)'
  PROVE  IInv'
<1> USE DEF IInv
<1>1. \A p \in Plugins : ~Touched(p) /\ ~Touched(p)' /\ \A i : ~Registering(p, i)
  BY Alone DEF Activating
<1>2. Rows'
  BY <1>1 DEF Rows, RowHolds, Row, Wanted
<1>3. Holders'
  BY <1>1 DEF Holders, HolderHolds
<1>4. Observing'
  BY <1>1 DEF Observing, ObserverHolds, TypeOK, InstanceType
<1>5. Requests'
  BY DEF Requests, ActivationHolds, WithdrawalHolds, OneRequest
<1> QED
  BY <1>2, <1>3, <1>4, <1>5 DEF TypeOK

(* The old code is withdrawn: nothing of it can be called or hears.        *)
LEMMA Withdrawn ==
  ASSUME OneRequest, IInv, NEW o \in Operators,
         op[o].pc \notin Activating \cup {"deactivating"},
         NEW p \in Plugins, Withdraw(p)
  PROVE  /\ holder' \in [Plugins -> Ref] /\ observers' \subseteq observers
         /\ holder'[p] # NoInst => holder'[p] = holder[p] /\ inst[holder[p]].late
         /\ \A i \in observers' : inst[i].plugin = p => inst[i].late
         /\ \A q \in Plugins \ {p} : holder'[q] = holder[q]
<1>1. \A i : ~Registering(p, i)
  BY Alone DEF Activating
<1>2. holder[p] # NoInst => inst[holder[p]].late \/ (loaded[p] = holder[p] /\ Row(p).tools)
  BY <1>1 DEF IInv, Holders, HolderHolds, Row
<1>3. ASSUME NEW i \in observers', inst[i].plugin = p PROVE inst[i].late
  BY <1>1, <1>3 DEF Withdraw, IInv, Observing, ObserverHolds, TypeOK
<1>4. /\ holder' \in [Plugins -> Ref] /\ observers' \subseteq observers
      /\ holder'[p] # NoInst => holder'[p] = holder[p] /\ ~(loaded[p] # NoInst /\ Row(p).tools)
      /\ \A q \in Plugins \ {p} : holder'[q] = holder[q]
  BY DEF Withdraw, IInv, TypeOK, Ref
<1> QED
  BY <1>2, <1>3, <1>4

LEMMA Withdrawing ==
  ASSUME OneRequest, IInv, NEW o \in Operators,
         op[o].pc \notin Activating \cup {"deactivating"},
         NEW p \in Plugins, Withdraw(p),
         disk' = disk, cached' = cached, inst' = inst, loaded' = loaded,
         saved' \in [Plugins -> {"unset", "on", "off"}],
         \A q \in Plugins \ {p} : saved'[q] = saved[q],
         op' \in [Operators -> RequestType],
         op'[o].pc = "deactivating", op'[o].plugin = p,
         Silent(p)' => WithdrawalHolds(o)'
  PROVE  IInv'
<1> USE DEF IInv
<1>1. /\ holder' \in [Plugins -> Ref] /\ observers' \subseteq observers
      /\ holder'[p] # NoInst => holder'[p] = holder[p] /\ inst[holder[p]].late
      /\ \A i \in observers' : inst[i].plugin = p => inst[i].late
      /\ \A q \in Plugins \ {p} : holder'[q] = holder[q]
  BY Withdrawn
<1>2. \A q \in Plugins : /\ ~Touched(q)
                         /\ Touched(q)' <=> q = p
                         /\ \A i : ~Registering(q, i)
  BY Alone DEF Activating
<1>3. Rows'
  BY <1>1, <1>2 DEF Rows, RowHolds, Row, Wanted
<1>4. Holders'
  BY <1>1, <1>2 DEF Holders, HolderHolds
<1>5. Observing'
  BY <1>1, <1>2 DEF Observing, ObserverHolds, TypeOK, InstanceType
<1>6. WithdrawalHolds(o)'
  BY <1>1 DEF Silent
<1>7. Requests'
  BY <1>6 DEF Requests, ActivationHolds, SweepHolds, DownloadHolds, OneRequest, Activating
<1> QED
  BY <1>1, <1>3, <1>4, <1>5, <1>7 DEF TypeOK

-----------------------------------------------------------------------------
(* The requests.                                                           *)
LEMMA RescanHolds ==
  ASSUME OneRequest, IInv, NEW o \in Operators, NEW kind \in Rescans, Rescan(o, kind)
  PROVE  IInv'
<1>1. PICK rows, dirs :
        /\ rows = {p \in Plugins : loaded[p] # NoInst} /\ dirs \in SUBSET Plugins
        /\ op' = [op EXCEPT ![o] = IF rows = {} THEN Scanning(kind, dirs)
                                   ELSE Sweeping(kind, rows)]
  BY DEF Rescan
<1>2. /\ Scanning(kind, dirs) \in RequestType
      /\ Scanning(kind, dirs).pc \in {"idle", "scanning"}
  BY <1>1, ScanningType DEF Kinds
<1>3. /\ Sweeping(kind, rows) \in RequestType
      /\ Sweeping(kind, rows).pc = "sweeping" /\ Sweeping(kind, rows).kind = kind
      /\ Sweeping(kind, rows).todo = rows
  BY <1>1, SweepingType DEF Rescans
<1>4. /\ op' \in [Operators -> RequestType]
      /\ op'[o].pc \in {"idle", "scanning", "sweeping"}
      /\ op'[o].pc = "sweeping" => op'[o].kind = kind /\ op'[o].todo = rows
  BY <1>1, <1>2, <1>3 DEF IInv, TypeOK
<1>5. SweepHolds(o)' /\ DownloadHolds(o)'
  BY <1>1, <1>4 DEF SweepHolds, DownloadHolds, Rescan
<1>6. op[o].pc = "idle" /\ disk' = disk /\ disk' \in [Plugins -> Nat]
  BY IdleType DEF Rescan, IInv, TypeOK
<1> QED
  BY <1>4, <1>5, <1>6, Passing DEF Rescan, Activating

LEMMA BeginsWithdrawal ==
  ASSUME OneRequest, IInv, NEW o \in Operators, NEW p \in Plugins,
         op[o] = Idle, loaded[p] # NoInst, Withdraw(p),
         NEW kind \in {"disable", "configure", "remove"}, Begin(o, kind, p, "deactivating"),
         disk' = disk, cached' = cached, inst' = inst, loaded' = loaded,
         saved' \in [Plugins -> {"unset", "on", "off"}],
         \A q \in Plugins \ {p} : saved'[q] = saved[q],
         kind = "disable" => saved'[p] = "off",
         kind = "configure" => saved'[p] # "off"
  PROVE  IInv'
<1>1. op[o].pc = "idle"
  BY IdleType
<1>2. op' = [op EXCEPT ![o] = Doing(kind, "deactivating", p, NoInst, loaded[p], {})]
  BY DEF Begin
<1>3. Doing(kind, "deactivating", p, NoInst, loaded[p], {}) \in RequestType
  BY DoingType DEF Kinds, Points, Ref, IInv, TypeOK
<1>4. op' \in [Operators -> RequestType]
      /\ op'[o] = Doing(kind, "deactivating", p, NoInst, loaded[p], {})
  BY <1>2, <1>3 DEF IInv, TypeOK
<1>5. /\ op'[o].pc = "deactivating" /\ op'[o].plugin = p /\ op'[o].kind = kind
      /\ op'[o].old = loaded[p]
  BY <1>4 DEF Doing
<1>6. Silent(p)' => WithdrawalHolds(o)'
  BY <1>5 DEF WithdrawalHolds, Wanted, Rescans
<1> QED
  BY <1>1, <1>4, <1>5, <1>6, Withdrawing DEF Activating

LEMMA DisableHolds ==
  ASSUME OneRequest, IInv, NEW o \in Operators, NEW p \in Plugins, Disable(o, p)
  PROVE  IInv'
<1>1. /\ saved' \in [Plugins -> {"unset", "on", "off"}] /\ saved'[p] = "off"
      /\ \A q \in Plugins \ {p} : saved'[q] = saved[q]
  BY DEF Disable, IInv, TypeOK
<1> QED
  BY <1>1, BeginsWithdrawal DEF Disable

LEMMA ConfigureHolds ==
  ASSUME OneRequest, IInv, NEW o \in Operators, NEW p \in Plugins, Configure(o, p)
  PROVE  IInv'
<1>1. ~Touched(p)
  BY Alone, IdleType DEF Configure, Activating
<1>2. saved[p] # "off"
  BY <1>1 DEF Configure, IInv, Rows, RowHolds, Wanted
<1>3. saved' \in [Plugins -> {"unset", "on", "off"}] /\ saved' = saved
  BY DEF Configure, IInv, TypeOK
<1> QED
  BY <1>2, <1>3, BeginsWithdrawal DEF Configure

LEMMA RemoveHolds ==
  ASSUME OneRequest, IInv, NEW o \in Operators, NEW p \in Plugins, Remove(o, p)
  PROVE  IInv'
<1>1. saved' \in [Plugins -> {"unset", "on", "off"}] /\ saved' = saved
  BY DEF Remove, IInv, TypeOK
<1> QED
  BY <1>1, BeginsWithdrawal DEF Remove

LEMMA InstallHolds ==
  ASSUME OneRequest, IInv, NEW o \in Operators, NEW p \in Plugins, Install(o, p)
  PROVE  IInv'
<1>1. op' = [op EXCEPT ![o] = Doing("install", "downloading", p, NoInst, loaded[p], {})]
  BY DEF Install, Begin
<1>2. Doing("install", "downloading", p, NoInst, loaded[p], {}) \in RequestType
  BY DoingType DEF Kinds, Points, Ref, IInv, TypeOK
<1>3. op' \in [Operators -> RequestType]
      /\ op'[o] = Doing("install", "downloading", p, NoInst, loaded[p], {})
  BY <1>1, <1>2 DEF IInv, TypeOK
<1>4. /\ op'[o].pc = "downloading" /\ op'[o].plugin = p /\ op'[o].kind = "install"
      /\ op'[o].old = loaded[p]
  BY <1>3 DEF Doing
<1>5. SweepHolds(o)' /\ DownloadHolds(o)'
  BY <1>4 DEF SweepHolds, DownloadHolds, Install
<1>6. op[o].pc = "idle" /\ disk' = disk /\ disk' \in [Plugins -> Nat]
  BY IdleType DEF Install, IInv, TypeOK
<1> QED
  BY <1>3, <1>4, <1>5, <1>6, Passing DEF Install, Activating

LEMMA UpgradeHolds ==
  ASSUME OneRequest, IInv, NEW o \in Operators, Upgrade(o)
  PROVE  IInv'
<1>1. PICK p \in Plugins : p = op[o].plugin
  BY DEF IInv, TypeOK, RequestType
<1>2. op' = [op EXCEPT ![o] = Doing(op[o].kind, "deactivating", p, op[o].fresh, op[o].old,
                                    op[o].todo)]
  BY <1>1 DEF Upgrade, GoesOn
<1>3. Doing(op[o].kind, "deactivating", p, op[o].fresh, op[o].old, op[o].todo) \in RequestType
  BY DoingType DEF IInv, TypeOK, RequestType, Points
<1>4. op' \in [Operators -> RequestType]
      /\ op'[o] = Doing(op[o].kind, "deactivating", p, op[o].fresh, op[o].old, op[o].todo)
  BY <1>2, <1>3 DEF IInv, TypeOK
<1>5. /\ op'[o].pc = "deactivating" /\ op'[o].plugin = p /\ op'[o].kind = "install"
      /\ op'[o].old = loaded[p] /\ loaded[p] # NoInst
  BY <1>1, <1>4 DEF Doing, Upgrade, IInv, Requests, DownloadHolds
<1>6. Silent(p)' => WithdrawalHolds(o)'
  BY <1>5 DEF WithdrawalHolds, Rescans, Upgrade
<1>7. saved' \in [Plugins -> {"unset", "on", "off"}]
  BY DEF Upgrade, IInv, TypeOK
<1> QED
  BY <1>1, <1>4, <1>5, <1>6, <1>7, Withdrawing DEF Activating, Upgrade

LEMMA SweepHoldsStill ==
  ASSUME OneRequest, IInv, NEW o \in Operators, NEW p \in Plugins, Sweep(o, p)
  PROVE  IInv'
<1> DEFINE x == Doing(op[o].kind, "deactivating", p, NoInst, NoInst, op[o].todo \ {p})
<1>1. op' = [op EXCEPT ![o] = x]
  BY DEF Sweep
<1>2. x \in RequestType
  BY DoingType DEF IInv, TypeOK, RequestType, Points, Ref
<1>3. op' \in [Operators -> RequestType] /\ op'[o] = x
  BY <1>1, <1>2 DEF IInv, TypeOK
<1>4. /\ op'[o].pc = "deactivating" /\ op'[o].plugin = p /\ op'[o].kind \in Rescans
      /\ op'[o].todo = op[o].todo \ {p}
      /\ \A q \in Plugins : loaded[q] # NoInst => q \in op[o].todo
  BY <1>3 DEF Doing, Sweep, IInv, Requests, SweepHolds
<1>5. Silent(p)' => WithdrawalHolds(o)'
  BY <1>4 DEF WithdrawalHolds, Rescans, Sweep
<1>6. saved' \in [Plugins -> {"unset", "on", "off"}]
  BY DEF Sweep, IInv, TypeOK
<1> QED
  BY <1>3, <1>4, <1>5, <1>6, Withdrawing DEF Activating, Sweep

-----------------------------------------------------------------------------
(* What a step may change of one plugin, the others' files and decisions   *)
(* staying as they are.                                                    *)
OnlyOf(p) ==
  /\ disk' \in [Plugins -> Nat] /\ saved' \in [Plugins -> {"unset", "on", "off"}]
  /\ \A q \in Plugins \ {p} : disk'[q] = disk[q] /\ saved'[q] = saved[q]
  /\ cached' = cached /\ holder' = holder /\ observers' = observers

(* Nothing of p can be called or hears but what is late: it was withdrawn  *)
(* or never loaded, or it is off or failed.                                *)
Withdrawable(o, p) ==
  /\ op[o].pc \notin Activating
  /\ op[o].pc = "deactivating" => op[o].plugin = p
  /\ \/ loaded[p] = NoInst
     \/ Row(p).status # "loaded"
     \/ op[o].pc = "deactivating"

LEMMA Bare ==
  ASSUME OneRequest, IInv, NEW o \in Operators, NEW p \in Plugins, Withdrawable(o, p)
  PROVE  /\ Silent(p)
         /\ \A q \in Plugins \ {p} : ~Touched(q)
         /\ \A q \in Plugins : \A i : ~Registering(q, i)
<1> USE DEF IInv
<1>1. \A q \in Plugins : (\A i : ~Registering(q, i)) /\ (q # p => ~Touched(q))
  BY Alone DEF Withdrawable, Activating
<1>2. CASE op[o].pc = "deactivating"
  BY <1>1, <1>2 DEF Requests, WithdrawalHolds, Withdrawable
<1>3. CASE op[o].pc # "deactivating"
  <2>1. loaded[p] = NoInst \/ Row(p).status # "loaded"
    BY <1>3 DEF Withdrawable
  <2>2. holder[p] # NoInst => inst[holder[p]].late
    BY <1>1, <2>1 DEF Holders, HolderHolds, Row
  <2>3. ASSUME NEW i \in observers, inst[i].plugin = p PROVE inst[i].late
    <3>1. i \in Insts /\ i # NoInst
      BY PluginsAssumption DEF TypeOK
    <3> QED
      BY <1>1, <2>1, <2>3, <3>1 DEF Observing, ObserverHolds, Row
  <2> QED
    BY <1>1, <2>2, <2>3 DEF Silent
<1> QED
  BY <1>2, <1>3

(* A fresh instance changes no instance somebody refers to.                *)
Fresh(u, p, version, on) ==
  /\ u \in Insts /\ u # NoInst /\ u \notin observers
  /\ \A q \in Plugins : u # loaded[q] /\ u # holder[q]
  /\ inst' \in [Insts -> InstanceType]
  /\ inst'[u].plugin = p /\ inst'[u].version = version /\ inst'[u].enabled = on
  /\ inst'[u].tools = FALSE /\ inst'[u].status = IF on THEN "loaded" ELSE "disabled"
  /\ ~inst'[u].api /\ ~inst'[u].late
  /\ \A q \in Plugins : loaded[q] # NoInst => inst'[loaded[q]] = inst[loaded[q]]
  /\ \A q \in Plugins : holder[q] # NoInst => inst'[holder[q]] = inst[holder[q]]
  /\ \A i \in observers : inst'[i] = inst[i]

LEMMA FreshInstance ==
  ASSUME IInv, NEW u \in Free, NEW p \in Plugins, NEW version \in Nat, NEW on \in BOOLEAN,
         inst' = [inst EXCEPT ![u] = NewInstance(p, version, on)]
  PROVE  Fresh(u, p, version, on)
<1> DEFINE x == NewInstance(p, version, on)
<1>1. /\ x \in InstanceType
      /\ x.plugin = p /\ x.version = version /\ x.enabled = on /\ x.tools = FALSE
      /\ x.status = (IF on THEN "loaded" ELSE "disabled") /\ ~x.api /\ ~x.late
  BY DEF NewInstance, InstanceType
<1>2. inst' = [inst EXCEPT ![u] = x]
  OBVIOUS
<1> HIDE DEF x
<1>3. /\ inst' \in [Insts -> InstanceType] /\ inst'[u] = x
      /\ \A i \in Insts \ {u} : inst'[i] = inst[i]
  BY <1>1, <1>2, FreeIsNobodys DEF IInv, TypeOK
<1>4. /\ \A q \in Plugins : loaded[q] # NoInst => inst'[loaded[q]] = inst[loaded[q]]
      /\ \A q \in Plugins : holder[q] # NoInst => inst'[holder[q]] = inst[holder[q]]
      /\ \A i \in observers : inst'[i] = inst[i]
  BY <1>3, FreeIsNobodys DEF IInv, TypeOK, Ref
<1> QED
  BY <1>1, <1>3, <1>4, FreeIsNobodys DEF Fresh

(* A fresh instance of p goes up for activation.                           *)
LEMMA PutsUp ==
  ASSUME OneRequest, IInv, NEW o \in Operators, NEW p \in Plugins, Withdrawable(o, p),
         OnlyOf(p), saved'[p] # "off",
         NEW u, Fresh(u, p, disk'[p], TRUE),
         loaded' \in [Plugins -> Ref],
         \A q \in Plugins \ {p} : loaded'[q] = loaded[q],
         loaded'[p] # NoInst => /\ loaded'[p] = loaded[p] /\ disk'[p] = disk[p]
                                /\ Row(p).status # "loaded",
         op' \in [Operators -> RequestType],
         op'[o].pc = "activating", op'[o].plugin = p, op'[o].fresh = u
  PROVE  IInv'
<1> USE DEF IInv, Fresh
<1>1. /\ Silent(p)
      /\ \A q \in Plugins \ {p} : ~Touched(q) /\ ~Touched(q)'
      /\ \A q \in Plugins : \A i : ~Registering(q, i)
      /\ Touched(p)'
  BY Bare, Alone DEF Activating
<1>2. TypeOK'
  BY DEF TypeOK, OnlyOf
<1>3. Rows'
  BY <1>1 DEF Rows, RowHolds, Row, Wanted, OnlyOf
<1>4. Holders'
  BY <1>1 DEF Holders, HolderHolds, OnlyOf, Silent
<1>5. Observing'
  <2>1. ASSUME NEW i \in observers PROVE ObserverHolds(i)'
    <3>1. inst'[i] = inst[i] /\ inst[i].plugin \in Plugins /\ ObserverHolds(i)
      BY DEF TypeOK, InstanceType, Observing
    <3>2. inst[i].plugin = p => inst[i].late
      BY <1>1 DEF Silent
    <3> QED
      BY <1>1, <3>1, <3>2 DEF ObserverHolds
  <2> QED
    BY <2>1 DEF Observing, OnlyOf
<1>6. Requests'
  <2>1. ActivationHolds(o)'
    BY DEF ActivationHolds, Wanted, Row, OnlyOf
  <2> QED
    BY <2>1 DEF Requests, WithdrawalHolds, SweepHolds, DownloadHolds, OneRequest
<1> QED
  BY <1>2, <1>3, <1>4, <1>5, <1>6

(* A row of a plugin that is off takes the place of p's.                   *)
LEMMA PutsAway ==
  ASSUME OneRequest, IInv, NEW o \in Operators, NEW p \in Plugins, Withdrawable(o, p),
         OnlyOf(p), saved'[p] = "off",
         NEW u, Fresh(u, p, disk'[p], FALSE),
         loaded' \in [Plugins -> Ref], loaded'[p] = u,
         \A q \in Plugins \ {p} : loaded'[q] = loaded[q],
         op' \in [Operators -> RequestType],
         op'[o].pc \in {"idle", "scanning"}
  PROVE  IInv'
<1> USE DEF IInv, Fresh
<1>1. /\ Silent(p)
      /\ \A q \in Plugins \ {p} : ~Touched(q)
      /\ \A q \in Plugins : \A i : ~Registering(q, i)
  BY Bare
<1>2. TypeOK'
  BY DEF TypeOK, OnlyOf
<1>3. Rows'
  BY <1>1 DEF Rows, RowHolds, Row, Wanted, OnlyOf
<1>4. Holders'
  BY <1>1 DEF Holders, HolderHolds, OnlyOf, Silent
<1>5. Observing'
  <2>1. ASSUME NEW i \in observers PROVE ObserverHolds(i)'
    <3>1. inst'[i] = inst[i] /\ inst[i].plugin \in Plugins /\ ObserverHolds(i)
      BY DEF TypeOK, InstanceType, Observing
    <3>2. inst[i].plugin = p => inst[i].late
      BY <1>1 DEF Silent
    <3> QED
      BY <1>1, <3>1, <3>2 DEF ObserverHolds
  <2> QED
    BY <2>1 DEF Observing, OnlyOf
<1>6. Requests'
  BY DEF Requests, ActivationHolds, WithdrawalHolds, SweepHolds, DownloadHolds,
     OneRequest, Activating
<1> QED
  BY <1>2, <1>3, <1>4, <1>5, <1>6

(* The row of p is dropped.                                                *)
LEMMA Drops ==
  ASSUME OneRequest, IInv, NEW o \in Operators, NEW p \in Plugins, Withdrawable(o, p),
         OnlyOf(p), inst' = inst,
         loaded' \in [Plugins -> Ref], loaded'[p] = NoInst,
         \A q \in Plugins \ {p} : loaded'[q] = loaded[q],
         op' \in [Operators -> RequestType],
         op'[o].pc \in {"idle", "scanning", "sweeping"}, SweepHolds(o)'
  PROVE  IInv'
<1> USE DEF IInv
<1>1. /\ Silent(p)
      /\ \A q \in Plugins \ {p} : ~Touched(q)
      /\ \A q \in Plugins : \A i : ~Registering(q, i)
  BY Bare
<1>2. Rows'
  BY <1>1 DEF Rows, RowHolds, Row, Wanted, OnlyOf
<1>3. Holders'
  BY <1>1 DEF Holders, HolderHolds, OnlyOf, Silent
<1>4. Observing'
  <2>1. ASSUME NEW i \in observers PROVE ObserverHolds(i)'
    <3>1. inst[i].plugin \in Plugins /\ ObserverHolds(i)
      BY DEF TypeOK, InstanceType, Observing
    <3>2. inst[i].plugin = p => inst[i].late
      BY <1>1 DEF Silent
    <3> QED
      BY <1>1, <3>1, <3>2 DEF ObserverHolds
  <2> QED
    BY <2>1 DEF Observing, OnlyOf
<1>5. Requests'
  BY DEF Requests, ActivationHolds, WithdrawalHolds, DownloadHolds, OneRequest, Activating
<1> QED
  BY <1>2, <1>3, <1>4, <1>5 DEF TypeOK, OnlyOf

-----------------------------------------------------------------------------
(* The continuations.                                                      *)
LEMMA EnableHolds ==
  ASSUME OneRequest, IInv, NEW o \in Operators, NEW p \in Plugins, Enable(o, p)
  PROVE  IInv'
<1> USE DEF IInv
<1>1. op[o].pc = "idle"
  BY IdleType DEF Enable
<1>2. ~Touched(p)
  BY <1>1, Alone DEF Activating
<1>3. Row(p).version = disk[p] /\ Row(p).status # "loaded" /\ disk[p] \in Nat
  BY <1>2 DEF Enable, Rows, RowHolds, TypeOK
<1>4. disk' = disk
  BY DEF Enable
<1>5. PICK u \in Free :
        /\ inst' = [inst EXCEPT ![u] = NewInstance(p, disk'[p], TRUE)]
        /\ op' = [op EXCEPT ![o] = Doing("enable", "activating", p, u, NoInst, {})]
  BY <1>3, <1>4 DEF Enable
<1>6. Fresh(u, p, disk'[p], TRUE)
  BY <1>3, <1>4, <1>5, FreshInstance
<1>7. Doing("enable", "activating", p, u, NoInst, {}) \in RequestType
  BY DoingType, FreeIsNobodys DEF Kinds, Points, Ref
<1>8. op' \in [Operators -> RequestType]
      /\ op'[o] = Doing("enable", "activating", p, u, NoInst, {})
  BY <1>5, <1>7 DEF TypeOK
<1>9. op'[o].pc = "activating" /\ op'[o].plugin = p /\ op'[o].fresh = u
  BY <1>8 DEF Doing
<1>10. OnlyOf(p) /\ saved'[p] # "off"
  BY DEF OnlyOf, Enable, TypeOK
<1>11. Withdrawable(o, p)
  BY <1>1, <1>3 DEF Withdrawable, Activating
<1>12. loaded' \in [Plugins -> Ref] /\ loaded' = loaded
  BY DEF Enable, TypeOK
<1> QED
  BY <1>3, <1>4, <1>6, <1>8, <1>9, <1>10, <1>11, <1>12, PutsUp

(* An activation of p, whose row is dropped.                               *)
LEMMA ActivationStarts ==
  ASSUME OneRequest, IInv, NEW o \in Operators, NEW p \in Plugins, Withdrawable(o, p),
         Activation(o, p, disk'[p]), loaded' = Gone(p), OnlyOf(p), saved'[p] # "off"
  PROVE  IInv'
<1> USE DEF IInv
<1>1. PICK u \in Free :
        /\ inst' = [inst EXCEPT ![u] = NewInstance(p, disk'[p], TRUE)]
        /\ op' = [op EXCEPT ![o] = Doing(op[o].kind, "activating", p, u, NoInst,
                                         op[o].todo \ {p})]
  BY DEF Activation
<1>2. Fresh(u, p, disk'[p], TRUE)
  BY <1>1, FreshInstance DEF OnlyOf
<1>3. Doing(op[o].kind, "activating", p, u, NoInst, op[o].todo \ {p}) \in RequestType
  BY FreeIsNobodys, DoingType DEF TypeOK, RequestType, Points, Ref
<1>4. op' \in [Operators -> RequestType]
      /\ op'[o] = Doing(op[o].kind, "activating", p, u, NoInst, op[o].todo \ {p})
  BY <1>1, <1>3 DEF TypeOK
<1>5. op'[o].pc = "activating" /\ op'[o].plugin = p /\ op'[o].fresh = u
  BY <1>4 DEF Doing
<1>6. /\ loaded' \in [Plugins -> Ref] /\ loaded'[p] = NoInst
      /\ \A q \in Plugins \ {p} : loaded'[q] = loaded[q]
  BY DEF Gone, TypeOK, Ref
<1> QED
  BY <1>2, <1>4, <1>5, <1>6, PutsUp

(* loadDirectory, of a plugin that has no row or whose row is dropped.     *)
LEMMA LoadDirectoryHolds ==
  ASSUME OneRequest, IInv, NEW o \in Operators, NEW p \in Plugins, Withdrawable(o, p),
         NEW rows, rows = Gone(p), LoadDirectory(o, p, rows),
         disk' \in [Plugins -> Nat], \A q \in Plugins \ {p} : disk'[q] = disk[q],
         cached' = cached, saved' = saved, holder' = holder, observers' = observers
  PROVE  IInv'
<1> USE DEF IInv
<1>1. OnlyOf(p) /\ disk'[p] \in Nat
  BY DEF OnlyOf, TypeOK
<1>2. CASE Wanted(p)
  BY <1>1, <1>2, ActivationStarts DEF LoadDirectory, Wanted
<1>3. CASE ~Wanted(p)
  <2>1. PICK u \in Free : /\ inst' = [inst EXCEPT ![u] = NewInstance(p, disk'[p], FALSE)]
                          /\ loaded' = [rows EXCEPT ![p] = u]
    BY <1>3 DEF LoadDirectory
  <2>2. op' = [op EXCEPT ![o] = Scanning(op[o].kind, op[o].todo \ {p})]
    BY <1>3 DEF LoadDirectory
  <2>3. Fresh(u, p, disk'[p], FALSE)
    BY <1>1, <2>1, FreshInstance
  <2>4. op[o].todo \ {p} \in SUBSET Plugins /\ op[o].kind \in Kinds
    BY DEF TypeOK, RequestType
  <2>5. op' \in [Operators -> RequestType] /\ op'[o].pc \in {"idle", "scanning"}
    BY <2>2, <2>4, ScanningType DEF TypeOK
  <2>6. /\ loaded' \in [Plugins -> Ref] /\ loaded'[p] = u
        /\ \A q \in Plugins \ {p} : loaded'[q] = loaded[q]
    BY <2>1, FreeIsNobodys DEF Gone, TypeOK, Ref
  <2>7. saved'[p] = "off"
    BY <1>3 DEF Wanted
  <2> QED
    BY <1>1, <2>3, <2>5, <2>6, <2>7, PutsAway
<1> QED
  BY <1>2, <1>3

(* A plugin without a row has none to drop.                                *)
LEMMA GoneAlready ==
  ASSUME TypeOK, NEW p \in Plugins, loaded[p] = NoInst
  PROVE  loaded = Gone(p)
  BY DEF Gone, TypeOK

LEMMA UnpackedHolds ==
  ASSUME OneRequest, IInv, NEW o \in Operators, Unpacked(o)
  PROVE  IInv'
<1> USE DEF IInv
<1>1. PICK p \in Plugins : p = op[o].plugin
  BY DEF TypeOK, RequestType
<1>2. loaded[p] = NoInst
  BY <1>1 DEF Unpacked, Requests, DownloadHolds
<1>3. PICK v \in 1..LastVersion : disk' = [disk EXCEPT ![p] = v]
  BY <1>1 DEF Unpacked
<1>4. disk' \in [Plugins -> Nat] /\ \A q \in Plugins \ {p} : disk'[q] = disk[q]
  BY <1>3, PluginsAssumption DEF TypeOK
<1>5. LoadDirectory(o, p, loaded) /\ Withdrawable(o, p)
  BY <1>1, <1>2 DEF Unpacked, Withdrawable, Activating
<1>6. cached' = cached /\ saved' = saved /\ holder' = holder /\ observers' = observers
  BY DEF Unpacked
<1> QED
  BY <1>2, <1>4, <1>5, <1>6, GoneAlready, LoadDirectoryHolds

LEMMA UpgradedHolds ==
  ASSUME OneRequest, IInv, NEW o \in Operators, Upgraded(o)
  PROVE  IInv'
<1> USE DEF IInv
<1>1. PICK p \in Plugins : p = op[o].plugin
  BY DEF TypeOK, RequestType
<1>2. PICK v \in 1..LastVersion : disk' = [disk EXCEPT ![p] = v]
  BY <1>1 DEF Upgraded
<1>3. disk' \in [Plugins -> Nat] /\ \A q \in Plugins \ {p} : disk'[q] = disk[q]
  BY <1>2, PluginsAssumption DEF TypeOK
<1>4. LoadDirectory(o, p, Gone(p)) /\ Withdrawable(o, p)
  BY <1>1 DEF Upgraded, Withdrawable, Activating
<1>5. cached' = cached /\ saved' = saved /\ holder' = holder /\ observers' = observers
  BY DEF Upgraded
<1> QED
  BY <1>3, <1>4, <1>5, LoadDirectoryHolds

LEMMA ScanHolds ==
  ASSUME OneRequest, IInv, NEW o \in Operators, NEW p \in Plugins, Scan(o, p)
  PROVE  IInv'
<1> USE DEF IInv
<1>1. CASE loaded[p] # NoInst \/ disk[p] = 0
  <2>1. op' = [op EXCEPT ![o] = Scanning(op[o].kind, op[o].todo \ {p})]
        /\ UNCHANGED <<disk, cached, saved, inst, loaded, holder, observers>>
    BY <1>1 DEF Scan
  <2>2. op[o].todo \ {p} \in SUBSET Plugins /\ op[o].kind \in Kinds
        /\ disk' \in [Plugins -> Nat]
    BY <2>1 DEF TypeOK, RequestType
  <2>3. op' \in [Operators -> RequestType] /\ op'[o].pc \in {"idle", "scanning"}
    BY <2>1, <2>2, ScanningType DEF TypeOK
  <2>4. SweepHolds(o)' /\ DownloadHolds(o)'
    BY <2>3 DEF SweepHolds, DownloadHolds
  <2> QED
    BY <2>1, <2>2, <2>3, <2>4, Passing DEF Scan, Activating
<1>2. CASE loaded[p] = NoInst /\ disk[p] # 0
  <2>1. /\ LoadDirectory(o, p, loaded)
        /\ disk' = disk /\ cached' = cached /\ saved' = saved
        /\ holder' = holder /\ observers' = observers
    BY <1>2 DEF Scan
  <2>2. Withdrawable(o, p)
    BY <1>2 DEF Scan, Withdrawable, Activating
  <2>3. disk' \in [Plugins -> Nat]
    BY <2>1 DEF TypeOK
  <2> QED
    BY <1>2, <2>1, <2>2, <2>3, GoneAlready, LoadDirectoryHolds
<1> QED
  BY <1>1, <1>2

LEMMA DisabledHolds ==
  ASSUME OneRequest, IInv, NEW o \in Operators, Disabled(o)
  PROVE  IInv'
<1> USE DEF IInv
<1>1. PICK p \in Plugins : p = op[o].plugin
  BY DEF TypeOK, RequestType
<1>2. /\ op[o].old = loaded[p] /\ loaded[p] # NoInst /\ ~Wanted(p)
      /\ inst[op[o].old].version = disk[p]
  BY <1>1 DEF Disabled, Requests, WithdrawalHolds, Rescans, Rows, RowHolds, Row
<1>3. disk' = disk /\ cached' = cached /\ saved' = saved /\ op' = [op EXCEPT ![o] = Idle]
  BY DEF Disabled
<1>4. PICK u \in Free : /\ inst' = [inst EXCEPT ![u] = NewInstance(p, disk'[p], FALSE)]
                        /\ loaded' = [loaded EXCEPT ![p] = u]
  <2>1. PICK u \in Free :
          /\ inst' = [inst EXCEPT ![u] = NewInstance(p, inst[op[o].old].version, FALSE)]
          /\ loaded' = [loaded EXCEPT ![p] = u]
    BY <1>1 DEF Disabled
  <2> QED
    BY <1>2, <1>3, <2>1
<1>5. disk'[p] \in Nat /\ OnlyOf(p) /\ saved'[p] = "off"
  BY <1>2, <1>3 DEF TypeOK, OnlyOf, Wanted, Disabled
<1>6. Fresh(u, p, disk'[p], FALSE)
  BY <1>4, <1>5, FreshInstance
<1>7. op' \in [Operators -> RequestType] /\ op'[o].pc = "idle"
  BY <1>3, IdleType DEF TypeOK
<1>8. /\ loaded' \in [Plugins -> Ref] /\ loaded'[p] = u
      /\ \A q \in Plugins \ {p} : loaded'[q] = loaded[q]
  BY <1>4, FreeIsNobodys DEF TypeOK, Ref
<1>9. Withdrawable(o, p)
  BY <1>1 DEF Disabled, Withdrawable, Activating
<1> QED
  BY <1>5, <1>6, <1>7, <1>8, <1>9, PutsAway

LEMMA ReconfiguredHolds ==
  ASSUME OneRequest, IInv, NEW o \in Operators, Reconfigured(o)
  PROVE  IInv'
<1> USE DEF IInv
<1>1. PICK p \in Plugins : p = op[o].plugin
  BY DEF TypeOK, RequestType
<1>2. /\ op[o].old = loaded[p] /\ loaded[p] # NoInst /\ Wanted(p)
      /\ inst[op[o].old].version = disk[p]
  BY <1>1 DEF Reconfigured, Requests, WithdrawalHolds, Rescans, Rows, RowHolds, Row
<1>3. disk' = disk /\ Activation(o, p, disk'[p]) /\ loaded' = Gone(p)
  BY <1>1, <1>2 DEF Reconfigured
<1>4. OnlyOf(p) /\ saved'[p] # "off"
  BY <1>2 DEF TypeOK, OnlyOf, Wanted, Reconfigured
<1>5. Withdrawable(o, p)
  BY <1>1 DEF Reconfigured, Withdrawable, Activating
<1> QED
  BY <1>3, <1>4, <1>5, ActivationStarts

LEMMA RemovedHolds ==
  ASSUME OneRequest, IInv, NEW o \in Operators, Removed(o) \/ SwapFails(o)
  PROVE  IInv'
<1> USE DEF IInv
<1>1. PICK p \in Plugins : p = op[o].plugin
  BY DEF TypeOK, RequestType
<1>2. OnlyOf(p) /\ inst' = inst
  <2>1. CASE Removed(o)
    BY <1>1, <2>1 DEF Removed, OnlyOf, TypeOK
  <2>2. CASE SwapFails(o)
    BY <1>1, <2>2 DEF SwapFails, OnlyOf, TypeOK
  <2> QED
    BY <2>1, <2>2
<1>3. op' \in [Operators -> RequestType] /\ op'[o].pc = "idle"
  BY IdleType DEF Removed, SwapFails, TypeOK
<1>4. /\ loaded' \in [Plugins -> Ref] /\ loaded'[p] = NoInst
      /\ \A q \in Plugins \ {p} : loaded'[q] = loaded[q]
  BY <1>1 DEF Removed, SwapFails, Gone, TypeOK, Ref
<1>5. Withdrawable(o, p) /\ SweepHolds(o)'
  BY <1>1, <1>3 DEF Removed, SwapFails, Withdrawable, Activating, SweepHolds
<1> QED
  BY <1>2, <1>3, <1>4, <1>5, Drops

LEMMA SweptHolds ==
  ASSUME OneRequest, IInv, NEW o \in Operators, Swept(o)
  PROVE  IInv'
<1> USE DEF IInv
<1>1. PICK p \in Plugins : p = op[o].plugin
  BY DEF TypeOK, RequestType
<1>2. OnlyOf(p) /\ inst' = inst /\ Withdrawable(o, p)
  BY <1>1 DEF Swept, OnlyOf, TypeOK, Withdrawable, Activating
<1>3. /\ op[o].kind \in Rescans /\ op[o].kind \in Kinds /\ op[o].todo \in SUBSET Plugins
      /\ \A q \in Plugins : loaded[q] # NoInst => q \in op[o].todo \cup {p}
  BY <1>1 DEF Swept, Rescans, Kinds, Requests, WithdrawalHolds, TypeOK, RequestType
<1>4. CASE op[o].todo # {}
  <2>1. loaded' = Gone(p) /\ op' = [op EXCEPT ![o] = Sweeping(op[o].kind, op[o].todo)]
    BY <1>1, <1>4 DEF Swept
  <2>2. /\ op' \in [Operators -> RequestType]
        /\ op'[o].pc = "sweeping" /\ op'[o].kind = op[o].kind /\ op'[o].todo = op[o].todo
    BY <1>3, <2>1, SweepingType DEF TypeOK
  <2>3. /\ loaded' \in [Plugins -> Ref] /\ loaded'[p] = NoInst
        /\ \A q \in Plugins \ {p} : loaded'[q] = loaded[q]
    BY <2>1 DEF Gone, TypeOK, Ref
  <2>4. SweepHolds(o)'
    BY <1>3, <2>2, <2>3 DEF SweepHolds
  <2> QED
    BY <1>2, <2>2, <2>3, <2>4, Drops
<1>5. CASE op[o].todo = {}
  <2>1. /\ loaded' = [q \in Plugins |-> NoInst]
        /\ op' = [op EXCEPT ![o] = Scanning(op[o].kind, {q \in Plugins : disk[q] # 0})]
    BY <1>5 DEF Swept
  <2>2. op' \in [Operators -> RequestType] /\ op'[o].pc \in {"idle", "scanning"}
    BY <1>3, <2>1, ScanningType DEF TypeOK
  <2>3. /\ loaded' \in [Plugins -> Ref] /\ loaded'[p] = NoInst
        /\ \A q \in Plugins \ {p} : loaded'[q] = loaded[q]
    BY <1>3, <1>5, <2>1 DEF Ref
  <2>4. SweepHolds(o)'
    BY <2>2 DEF SweepHolds
  <2> QED
    BY <1>2, <2>2, <2>3, <2>4, Drops
<1> QED
  BY <1>4, <1>5

LEMMA InstallFailsHolds ==
  ASSUME OneRequest, IInv, NEW o \in Operators, InstallFails(o)
  PROVE  IInv'
<1> USE DEF IInv
<1>1. op' \in [Operators -> RequestType] /\ op'[o].pc = "idle"
  BY IdleType DEF InstallFails, TypeOK
<1>2. SweepHolds(o)' /\ DownloadHolds(o)'
  BY <1>1 DEF SweepHolds, DownloadHolds
<1>3. /\ disk' \in [Plugins -> Nat]
      /\ \A p \in Plugins : loaded[p] # NoInst => disk'[p] = disk[p]
  BY DEF InstallFails, TypeOK, Requests, DownloadHolds
<1> QED
  BY <1>1, <1>2, <1>3, Passing DEF InstallFails, Activating

-----------------------------------------------------------------------------
(* Activation, and what the code of a plugin does.                         *)
LEMMA ImportsHolds ==
  ASSUME OneRequest, IInv, NEW o \in Operators, Imports(o)
  PROVE  IInv'
<1> USE DEF IInv
<1>1. PICK p \in Plugins, i \in Insts : p = op[o].plugin /\ i = op[o].fresh
  BY DEF Imports, Requests, ActivationHolds, Activating, TypeOK, RequestType, Ref
<1>2. p \in Code /\ ActivationHolds(o) /\ op[o].pc = "activating"
  BY <1>1 DEF Imports, Requests
<1>3. /\ inst' = [inst EXCEPT ![i].api = TRUE]
      /\ UNCHANGED <<disk, saved, loaded, holder, observers>>
      /\ disk[p] # 0 /\ cached' = [cached EXCEPT ![p] = IF @ = 0 THEN disk[p] ELSE @]
  BY <1>1 DEF Imports
<1>4. /\ cached' \in [Plugins -> Nat] /\ cached'[p] # 0
      /\ \A q \in Plugins : cached[q] # 0 => cached'[q] # 0
  BY <1>3 DEF TypeOK
<1>5. /\ inst' \in [Insts -> InstanceType]
      /\ \A j \in Insts :
           /\ inst'[j].plugin = inst[j].plugin /\ inst'[j].version = inst[j].version
           /\ inst'[j].enabled = inst[j].enabled /\ inst'[j].tools = inst[j].tools
           /\ inst'[j].status = inst[j].status /\ inst'[j].late = inst[j].late
  BY <1>3 DEF TypeOK, InstanceType
<1>6. op' = [op EXCEPT ![o] = Doing(op[o].kind, "imported", p, i, op[o].old, op[o].todo)]
  BY <1>1 DEF Imports, GoesOn
<1>7. Doing(op[o].kind, "imported", p, i, op[o].old, op[o].todo) \in RequestType
  BY DoingType DEF TypeOK, RequestType, Points, Ref
<1>8. /\ op' \in [Operators -> RequestType]
      /\ op'[o] = Doing(op[o].kind, "imported", p, i, op[o].old, op[o].todo)
  BY <1>6, <1>7 DEF TypeOK
<1>9. op'[o].pc = "imported" /\ op'[o].plugin = p /\ op'[o].fresh = i
  BY <1>8 DEF Doing
<1>10. /\ \A q \in Plugins : (Touched(q) <=> q = p) /\ (Touched(q)' <=> q = p)
       /\ \A q \in Plugins : \A j : ~Registering(q, j)
  BY <1>1, <1>2, <1>9, Alone DEF Activating
<1>11. TypeOK'
  BY <1>3, <1>4, <1>5, <1>8 DEF TypeOK
<1>12. Rows'
  <2>1. ASSUME NEW q \in Plugins, loaded[q] # NoInst PROVE RowHolds(q)'
    <3>1. loaded[q] \in Insts /\ RowHolds(q)
      BY <2>1 DEF TypeOK, Ref, Rows
    <3> QED
      BY <1>3, <1>4, <1>5, <1>10, <2>1, <3>1 DEF RowHolds, Row, Wanted
  <2> QED
    BY <1>3, <2>1 DEF Rows, RowHolds
<1>13. Holders'
  <2>1. ASSUME NEW q \in Plugins, holder[q] # NoInst PROVE HolderHolds(q)'
    <3>1. holder[q] \in Insts /\ HolderHolds(q)
      BY <2>1 DEF TypeOK, Ref, Holders
    <3> QED
      BY <1>3, <1>5, <1>10, <2>1, <3>1 DEF HolderHolds
  <2> QED
    BY <1>3, <2>1 DEF Holders, HolderHolds
<1>14. Observing'
  <2>1. ASSUME NEW j \in observers PROVE ObserverHolds(j)'
    <3>1. j \in Insts /\ inst[j].plugin \in Plugins /\ ObserverHolds(j)
      BY DEF TypeOK, InstanceType, Observing
    <3> QED
      BY <1>3, <1>5, <1>10, <3>1 DEF ObserverHolds
  <2> QED
    BY <1>3, <2>1 DEF Observing
<1>15. Requests'
  <2>1. loaded[p] # NoInst => loaded[p] \in Insts /\ Row(p).status # "loaded"
    BY <1>1, <1>2 DEF ActivationHolds, Activating, TypeOK, Ref
  <2>2. loaded[p] # NoInst => Row(p)'.status # "loaded"
    BY <1>3, <1>5, <2>1 DEF Row
  <2>3. ActivationHolds(o)'
    BY <1>1, <1>2, <1>3, <1>4, <1>5, <1>9, <2>2 DEF ActivationHolds, Wanted, Activating
  <2> QED
    BY <1>9, <2>3 DEF Requests, WithdrawalHolds, SweepHolds, DownloadHolds, OneRequest
<1> QED
  BY <1>11, <1>12, <1>13, <1>14, <1>15

(* An instance that registers in time is being activated or is a row.      *)
LEMMA InTime ==
  ASSUME IInv, NEW i \in Insts, InUse(i)
  PROVE  /\ inst[i].status = "loaded" /\ inst[i].enabled /\ inst[i].plugin \in Plugins
         /\ loaded[inst[i].plugin] = i \/ Registering(inst[i].plugin, i)
<1> USE DEF IInv
<1>1. inst[i].plugin \in Plugins /\ i # NoInst
  BY PluginsAssumption DEF TypeOK, InstanceType
<1>2. CASE \E o \in Operators : op[o].pc = "imported" /\ op[o].fresh = i
  <2>1. PICK o \in Operators : op[o].pc = "imported" /\ op[o].fresh = i
    BY <1>2
  <2>2. ActivationHolds(o)
    BY DEF Requests
  <2> QED
    BY <1>1, <2>1, <2>2 DEF ActivationHolds, Activating, Registering
<1>3. CASE loaded[inst[i].plugin] = i /\ inst[i].status = "loaded"
  BY <1>1, <1>3 DEF Rows, RowHolds, Row
<1> QED
  BY <1>2, <1>3 DEF InUse

(* While its plugin is withdrawn, an instance registers late; one that is  *)
(* activated does not.                                                     *)
LEMMA NotInTime ==
  ASSUME OneRequest, IInv, NEW i \in Insts, inst[i].api, NEW o \in Operators
  PROVE  /\ op[o].pc = "deactivating" /\ op[o].plugin = inst[i].plugin => ~InUse(i)
         /\ op[o].pc \in Activating /\ op[o].fresh = i => op[o].pc = "imported" /\ InUse(i)
<1>1. op[o].pc = "deactivating" /\ op[o].plugin = inst[i].plugin => ~InUse(i)
  BY DEF InUse, OneRequest
<1>2. op[o].pc \in Activating /\ op[o].fresh = i => op[o].pc = "imported"
  BY DEF IInv, Requests, ActivationHolds, Activating
<1> QED
  BY <1>1, <1>2 DEF InUse

LEMMA RegistersToolHolds ==
  ASSUME OneRequest, IInv, NEW i \in Insts, RegistersTool(i)
  PROVE  IInv'
<1> USE DEF IInv
<1>1. PICK p \in Plugins : p = inst[i].plugin
  BY DEF TypeOK, InstanceType
<1>2. /\ inst[i].api /\ holder[p] = NoInst /\ holder' = [holder EXCEPT ![p] = i]
      /\ UNCHANGED <<disk, cached, saved, loaded, observers, op>> /\ i # NoInst
  BY <1>1, PluginsAssumption DEF RegistersTool, MayRegister
<1> DEFINE x == [inst[i] EXCEPT !.tools = TRUE, !.late = @ \/ ~InUse(i)]
<1>3. /\ x \in InstanceType /\ x.plugin = p /\ x.version = inst[i].version
      /\ x.enabled = inst[i].enabled /\ x.tools /\ x.status = inst[i].status
      /\ x.api = inst[i].api /\ (x.late <=> inst[i].late \/ ~InUse(i))
  <2>1. InUse(i) \in BOOLEAN /\ inst[i] \in InstanceType
    BY DEF InUse, TypeOK
  <2> QED
    BY <1>1, <2>1 DEF InstanceType
<1>4. inst' = [inst EXCEPT ![i] = x]
  BY DEF RegistersTool
<1> HIDE DEF x
<1>5. /\ inst' \in [Insts -> InstanceType] /\ inst'[i] = x
      /\ \A j \in Insts \ {i} : inst'[j] = inst[j]
  BY <1>3, <1>4 DEF TypeOK
<1>6. /\ holder' \in [Plugins -> Ref] /\ holder'[p] = i
      /\ \A q \in Plugins \ {p} : holder'[q] = holder[q]
  BY <1>2 DEF TypeOK, Ref
<1>7. /\ \A q : Touched(q)' <=> Touched(q)
      /\ \A q, j : Registering(q, j)' <=> Registering(q, j)
  BY <1>2 DEF Touched, Registering
<1>8. TypeOK'
  BY <1>2, <1>5, <1>6 DEF TypeOK
<1>9. Rows'
  <2>1. ASSUME NEW q \in Plugins, loaded[q] # NoInst PROVE RowHolds(q)'
    <3>1. loaded[q] \in Insts /\ RowHolds(q) /\ (loaded[q] = i => q = p)
      BY <1>1, <2>1 DEF TypeOK, Ref, Rows, RowHolds, Row
    <3>2. CASE loaded[q] = i
      BY <1>1, <1>2, <1>3, <1>5, <1>6, <1>7, <2>1, <3>1, <3>2 DEF RowHolds, Row, Wanted
    <3>3. CASE loaded[q] # i
      BY <1>2, <1>5, <1>6, <1>7, <2>1, <3>1, <3>3 DEF RowHolds, Row, Wanted
    <3> QED
      BY <3>2, <3>3
  <2> QED
    BY <1>2, <2>1 DEF Rows, RowHolds
<1>10. Holders'
  <2>1. HolderHolds(p)'
    BY <1>1, <1>2, <1>3, <1>5, <1>6, <1>7, InTime DEF HolderHolds
  <2>2. ASSUME NEW q \in Plugins \ {p}, holder[q] # NoInst PROVE HolderHolds(q)'
    <3>1. holder[q] \in Insts \ {i} /\ HolderHolds(q)
      BY <1>1, <2>2 DEF TypeOK, Ref, Holders, HolderHolds
    <3> QED
      BY <1>2, <1>5, <1>6, <1>7, <2>2, <3>1 DEF HolderHolds
  <2>3. ASSUME NEW q \in Plugins \ {p}, holder[q] = NoInst PROVE HolderHolds(q)'
    BY <1>6, <2>3 DEF HolderHolds
  <2> QED
    BY <2>1, <2>2, <2>3 DEF Holders
<1>11. ASSUME NEW j \in Insts
       PROVE  /\ inst'[j].plugin = inst[j].plugin /\ inst'[j].status = inst[j].status
              /\ inst[j].late => inst'[j].late
  BY <1>1, <1>3, <1>5
<1>12. Observing'
  <2>1. ASSUME NEW j \in observers PROVE ObserverHolds(j)'
    <3>1. j \in Insts /\ ObserverHolds(j)
      BY DEF TypeOK, Observing
    <3> QED
      BY <1>2, <1>7, <1>11, <3>1 DEF ObserverHolds
  <2> QED
    BY <1>2, <2>1 DEF Observing
<1>13. Requests'
  <2> SUFFICES ASSUME NEW o \in Operators
               PROVE  ActivationHolds(o)' /\ WithdrawalHolds(o)' /\ SweepHolds(o)'
                      /\ DownloadHolds(o)'
    BY DEF Requests
  <2>1. ActivationHolds(o) /\ WithdrawalHolds(o) /\ SweepHolds(o) /\ DownloadHolds(o)
        /\ op[o].plugin \in Plugins /\ op[o].fresh \in Ref
    BY DEF Requests, TypeOK, RequestType
  <2>2. ASSUME op[o].pc \in Activating PROVE ActivationHolds(o)'
    <3> DEFINE f == op[o].fresh
               r == op[o].plugin
    <3>1. f \in Insts /\ inst[f].plugin = r
      BY <2>1, <2>2 DEF ActivationHolds, Ref
    <3>2. loaded[r] # NoInst => loaded[r] \in Insts /\ inst[loaded[r]].status # "loaded"
      BY <2>1, <2>2 DEF ActivationHolds, TypeOK, Ref, Row
    <3>3. loaded[r] # NoInst => inst'[loaded[r]].status # "loaded"
      BY <1>11, <3>2
    <3>4. CASE f = i
      <4>1. op[o].pc = "imported" /\ InUse(i) /\ r = p
        BY <1>1, <1>2, <2>2, <3>1, <3>4, NotInTime
      <4> QED
        BY <1>2, <1>3, <1>5, <1>6, <2>1, <2>2, <3>1, <3>3, <3>4, <4>1
           DEF ActivationHolds, Wanted, Row
    <3>5. CASE f # i
      <4>1. inst'[f] = inst[f]
        BY <1>5, <3>1, <3>5
      <4>2. inst[f].tools => r # p
        BY <1>2, <2>1, <2>2, <3>1 DEF ActivationHolds
      <4> QED
        BY <1>2, <1>6, <2>1, <2>2, <3>1, <3>3, <4>1, <4>2 DEF ActivationHolds, Wanted, Row
    <3> QED
      BY <3>4, <3>5
  <2>3. ASSUME op[o].pc = "deactivating" PROVE Silent(op[o].plugin)'
    <3>1. op[o].plugin = p => x.late
      BY <1>1, <1>2, <1>3, <2>3, NotInTime
    <3>2. Silent(op[o].plugin)
      BY <2>1, <2>3 DEF WithdrawalHolds
    <3>3. holder'[op[o].plugin] # NoInst => inst'[holder'[op[o].plugin]].late
      <4>1. CASE op[o].plugin = p
        BY <1>5, <1>6, <3>1, <4>1
      <4>2. CASE op[o].plugin # p
        BY <1>6, <1>11, <2>1, <3>2, <4>2 DEF Silent, TypeOK, Ref
      <4> QED
        BY <4>1, <4>2
    <3> QED
      BY <1>2, <1>11, <3>2, <3>3 DEF Silent, TypeOK
  <2>4. WithdrawalHolds(o)'
    BY <1>2, <2>1, <2>3 DEF WithdrawalHolds, Wanted
  <2> QED
    BY <1>2, <2>1, <2>2, <2>4 DEF ActivationHolds, SweepHolds, DownloadHolds
<1> QED
  BY <1>8, <1>9, <1>10, <1>12, <1>13

(* What its code does besides leaves no tool and no row changed: only who  *)
(* observes, whether it was late, and whether it holds the API.            *)
LEMMA CodeHolds ==
  ASSUME OneRequest, IInv, NEW i \in Insts,
         UNCHANGED <<disk, cached, saved, loaded, holder, op>>,
         inst' \in [Insts -> InstanceType],
         \A j \in Insts : /\ inst'[j].plugin = inst[j].plugin
                          /\ inst'[j].version = inst[j].version
                          /\ inst'[j].enabled = inst[j].enabled
                          /\ inst'[j].tools = inst[j].tools
                          /\ inst'[j].status = inst[j].status
                          /\ inst'[j].api => inst[j].api
                          /\ inst[j].late => inst'[j].late
                          /\ inst'[j].late => inst[j].late \/ (j = i /\ ~InUse(i)),
         i \in observers' \ observers => inst[i].api /\ (InUse(i) \/ inst'[i].late),
         observers' \subseteq observers \cup {i},
         inst'[i].late /\ ~inst[i].late => inst[i].api
  PROVE  IInv'
<1> USE DEF IInv
<1>1. TypeOK'
  BY DEF TypeOK
<1>2. /\ \A q : Touched(q)' <=> Touched(q)
      /\ \A q, j : Registering(q, j)' <=> Registering(q, j)
  BY DEF Touched, Registering
<1>3. Rows'
  <2>1. ASSUME NEW q \in Plugins, loaded[q] # NoInst PROVE RowHolds(q)'
    <3>1. loaded[q] \in Insts /\ RowHolds(q)
      BY <2>1 DEF TypeOK, Ref, Rows
    <3> QED
      BY <1>2, <2>1, <3>1 DEF RowHolds, Row, Wanted
  <2> QED
    BY <2>1 DEF Rows, RowHolds
<1>4. Holders'
  <2>1. ASSUME NEW q \in Plugins, holder[q] # NoInst PROVE HolderHolds(q)'
    <3>1. holder[q] \in Insts /\ HolderHolds(q)
      BY <2>1 DEF TypeOK, Ref, Holders
    <3> QED
      BY <1>2, <2>1, <3>1 DEF HolderHolds
  <2> QED
    BY <2>1 DEF Holders, HolderHolds
<1>5. Observing'
  <2>1. ASSUME NEW j \in observers PROVE ObserverHolds(j)'
    <3>1. j \in Insts /\ ObserverHolds(j)
      BY DEF TypeOK, Observing
    <3> QED
      BY <1>2, <3>1 DEF ObserverHolds
  <2>2. i \in observers' \ observers => ObserverHolds(i)'
    BY <1>2, InTime DEF ObserverHolds
  <2> QED
    BY <2>1, <2>2 DEF Observing
<1>6. Requests'
  <2> SUFFICES ASSUME NEW o \in Operators
               PROVE  ActivationHolds(o)' /\ WithdrawalHolds(o)' /\ SweepHolds(o)'
                      /\ DownloadHolds(o)'
    BY DEF Requests
  <2>1. ActivationHolds(o) /\ WithdrawalHolds(o) /\ SweepHolds(o) /\ DownloadHolds(o)
        /\ op[o].plugin \in Plugins /\ op[o].fresh \in Ref
    BY DEF Requests, TypeOK, RequestType
  <2>2. ASSUME op[o].pc \in Activating PROVE ActivationHolds(o)'
    <3>1. op[o].fresh \in Insts
      BY <2>1, <2>2 DEF ActivationHolds, Ref
    <3>2. loaded[op[o].plugin] # NoInst =>
            loaded[op[o].plugin] \in Insts /\ inst'[loaded[op[o].plugin]].status # "loaded"
      BY <2>1, <2>2 DEF ActivationHolds, TypeOK, Ref, Row
    <3>3. ~inst'[op[o].fresh].late
      BY <2>1, <2>2, <3>1, NotInTime DEF ActivationHolds
    <3>4. op[o].pc = "activating" => /\ ~inst'[op[o].fresh].api /\ ~inst'[op[o].fresh].tools
                                     /\ op[o].fresh \notin observers'
      BY <2>1, <2>2, <3>1 DEF ActivationHolds
    <3> QED
      BY <2>1, <2>2, <3>1, <3>2, <3>3, <3>4 DEF ActivationHolds, Wanted, Row
  <2>3. ASSUME op[o].pc = "deactivating" PROVE Silent(op[o].plugin)'
    <3>1. Silent(op[o].plugin)
      BY <2>1, <2>3 DEF WithdrawalHolds
    <3>2. holder'[op[o].plugin] # NoInst => inst'[holder'[op[o].plugin]].late
      BY <2>1, <3>1 DEF Silent, TypeOK, Ref
    <3>3. ASSUME NEW j \in observers', inst'[j].plugin = op[o].plugin PROVE inst'[j].late
      <4>1. CASE j \in observers
        BY <3>1, <3>3, <4>1 DEF Silent, TypeOK
      <4>2. CASE j \notin observers
        BY <2>3, <3>3, <4>2, NotInTime
      <4> QED
        BY <4>1, <4>2
    <3> QED
      BY <3>2, <3>3 DEF Silent
  <2>4. WithdrawalHolds(o)'
    BY <2>1, <2>3 DEF WithdrawalHolds, Wanted
  <2> QED
    BY <2>1, <2>2, <2>4 DEF ActivationHolds, SweepHolds, DownloadHolds
<1> QED
  BY <1>1, <1>3, <1>4, <1>5, <1>6

LEMMA PluginCodeHolds ==
  ASSUME OneRequest, IInv, NEW i \in Insts, PluginCode(i)
  PROVE  IInv'
<1>1. CASE RegistersTool(i)
  BY <1>1, RegistersToolHolds
<1>2. CASE Subscribes(i)
  <2>1. InUse(i) \in BOOLEAN
    BY DEF InUse
  <2>2. inst' = [inst EXCEPT ![i].late = @ \/ ~InUse(i)] /\ inst[i].api
        /\ observers' = observers \cup {i}
        /\ UNCHANGED <<disk, cached, saved, loaded, holder, op>>
    BY <1>2 DEF Subscribes, MayRegister
  <2>3. /\ inst' \in [Insts -> InstanceType]
        /\ \A j \in Insts : /\ inst'[j].plugin = inst[j].plugin
                            /\ inst'[j].version = inst[j].version
                            /\ inst'[j].enabled = inst[j].enabled
                            /\ inst'[j].tools = inst[j].tools
                            /\ inst'[j].status = inst[j].status
                            /\ inst'[j].api = inst[j].api
                            /\ j # i => inst'[j].late = inst[j].late
        /\ inst'[i].late <=> inst[i].late \/ ~InUse(i)
    BY <2>1, <2>2 DEF IInv, TypeOK, InstanceType
  <2> QED
    BY <2>2, <2>3, CodeHolds
<1>3. CASE Unsubscribes(i)
  BY <1>3, CodeHolds DEF Unsubscribes, IInv, TypeOK
<1>4. CASE FallsSilent(i)
  <2>1. inst' = [inst EXCEPT ![i].api = FALSE] /\ observers' = observers
        /\ UNCHANGED <<disk, cached, saved, loaded, holder, op>>
    BY <1>4 DEF FallsSilent
  <2>2. /\ inst' \in [Insts -> InstanceType]
        /\ \A j \in Insts : /\ inst'[j].plugin = inst[j].plugin
                            /\ inst'[j].version = inst[j].version
                            /\ inst'[j].enabled = inst[j].enabled
                            /\ inst'[j].tools = inst[j].tools
                            /\ inst'[j].status = inst[j].status
                            /\ inst'[j].api => inst[j].api
                            /\ inst[j].late => inst'[j].late
                            /\ inst'[j].late => inst[j].late
    BY <2>1 DEF IInv, TypeOK, InstanceType
  <2>3. /\ i \in observers' \ observers => inst[i].api /\ (InUse(i) \/ inst'[i].late)
        /\ observers' \subseteq observers \cup {i}
    BY <2>1
  <2>4. inst'[i].late /\ ~inst[i].late => inst[i].api
    BY <2>2
  <2>5. \A j \in Insts : inst'[j].late => inst[j].late \/ (j = i /\ ~InUse(i))
    BY <2>2
  <2> HIDE DEF IInv
  <2> QED
    BY <2>1, <2>2, <2>3, <2>4, <2>5, CodeHolds
<1> QED
  BY <1>1, <1>2, <1>3, <1>4 DEF PluginCode

(* The request is over, or goes on to the next directory.                  *)
LEMMA OverType ==
  ASSUME TypeOK, NEW o \in Operators, Over(o)
  PROVE  op' \in [Operators -> RequestType] /\ op'[o].pc \in {"idle", "scanning"}
<1>1. op[o].todo \in SUBSET Plugins /\ op[o].kind \in Kinds
  BY DEF TypeOK, RequestType
<1> QED
  BY <1>1, ScanningType DEF Over, TypeOK

LEMMA ActivatedHolds ==
  ASSUME OneRequest, IInv, NEW o \in Operators, Activated(o)
  PROVE  IInv'
<1> USE DEF IInv
<1>1. op[o].pc \in Activating /\ (op[o].plugin \in Code => op[o].pc = "imported")
  BY DEF Activated, Activating
<1>2. PICK p \in Plugins, i \in Insts : p = op[o].plugin /\ i = op[o].fresh
  BY <1>1 DEF Requests, ActivationHolds, TypeOK, RequestType, Ref
<1>3. /\ inst[i].plugin = p /\ inst[i].version = disk[p] /\ inst[i].enabled
      /\ inst[i].status = "loaded" /\ Wanted(p) /\ i # NoInst
      /\ loaded[p] # NoInst => Row(p).status # "loaded"
      /\ inst[i].tools => holder[p] = i
      /\ p \in Code => cached[p] # 0
  BY <1>1, <1>2 DEF Requests, ActivationHolds
<1>4. /\ loaded' \in [Plugins -> Ref] /\ loaded'[p] = i
      /\ \A q \in Plugins \ {p} : loaded'[q] = loaded[q]
      /\ UNCHANGED <<disk, cached, saved, inst, holder, observers>>
  BY <1>2 DEF Activated, TypeOK, Ref
<1>5. op' \in [Operators -> RequestType] /\ op'[o].pc \in {"idle", "scanning"}
  BY OverType DEF Activated
<1>6. /\ \A q \in Plugins : (Touched(q) <=> q = p) /\ ~Touched(q)'
      /\ \A q \in Plugins : \A j : Registering(q, j) => q = p /\ j = i
  BY <1>1, <1>2, <1>5, Alone DEF Activating
<1>7. Rows'
  BY <1>3, <1>4, <1>6 DEF Rows, RowHolds, Row, Wanted
<1>8. Holders'
  <2>1. ASSUME NEW q \in Plugins, holder[q] # NoInst PROVE HolderHolds(q)'
    <3>1. HolderHolds(q)
      BY DEF Holders
    <3>2. q = p /\ ~inst[holder[q]].late => holder[q] = i
      BY <1>3, <1>6, <2>1, <3>1 DEF HolderHolds, Row
    <3> QED
      BY <1>4, <1>6, <2>1, <3>1, <3>2 DEF HolderHolds
  <2> QED
    BY <1>4, <2>1 DEF Holders, HolderHolds
<1>9. Observing'
  <2>1. ASSUME NEW j \in observers PROVE ObserverHolds(j)'
    <3>1. inst[j].plugin \in Plugins /\ j # NoInst /\ ObserverHolds(j)
      BY PluginsAssumption DEF TypeOK, InstanceType, Observing
    <3>2. inst[j].plugin = p /\ ~inst[j].late => j = i
      BY <1>3, <1>6, <3>1 DEF ObserverHolds, Row
    <3> QED
      BY <1>4, <1>6, <3>1, <3>2 DEF ObserverHolds
  <2> QED
    BY <1>4, <2>1 DEF Observing
<1>10. Requests'
  BY <1>5 DEF Requests, ActivationHolds, WithdrawalHolds, SweepHolds, DownloadHolds,
     OneRequest, Activating
<1> QED
  BY <1>4, <1>5, <1>7, <1>8, <1>9, <1>10 DEF TypeOK

LEMMA ActivationFailsHolds ==
  ASSUME OneRequest, IInv, NEW o \in Operators, ActivationFails(o)
  PROVE  IInv'
<1> USE DEF IInv
<1>1. op[o].pc \in Activating
  BY DEF ActivationFails, Activating
<1>2. PICK p \in Plugins, i \in Insts : p = op[o].plugin /\ i = op[o].fresh
  BY <1>1 DEF Requests, ActivationHolds, TypeOK, RequestType, Ref
<1>3. /\ inst[i].plugin = p /\ inst[i].version = disk[p] /\ inst[i].status = "loaded"
      /\ inst[i].enabled /\ Wanted(p) /\ i # NoInst
      /\ loaded[p] # NoInst => Row(p).status # "loaded"
      /\ inst[i].tools => holder[p] = i
  BY <1>1, <1>2 DEF Requests, ActivationHolds
<1>4. /\ \A q \in Plugins : (Touched(q) <=> q = p)
      /\ \A q \in Plugins : \A j : Registering(q, j) => q = p /\ j = i
  BY <1>1, <1>2, Alone DEF Activating
<1> DEFINE x == [inst[i] EXCEPT !.tools = FALSE, !.status = "error"]
<1>5. /\ x \in InstanceType /\ x.plugin = p /\ x.version = disk[p] /\ x.enabled
      /\ x.status = "error"
  BY <1>3 DEF InstanceType, TypeOK
<1>6. /\ inst' = [inst EXCEPT ![i] = x] /\ loaded' = [loaded EXCEPT ![p] = i]
      /\ holder' = IF inst[i].tools THEN [holder EXCEPT ![p] = NoInst] ELSE holder
      /\ observers' = observers \ {i}
      /\ disk' = disk /\ cached' = cached /\ saved' = saved
  BY <1>2 DEF ActivationFails, RollbackActivation
<1> HIDE DEF x
<1>7. /\ inst' \in [Insts -> InstanceType] /\ inst'[i] = x
      /\ \A j \in Insts \ {i} : inst'[j] = inst[j]
      /\ loaded' \in [Plugins -> Ref] /\ loaded'[p] = i
      /\ \A q \in Plugins \ {p} : loaded'[q] = loaded[q]
  BY <1>5, <1>6 DEF TypeOK, Ref
<1>8. holder[p] # NoInst /\ ~inst[holder[p]].late => holder[p] = i /\ inst[i].tools
  BY <1>3, <1>4 DEF Holders, HolderHolds, Row
<1>9. /\ holder' \in [Plugins -> Ref]
      /\ holder'[p] # NoInst => /\ holder'[p] = holder[p] /\ inst[holder[p]].late
                                /\ holder[p] # i
      /\ \A q \in Plugins \ {p} : holder'[q] = holder[q]
  <2>1. ~inst[i].late
    BY <1>1, <1>2 DEF Requests, ActivationHolds
  <2> QED
    BY <1>6, <1>8, <2>1 DEF TypeOK, Ref
<1>10. /\ \A q \in Plugins \ {p} : loaded[q] # NoInst => loaded[q] # i /\ loaded[q] \in Insts
       /\ \A q \in Plugins \ {p} : holder[q] # NoInst => holder[q] # i
       /\ \A q \in Plugins : holder[q] # NoInst => holder[q] \in Insts
  <2>1. ASSUME NEW q \in Plugins \ {p}, loaded[q] # NoInst PROVE loaded[q] # i
    BY <1>3, <2>1 DEF Rows, RowHolds, Row
  <2>2. ASSUME NEW q \in Plugins \ {p}, holder[q] # NoInst PROVE holder[q] # i
    BY <1>3, <2>2 DEF Holders, HolderHolds
  <2> QED
    BY <2>1, <2>2 DEF TypeOK, Ref
<1>11. op' \in [Operators -> RequestType] /\ op'[o].pc \in {"idle", "scanning"}
  BY OverType DEF ActivationFails
<1>12. TypeOK'
  BY <1>6, <1>7, <1>9, <1>11 DEF TypeOK
<1>13. Rows'
  BY <1>3, <1>4, <1>5, <1>6, <1>7, <1>9, <1>10 DEF Rows, RowHolds, Row, Wanted
<1>14. Holders'
  <2>1. ASSUME NEW q \in Plugins, holder'[q] # NoInst PROVE HolderHolds(q)'
    <3>1. /\ holder'[q] = holder[q] /\ holder[q] \in Insts \ {i} /\ HolderHolds(q)
          /\ q = p => inst[holder[q]].late
      BY <1>9, <1>10, <2>1 DEF Holders
    <3>2. inst'[holder[q]] = inst[holder[q]]
      BY <1>7, <3>1
    <3> QED
      BY <1>4, <1>7, <2>1, <3>1, <3>2 DEF HolderHolds
  <2> QED
    BY <2>1 DEF Holders, HolderHolds
<1>15. Observing'
  <2>1. ASSUME NEW j \in observers \ {i} PROVE ObserverHolds(j)'
    <3>1. j \in Insts /\ j # i /\ j # NoInst /\ inst[j].plugin \in Plugins /\ ObserverHolds(j)
      BY PluginsAssumption DEF TypeOK, InstanceType, Observing
    <3>2. inst'[j] = inst[j]
      BY <1>7, <3>1
    <3>3. inst[j].plugin = p => inst[j].late
      BY <1>3, <1>4, <3>1 DEF ObserverHolds, Row
    <3> QED
      BY <1>4, <1>7, <3>1, <3>2, <3>3 DEF ObserverHolds
  <2> QED
    BY <1>6, <2>1 DEF Observing
<1>16. Requests'
  BY <1>11 DEF Requests, ActivationHolds, WithdrawalHolds, SweepHolds, DownloadHolds,
     OneRequest, Activating
<1> QED
  BY <1>12, <1>13, <1>14, <1>15, <1>16

-----------------------------------------------------------------------------
LEMMA RequestHolds ==
  ASSUME OneRequest, IInv, NEW o \in Operators, Load(o) \/ Request(o)
  PROVE  IInv'
<1>1. CASE Load(o)
  BY <1>1, RescanHolds DEF Load, Rescans
<1>2. CASE Rescan(o, "refresh")
  BY <1>2, RescanHolds DEF Rescans
<1>3. ASSUME NEW p \in Plugins,
             \/ Enable(o, p) \/ Disable(o, p) \/ Configure(o, p) \/ Remove(o, p)
             \/ Install(o, p)
      PROVE  IInv'
  BY <1>3, EnableHolds, DisableHolds, ConfigureHolds, RemoveHolds, InstallHolds
<1> QED
  BY <1>1, <1>2, <1>3 DEF Request

LEMMA StepHolds ==
  ASSUME OneRequest, IInv, NEW o \in Operators, Step(o)
  PROVE  IInv'
<1>1. ASSUME NEW p \in Plugins, Sweep(o, p) \/ Scan(o, p)
      PROVE  IInv'
  BY <1>1, SweepHoldsStill, ScanHolds
<1>2. ASSUME \/ Unpacked(o) \/ Upgrade(o) \/ InstallFails(o)
             \/ Disabled(o) \/ Reconfigured(o) \/ Removed(o) \/ Upgraded(o) \/ SwapFails(o)
             \/ Swept(o) \/ Imports(o) \/ Activated(o) \/ ActivationFails(o)
      PROVE  IInv'
  BY <1>2, UnpackedHolds, UpgradeHolds, InstallFailsHolds, DisabledHolds, ReconfiguredHolds,
     RemovedHolds, UpgradedHolds, SweptHolds, ImportsHolds, ActivatedHolds,
     ActivationFailsHolds
<1> QED
  BY <1>1, <1>2 DEF Step

LEMMA NextHolds == OneRequest /\ IInv /\ [Next]_vars => IInv'
<1> SUFFICES ASSUME OneRequest, IInv, [Next]_vars PROVE IInv'
  OBVIOUS
<1>1. CASE UNCHANGED vars
  BY <1>1 DEF vars, IInv, TypeOK, Rows, RowHolds, Row, Wanted, Touched, Holders, HolderHolds,
     Registering, Observing, ObserverHolds, Requests, ActivationHolds, WithdrawalHolds,
     SweepHolds, DownloadHolds, Silent
<1>2. ASSUME NEW o \in Operators, Load(o) \/ Request(o) \/ Step(o)
      PROVE  IInv'
  BY <1>2, RequestHolds, StepHolds
<1>3. ASSUME NEW i \in Insts, PluginCode(i) PROVE IInv'
  BY <1>3, PluginCodeHolds
<1> QED
  BY <1>1, <1>2, <1>3 DEF Next

(* One request at a time, the invariant holds of every behaviour.          *)
THEOREM Invariant == OneRequest => (Spec => []IInv)
<1> SUFFICES ASSUME OneRequest PROVE Spec => []IInv
  OBVIOUS
<1>1. IInv /\ [Next]_vars => IInv'
  BY NextHolds
<1> QED
  BY <1>1, InitHolds, PTL DEF Spec

LEMMA QuietIsUntouched ==
  ASSUME Quiet, NEW p
  PROVE  ~Touched(p) /\ \A i : ~Registering(p, i)
  BY IdleType DEF Quiet, Touched, Registering, Activating

(* host.ts:315, 447: of what was withdrawn, replaced or failed nothing can *)
(* be called and nobody listens, but for what its code registers later.    *)
THEOREM NothingIsLeftBehind == OneRequest => (Spec => []NoTrace)
<1>1. IInv => NoTrace
  <2> SUFFICES ASSUME IInv, Quiet PROVE
        /\ \A p \in Plugins : holder[p] # NoInst =>
             \/ inst[holder[p]].late
             \/ loaded[p] = holder[p] /\ Row(p).status = "loaded" /\ Row(p).enabled
        /\ \A i \in observers :
             \/ inst[i].late
             \/ \E p \in Plugins : loaded[p] = i /\ Row(p).status = "loaded"
    BY DEF NoTrace
  <2>1. ASSUME NEW p \in Plugins, holder[p] # NoInst, ~inst[holder[p]].late
        PROVE  loaded[p] = holder[p] /\ Row(p).status = "loaded" /\ Row(p).enabled
    BY <2>1, QuietIsUntouched DEF IInv, Holders, HolderHolds, Row
  <2>2. ASSUME NEW i \in observers, ~inst[i].late
        PROVE  \E p \in Plugins : loaded[p] = i /\ Row(p).status = "loaded"
    <3>1. inst[i].plugin \in Plugins
      BY DEF IInv, TypeOK, InstanceType
    <3> QED
      BY <2>2, <3>1, QuietIsUntouched DEF IInv, Observing, ObserverHolds, Row
  <2> QED
    BY <2>1, <2>2
<1> QED
  BY <1>1, Invariant, PTL

(* host.ts:540: what the console is shown of a plugin agrees with its      *)
(* directory, with the operator's decision and with the registries.        *)
THEOREM RowsAreTrue == OneRequest => (Spec => []RowsTellTheTruth)
<1>1. IInv => RowsTellTheTruth
  <2> SUFFICES ASSUME IInv, Quiet, NEW p \in Plugins, loaded[p] # NoInst PROVE
        /\ Row(p).plugin = p /\ Row(p).version = disk[p]
        /\ Row(p).enabled = Wanted(p)
        /\ Row(p).status = "loaded" /\ Row(p).tools => holder[p] = loaded[p]
        /\ p \in Code /\ Row(p).status = "loaded" => cached[p] # 0
    BY DEF RowsTellTheTruth
  <2>1. /\ Row(p).plugin = p /\ Row(p).version = disk[p]
        /\ Row(p).enabled <=> Wanted(p)
        /\ Row(p).status = "loaded" /\ Row(p).tools => holder[p] = loaded[p]
        /\ p \in Code /\ Row(p).status = "loaded" => cached[p] # 0
    BY QuietIsUntouched DEF IInv, Rows, RowHolds
  <2>2. Row(p).enabled \in BOOLEAN /\ Wanted(p) \in BOOLEAN
    BY DEF IInv, TypeOK, Ref, InstanceType, Row, Wanted
  <2>3. Row(p).enabled = Wanted(p)
    BY <2>1, <2>2
  <2> QED
    BY <2>1, <2>3
<1> QED
  BY <1>1, Invariant, PTL

(* host.ts:1129: no step changes the files of a plugin while a tool or an  *)
(* observer of its code is registered, but for what came late.             *)
THEOREM SwapsAreSilent == OneRequest => (Spec => SwapsFindNothingRegistered)
<1> SUFFICES ASSUME OneRequest PROVE Spec => SwapsFindNothingRegistered
  OBVIOUS
<1>1. IInv /\ [Next]_vars =>
        [\A p \in Plugins : disk'[p] # disk[p] =>
           \A i \in observers' \cup {holder'[p]} :
             i # NoInst /\ inst[i].plugin = p => inst[i].late]_vars
  <2> SUFFICES ASSUME IInv, [Next]_vars, NEW p \in Plugins, disk'[p] # disk[p],
                      NEW i \in observers' \cup {holder'[p]}, i # NoInst, inst[i].plugin = p
               PROVE  inst[i].late
    OBVIOUS
  <2>1. disk' # disk
    OBVIOUS
  <2>2. PICK o \in Operators : \/ Unpacked(o) \/ InstallFails(o) \/ Removed(o)
                               \/ Upgraded(o) \/ SwapFails(o)
    BY <2>1 DEF Next, vars, Load, Request, Rescan, Enable, Disable, Configure, Remove, Install,
       Step, Upgrade, Sweep, Scan, Disabled, Reconfigured, Swept, Imports,
       Activated, ActivationFails, PluginCode, RegistersTool, Subscribes, Unsubscribes,
       FallsSilent
  <2>3. op[o].plugin = p
    BY <2>2 DEF Unpacked, InstallFails, Removed, Upgraded, SwapFails, IInv, TypeOK
  <2>4. DownloadHolds(o) /\ (op[o].pc = "downloading" => op[o].old = NoInst)
    BY <2>1, <2>2 DEF Unpacked, InstallFails, Removed, Upgraded, SwapFails, IInv, Requests
  <2>5. Withdrawable(o, p)
    BY <2>2, <2>3, <2>4 DEF Unpacked, InstallFails, Removed, Upgraded, SwapFails,
       Withdrawable, Activating, DownloadHolds
  <2>6. Silent(p) /\ holder' = holder /\ observers' = observers
    BY <2>2, <2>5, Bare DEF Unpacked, InstallFails, Removed, Upgraded, SwapFails
  <2> QED
    BY <2>6 DEF Silent
<1> QED
  BY <1>1, Invariant, PTL DEF Spec, SwapsFindNothingRegistered
=============================================================================
