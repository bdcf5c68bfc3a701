----------------------------- MODULE SystemInfo -----------------------------
(***************************************************************************)
(* SRL::System::SystemInfo and CpuInfo on Linux: the constructor counts    *)
(* packages, cores and threads by pinning the process to one CPU after     *)
(* another, and threads refresh the loads, the memory and the uptime from  *)
(* /proc at most once in a second.  Time goes in half seconds, in each of  *)
(* which every CPU spends one jiffy.                                       *)
(***************************************************************************)
EXTENDS Integers, Sequences, FiniteSets

CONSTANTS Machines,    \* [vendor, mt, logical, cores, apic, memory]: what cpuid and /proc say
          Callers,     \* threads that share the instance
          Boot,        \* seconds since the boot when the model begins
          Wrap,        \* kilobytes whose bytes fit into 32 bits
          MaxTime

\* There is a CPU, and some memory.
ASSUME MachinesAssumption ==
    \A m \in Machines : m.apic \in Seq(Nat) /\ m.apic # <<>> /\ m.memory \in Nat \ {0}
ASSUME UnitsAssumption == Boot \in Nat /\ Wrap \in Nat \ {0} /\ IsFiniteSet(Callers) /\ Callers # {}

VARIABLES machine, now, jiffies, free,         \* the computer
          affinity,                            \* of the process
          info,                                \* what the constructor finds out
          last_update, cpus, mem, uptime, str_uptime,   \* of the instance
          active,                              \* the callers there are
          infoPc, reg,                             \* of each caller: where it is, what it read
          reads,                               \* history: the last two reads of each line
          raced                                \* history: two callers were in update_memory() at once

computer == <<machine, now, jiffies, free>>
instance == <<last_update, cpus, mem, uptime, str_uptime>>
infoVars == <<computer, affinity, info, instance, active, infoPc, reg, reads, raced>>

Count == Len(machine.apic)
\* The lines of /proc/stat: 0 is the sum of the others.
Lines == IF Count > 1 THEN 0..Count ELSE 1..Count
Modes == {"user", "kernel", "idle"}
Zero == [m \in Modes |-> 0]
stat(j, l) == IF l > 0 THEN j[l]
              ELSE [m \in Modes |-> LET add[k \in 0..Count] == IF k = 0 THEN 0 ELSE add[k - 1] + j[k][m]
                                    IN add[Count]]

-----------------------------------------------------------------------------
(* CpuInfo                                                                 *)

LogicalProcessorsPerPackage == IF machine.mt THEN machine.logical ELSE 1
\* The leaf asked is cpuid's highest, not 4: any number may come.
CoresPerPackage == IF machine.mt THEN machine.cores ELSE 1

\* Bits that n - 1 needs; of 16, as the instruction is bsrw.
find_maskwidth(n) == IF n = 0 THEN 16 ELSE CHOOSE w \in 0..16 : /\ 2^w >= n
                                                               /\ \A v \in 0..16 : 2^v >= n => w <= v
GetNzbSubID(id, max, shift) ==
    LET low == IF shift > 8 THEN 8 ELSE shift
        width == find_maskwidth(max)
    IN ((id \div 2^low) % 2^width) * 2^low
GetActivePackageId(id, logical) == LET w == find_maskwidth(logical) IN (id \div 2^w) * 2^w
GetActiveCoreId(id, logical, perCore) == GetNzbSubID(id, logical, find_maskwidth(perCore))
GetActiveSmtId(id, perCore) == GetNzbSubID(id, perCore, 0)

-----------------------------------------------------------------------------
(* The constructor                                                         *)

Unread == [load |-> Zero, seen |-> Zero, mutex |-> FALSE]

InfoInit == /\ machine \in Machines
            /\ now = 2 /\ jiffies = [c \in 1..Count |-> [Zero EXCEPT !.idle = 2]] /\ free = 0
            /\ affinity \in {{1}, 1..Count}
            /\ info = [phase |-> "start", apic |-> 0, orig |-> {}, ids |-> <<>>, physical |-> 0,
                       perCpu |-> 0, support |-> FALSE, enabled |-> FALSE]
            /\ last_update = 0 /\ cpus = [l \in Lines |-> Unread]
            /\ mem = [total |-> 0, free |-> 0, used |-> 0] /\ uptime = 0 /\ str_uptime = {}
            /\ active \in {Callers, {CHOOSE t \in Callers : TRUE}}
            /\ infoPc = [t \in Callers |-> "new"] /\ reg = [t \in Callers |-> <<>>]
            /\ reads = [l \in Lines |-> <<Zero, Zero>>] /\ raced = FALSE

perCore == LogicalProcessorsPerPackage \div CoresPerPackage

\* The id of the CPU that the constructor happens to run on.
ReadApicId(c) ==
    /\ info.phase = "start" /\ c \in affinity
    /\ info' = [info EXCEPT !.phase = "pin", !.apic = machine.apic[c], !.orig = affinity,
                            !.perCpu = CoresPerPackage]
    /\ UNCHANGED <<computer, affinity, instance, active, infoPc, reg, reads, raced>>

\* One pass of the loop: the process moves, and the id read before is used.
PinTo ==
    /\ info.phase = "pin" /\ Len(info.ids) < Count
    /\ LET ids == [package |-> GetActivePackageId(info.apic, LogicalProcessorsPerPackage),
                   core |-> GetActiveCoreId(info.apic, LogicalProcessorsPerPackage, perCore),
                   smt |-> GetActiveSmtId(info.apic, perCore)]
           known == \E k \in 1..Len(info.ids) : info.ids[k].package = ids.package
       IN info' = [info EXCEPT !.ids = Append(@, ids), !.physical = IF known THEN @ ELSE @ + 1]
    /\ affinity' = {Len(info.ids) + 1}
    /\ UNCHANGED <<computer, instance, active, infoPc, reg, reads, raced>>

total_cores == Cardinality({info.ids[k].core : k \in 1..Count})

\* The rest of _update_cpu_info(): the affinity mask is put back.
CountCores ==
    /\ info.phase = "pin" /\ Len(info.ids) = Count
    /\ affinity' = info.orig
    /\ info' = [info EXCEPT
          !.phase = "done",
          !.support = machine.vendor = "GenuineIntel" /\ perCore # 1,
          !.enabled = /\ machine.vendor = "GenuineIntel" /\ perCore # 1
                      /\ IF total_cores > info.physical
                         THEN Count - total_cores > info.physical ELSE Count > info.physical,
          !.perCpu = IF machine.vendor = "AuthenticAMD" /\ Count > info.physical THEN perCore ELSE @]
    /\ UNCHANGED <<computer, instance, active, infoPc, reg, reads, raced>>

-----------------------------------------------------------------------------
(* The callers; the first refresh() is the constructor's.                  *)

\* refresh() looks at the clock; it comes back if a second has not gone by.
RefreshCheck(t) ==
    /\ info.phase = "done" /\ t \in active /\ infoPc[t] \in {"new", "idle"}
    /\ infoPc' = [infoPc EXCEPT ![t] = IF now - last_update < 2 THEN "idle" ELSE "stamp"]
    /\ reg' = [reg EXCEPT ![t] = IF now - last_update < 2 THEN <<>> ELSE <<now>>]
    /\ UNCHANGED <<computer, affinity, info, instance, active, reads, raced>>

\* The CPUs from 1 on, and the average last.
order == [k \in 1..Cardinality(Lines) |-> IF k > Count THEN 0 ELSE k]

RefreshStamp(t) ==
    /\ infoPc[t] = "stamp" /\ last_update' = reg[t][1]
    /\ infoPc' = [infoPc EXCEPT ![t] = "cpus"] /\ reg' = [reg EXCEPT ![t] = order]
    /\ UNCHANGED <<computer, affinity, info, cpus, mem, uptime, str_uptime, active, reads, raced>>

\* Faulty: the mutex of the CPU is not taken.
ReadStat_NoMutex(t) ==
    /\ infoPc[t] = "cpus" /\ reg[t] # <<>>
    /\ LET l == Head(reg[t])
       IN /\ cpus' = [cpus EXCEPT ![l].mutex = TRUE]
          /\ reg' = [reg EXCEPT ![t] = <<stat(jiffies, l)>> \o @]
          /\ reads' = [reads EXCEPT ![l] = <<@[2], stat(jiffies, l)>>]
    /\ infoPc' = [infoPc EXCEPT ![t] = "loads"]
    /\ UNCHANGED <<computer, affinity, info, last_update, mem, uptime, str_uptime, active, raced>>

\* CPU::refresh(): lock, and read the line of /proc/stat.
ReadStat(t) ==
    /\ infoPc[t] = "cpus" /\ reg[t] # <<>>
    /\ LET l == Head(reg[t])
       IN /\ ~cpus[l].mutex /\ cpus' = [cpus EXCEPT ![l].mutex = TRUE]
          /\ reg' = [reg EXCEPT ![t] = <<stat(jiffies, l)>> \o @]
          /\ reads' = [reads EXCEPT ![l] = <<@[2], stat(jiffies, l)>>]
    /\ infoPc' = [infoPc EXCEPT ![t] = "loads"]
    /\ UNCHANGED <<computer, affinity, info, last_update, mem, uptime, str_uptime, active, raced>>

\* The difference to what was seen before is the load (of counters below 2^31).
update_times(t) ==
    /\ infoPc[t] = "loads"
    /\ LET new == reg[t][1]  l == reg[t][2]
           difference == [m \in Modes |-> new[m] - cpus[l].seen[m]]
       IN /\ cpus' = [cpus EXCEPT ![l] = [load |-> difference, seen |-> new, mutex |-> FALSE]]
          /\ reg' = [reg EXCEPT ![t] = SubSeq(@, 3, Len(@))]
    /\ infoPc' = [infoPc EXCEPT ![t] = "cpus"]
    /\ UNCHANGED <<computer, affinity, info, last_update, mem, uptime, str_uptime, active, reads, raced>>

\* _update_memory() takes no lock: the cached uptime goes, and then the fields
\* are written one after another, as bytes of 32 bits.
Updating == {"total", "free", "load", "used"}

UpdateUptime(t) ==
    /\ infoPc[t] = "cpus" /\ reg[t] = <<>>
    /\ str_uptime' = {} /\ uptime' = Boot + now \div 2
    /\ infoPc' = [infoPc EXCEPT ![t] = "total"]
    /\ raced' = (raced \/ \E u \in Callers : infoPc[u] \in Updating)
    /\ UNCHANGED <<computer, affinity, info, last_update, cpus, mem, active, reg, reads>>

\* The next of the steps over the memory.
MemoryStep(t, from, to) ==
    /\ infoPc[t] = from /\ infoPc' = [infoPc EXCEPT ![t] = to]
    /\ UNCHANGED <<computer, affinity, info, last_update, cpus, uptime, str_uptime, active, reads, raced>>

WriteTotal(t) == /\ MemoryStep(t, "total", "free")
                 /\ mem' = [mem EXCEPT !.total = machine.memory % Wrap] /\ UNCHANGED reg

WriteFree(t) == /\ MemoryStep(t, "free", "load")
                /\ mem' = [mem EXCEPT !.free = free % Wrap] /\ UNCHANGED reg

\* _used = _total - _free reads both where they are, whoever wrote them.
LoadUsed(t) == /\ MemoryStep(t, "load", "used")
               /\ reg' = [reg EXCEPT ![t] = <<(mem.total - mem.free) % Wrap>>] /\ UNCHANGED mem

StoreUsed(t) == /\ MemoryStep(t, "used", "idle")
                /\ mem' = [mem EXCEPT !.used = reg[t][1]] /\ reg' = [reg EXCEPT ![t] = <<>>]

shown(u) == [secs |-> u % 60, mins |-> (u \div 60) % 60, hours |-> (u \div 3600) % 24, days |-> u \div 86400]

\* strUptime(): made once from what uptime is; another thread may clear it.
StrUptime(t) ==
    /\ infoPc[t] = "idle" /\ str_uptime = {}
    /\ infoPc' = [infoPc EXCEPT ![t] = "string"] /\ reg' = [reg EXCEPT ![t] = <<uptime>>]
    /\ UNCHANGED <<computer, affinity, info, instance, active, reads, raced>>

StrUptimeDone(t) ==
    /\ infoPc[t] = "string" /\ str_uptime' = {shown(reg[t][1])}
    /\ infoPc' = [infoPc EXCEPT ![t] = "idle"] /\ reg' = [reg EXCEPT ![t] = <<>>]
    /\ UNCHANGED <<computer, affinity, info, last_update, cpus, mem, uptime, active, reads, raced>>

\* Half a second: every CPU spends it in one mode, and only the first may be busy.
Loads == {[c \in 1..Count |-> IF c = 1 THEN m ELSE "idle"] : m \in {"user", "idle"}}
Elapse(modes, f) ==
    /\ info.phase = "done" /\ now < MaxTime /\ now' = now + 1 /\ free' = f
    /\ jiffies' = [c \in 1..Count |-> [jiffies[c] EXCEPT ![modes[c]] = @ + 1]]
    /\ UNCHANGED <<machine, affinity, info, instance, active, infoPc, reg, reads, raced>>

InfoNext == \/ \E c \in 1..Count : ReadApicId(c)
            \/ PinTo \/ CountCores
            \/ \E t \in Callers : \/ RefreshCheck(t) \/ RefreshStamp(t) \/ ReadStat(t) \/ update_times(t)
                                  \/ UpdateUptime(t) \/ WriteTotal(t) \/ WriteFree(t) \/ LoadUsed(t) \/ StoreUsed(t)
                                  \/ StrUptime(t) \/ StrUptimeDone(t)
            \/ \E modes \in Loads : Elapse(modes, now % machine.memory)

InfoSpec == InfoInit /\ [][InfoNext]_infoVars

-----------------------------------------------------------------------------
(* The constructor leaves the process where it may run; however the        *)
(* callers interleave, the load of every CPU, and of the average, is what  *)
(* /proc/stat gained between two reads of its line that follow one         *)
(* another; when nobody writes them, and no two callers ever wrote them at *)
(* once, used and free memory make up the total, in the bits there are     *)
(* (callers that overlap can leave the used memory of one beside the free  *)
(* memory of the other); and with one caller the text of the uptime is the *)
(* uptime (SystemInfo.cpp:33, 105-133, 207-228, linux/SystemInfo.cpp:29-47,*)
(* 151-190).                                                               *)
SystemInfoRight ==
    /\ info.phase = "done" => affinity = info.orig /\ info.physical >= 1
    /\ \A l \in Lines : ~cpus[l].mutex =>
        \A m \in Modes : cpus[l].load[m] = reads[l][2][m] - reads[l][1][m]
    /\ (~raced /\ \A t \in Callers : infoPc[t] \notin Updating) => (mem.used + mem.free) % Wrap = mem.total
    /\ Cardinality(active) = 1 => \A s \in str_uptime :
        s.secs + 60 * (s.mins + 60 * (s.hours + 24 * s.days)) = uptime
=============================================================================
