--------------------------- MODULE DockerMonitor ----------------------------
(***************************************************************************)
(* The monitor page's backend (backend/internal/ops/docker_monitor.go):    *)
(* requests that run beside each other, each in its own goroutine, share   *)
(* a cache of directory sizes and ask the Docker daemon for its containers. *)
(*                                                                         *)
(* A request checks the cache under a lock, walks the directories without  *)
(* it, and stores what it found under the lock again: two requests may     *)
(* walk at the same time, and the one that started first may store last.   *)
(* A request whose client goes away has its walk cut short, and stores it. *)
(*                                                                         *)
(* A size is abstracted to the time it was measured; the Docker daemon is  *)
(* what the requests see of it: running containers with two counters.      *)
(***************************************************************************)
EXTENDS Integers, FiniteSets

CONSTANTS
  Requests,  (* requests to the monitor                                     *)
  Dirs,      (* directories under the data path                             *)
  TTL,       (* runtimeDirUsageCacheTTL                                     *)
  Cpus,      (* online CPUs                                                 *)
  Word,      (* a counter's values are 0..Word-1 (2^64)                     *)
  MaxTime    (* bound: the clock                                            *)

(* A positive duration, at least one CPU, counters of a fixed width.       *)
ASSUME MonitorAssumption ==
  TTL \in Nat \ {0} /\ Cpus \in Nat \ {0} /\ Word \in Nat \ {0} /\ MaxTime \in Nat

VARIABLES
  clock,      (* now                                                        *)
  cache,      (* dirCache                                                   *)
  request,    (* the requests                                               *)
  used,       (* total_usage of the container                               *)
  restarts    (* history: restarts of the container                         *)

daemonVars == <<used, restarts>>
monitorVars == <<clock, cache, request, daemonVars>>

NoSample == [used |-> 0, ticks |-> 0, restarts |-> 0]
systemTicks == Cpus * clock  (* system_cpu_usage *)
NewRequest ==
  [stage |-> "new", now |-> 0, todo |-> {}, dirs |-> {}, cancelled |-> FALSE,
   pre |-> NoSample, percent |-> 0, restarted |-> FALSE]

(* Nothing is cached: the zero time has passed.                            *)
MonitorInit ==
  /\ clock = 0
  /\ cache = [expiresAt |-> 0, dirs |-> {}]
  /\ request = [r \in Requests |-> NewRequest]
  /\ used = 0 /\ restarts = 0

(* Time passes: the container is idle, or uses all of the CPUs.            *)
Tick ==
  /\ clock < MaxTime
  /\ clock' = clock + 1
  /\ \E share \in {0, Cpus} : used' = (used + share) % Word
  /\ UNCHANGED <<cache, request, restarts>>

(* The container is restarted and counts from zero.                        *)
RestartContainer ==
  /\ restarts = 0
  /\ restarts' = restarts + 1
  /\ used' = 0
  /\ UNCHANGED <<clock, cache, request>>

-----------------------------------------------------------------------------
(* The client goes away during the walk: the request's context is          *)
(* cancelled, but the request goes on.  (Later the only effect is that the *)
(* daemon's answers are errors, which they may be anyway.)                 *)
Cancel(r) ==
  /\ request[r].stage = "scanning" /\ ~request[r].cancelled
  /\ request' = [request EXCEPT ![r].cancelled = TRUE]
  /\ UNCHANGED <<clock, cache, daemonVars>>

(* runtimeDirUsage: what is cached is used until it expires.               *)
CheckCache(r) ==
  /\ request[r].stage = "new"
  /\ request' =
       IF clock < cache.expiresAt
       THEN [request EXCEPT ![r].stage = "totals", ![r].now = clock, ![r].dirs = cache.dirs]
       ELSE [request EXCEPT ![r].stage = "scanning", ![r].now = clock, ![r].todo = Dirs]
  /\ UNCHANGED <<clock, cache, daemonVars>>

(* directoryDiskUsage: the walk of a directory, or an error instead of     *)
(* what is left of it when the context is cancelled.                       *)
Scan(r) ==
  /\ request[r].stage = "scanning"
  /\ \E d \in request[r].todo :
       request' = [request EXCEPT
         ![r].todo = @ \ {d},
         ![r].dirs = @ \union {[dir |-> d, at |-> clock, error |-> request[r].cancelled]}]
  /\ UNCHANGED <<clock, cache, daemonVars>>

(* Mutant, for FreshWithinTTL: the entry expires TTL after it was stored.  *)
ExpiresAtAfterStore(r) == clock + TTL

ExpiresAt(r) == request[r].now + TTL

StoreDirs(r) ==
  /\ request[r].stage = "scanning" /\ request[r].todo = {}
  /\ cache' = [expiresAt |-> ExpiresAt(r), dirs |-> request[r].dirs]
  /\ request' = [request EXCEPT ![r].stage = "totals", ![r].cancelled = FALSE]
  /\ UNCHANGED <<clock, daemonVars>>

(* Snapshot: the directories are added up, then the containers listed;     *)
(* without a list (or with Docker monitoring disabled) the answer ends     *)
(* there.                                                                  *)
ListContainers(r) ==
  /\ request[r].stage = "totals"
  /\ \E stage \in {"listed", "answered"} :
       request' = [request EXCEPT ![r].stage = stage]
  /\ UNCHANGED <<clock, cache, daemonVars>>

(* The daemon takes two samples of the container's counters.               *)
SampleBefore(r) ==
  /\ request[r].stage = "listed"
  /\ request' = [request EXCEPT
       ![r].stage = "sampling",
       ![r].pre = [used |-> used, ticks |-> systemTicks, restarts |-> restarts]]
  /\ UNCHANGED <<clock, cache, daemonVars>>

(* applyStats, on uint64.  Mutant, for CpuWithinHost: the difference is    *)
(* taken the other way round.                                              *)
DeltaReversed(before, after) == (before - after) % Word
Delta(before, after) == (after - before) % Word

Percent(pre, usedNow, ticksNow) ==
  LET cpuDelta == Delta(pre.used, usedNow)
      systemDelta == ticksNow - pre.ticks
  IN  IF systemDelta > 0 /\ cpuDelta > 0 THEN (100 * cpuDelta * Cpus) \div systemDelta ELSE 0

(* containerStats; an error leaves the container's metric at zero.         *)
SampleAfter(r) ==
  /\ request[r].stage = "sampling"
  /\ \E percent \in {0, Percent(request[r].pre, used, systemTicks)} :
       request' = [request EXCEPT ![r].stage = "df", ![r].percent = percent,
                                  ![r].pre = NoSample,
                                  ![r].restarted = request[r].pre.restarts # restarts]
  /\ UNCHANGED <<clock, cache, daemonVars>>

(* systemDF: the disk usage is there or not; then the answer is sent.      *)
SystemDF(r) ==
  /\ request[r].stage = "df"
  /\ request' = [request EXCEPT ![r].stage = "answered"]
  /\ UNCHANGED <<clock, cache, daemonVars>>

-----------------------------------------------------------------------------
Serve(r) ==
  \/ CheckCache(r) \/ Scan(r) \/ StoreDirs(r) \/ ListContainers(r)
  \/ SampleBefore(r) \/ SampleAfter(r) \/ SystemDF(r) \/ Cancel(r)

MonitorNext == Tick \/ RestartContainer \/ \E r \in Requests : Serve(r)

MonitorSpec == MonitorInit /\ [][MonitorNext]_monitorVars

-----------------------------------------------------------------------------
(* Whatever the overlap of walks and stores, what a request shows of a     *)
(* directory was measured less than TTL before the request began: the size *)
(* of a walk that took long, and the error that a cancelled request left   *)
(* in the cache for everyone.                                              *)
FreshWithinTTL ==
  \A r \in Requests : \A d \in request[r].dirs : request[r].now < d.at + TTL

(* A container is shown with more than the host's CPUs only if it was      *)
(* restarted between the two samples: the unsigned difference of the       *)
(* counters is then close to 2^64.                                         *)
CpuWithinHost ==
  \A r \in Requests : request[r].percent > 100 * Cpus => request[r].restarted
=============================================================================
