------------------------ MODULE DockerMonitorProofs -------------------------
(***************************************************************************)
(* Proofs that no request shows a directory size older than TTL, and that  *)
(* a container is shown with more than the host's CPUs only after a        *)
(* restart, for any number of requests and directories and any             *)
(* interleaving of walks, stores, samples and cancellations.               *)
(***************************************************************************)
EXTENDS DockerMonitor, TLAPS

Measured == [dir : Dirs, at : Nat, error : BOOLEAN]
Sample == [used : Nat, ticks : Nat, restarts : Nat]
Stages == {"new", "scanning", "totals", "listed", "sampling", "df", "answered"}
RequestType ==
  [stage : Stages, now : Nat, todo : SUBSET Dirs, dirs : SUBSET Measured,
   cancelled : BOOLEAN, pre : Sample, percent : Int, restarted : BOOLEAN]

MonitorType ==
  /\ clock \in Nat /\ used \in Nat /\ restarts \in Nat
  /\ cache \in [expiresAt : Nat, dirs : SUBSET Measured]
  /\ request \in [Requests -> RequestType]

(* What is in the cache was measured no earlier than TTL before it         *)
(* expires.                                                                *)
CacheInv == \A d \in cache.dirs : cache.expiresAt <= d.at + TTL

(* A walk measures after its request began, and a request that has not     *)
(* begun has measured nothing.                                             *)
WalkInv ==
  \A r \in Requests :
    /\ request[r].now <= clock
    /\ request[r].stage = "new" => request[r].dirs = {}
    /\ request[r].stage = "scanning" => \A d \in request[r].dirs : request[r].now <= d.at

MonitorInv == MonitorType /\ CacheInv /\ WalkInv /\ FreshWithinTTL

-----------------------------------------------------------------------------
(* The shown percentage is a number: the difference of two counters is     *)
(* taken modulo their width, and divided by time that has passed.          *)
LEMMA PercentIsNumber ==
  ASSUME NEW pre \in Sample, NEW u \in Nat, NEW t \in Nat
  PROVE  Percent(pre, u, t) \in Int
<1>1. Delta(pre.used, u) \in Int
  BY MonitorAssumption DEF Delta, Sample
<1>2. t - pre.ticks \in Int
  BY DEF Sample
<1>3. ASSUME NEW a \in Int, NEW b \in Int, b > 0 PROVE (100 * a * Cpus) \div b \in Int
  BY <1>3, MonitorAssumption
<1> QED
  BY <1>1, <1>2, <1>3 DEF Percent

(* A step that leaves the cache and the other requests alone preserves the *)
(* invariant if the request it changes is as the invariant says.           *)
LEMMA OneRequest ==
  ASSUME MonitorInv, NEW r \in Requests, UNCHANGED <<clock, cache, daemonVars>>,
         request' = [request EXCEPT ![r] = request'[r]],
         request'[r] \in RequestType,
         request'[r].now <= clock,
         request'[r].stage # "new",
         request'[r].stage = "scanning" => \A d \in request'[r].dirs : request'[r].now <= d.at,
         \A d \in request'[r].dirs : request'[r].now < d.at + TTL
  PROVE  MonitorInv'
<1>1. MonitorType'
  BY DEF MonitorInv, MonitorType, daemonVars
<1>2. CacheInv'
  BY DEF MonitorInv, CacheInv
<1>3. \A q \in Requests : q # r => request'[q] = request[q]
  BY DEF MonitorInv, MonitorType
<1>4. WalkInv'
  BY <1>3 DEF MonitorInv, WalkInv
<1>5. FreshWithinTTL'
  BY <1>3 DEF MonitorInv, FreshWithinTTL
<1> QED
  BY <1>1, <1>2, <1>4, <1>5 DEF MonitorInv

(* Nothing has been measured when the monitor starts.                      *)
LEMMA MonitorStart ==
  ASSUME MonitorInit PROVE MonitorInv
<1>1. MonitorType
  BY DEF MonitorInit, MonitorType, RequestType, NewRequest, NoSample, Stages, Sample
<1>2. CacheInv /\ WalkInv /\ FreshWithinTTL
  BY DEF MonitorInit, CacheInv, WalkInv, FreshWithinTTL, NewRequest
<1> QED
  BY <1>1, <1>2 DEF MonitorInv

(* Each step of a request preserves the invariant: what it takes from the  *)
(* cache has not expired, what it measures it measures now, and what it    *)
(* stores expires TTL after it began.                                      *)
LEMMA ServePreserves ==
  ASSUME MonitorInv, NEW r \in Requests, Serve(r)
  PROVE  MonitorInv'
<1> USE MonitorAssumption
<1>0. /\ request[r] \in RequestType
      /\ clock \in Nat /\ used \in Nat /\ restarts \in Nat
      /\ request \in [Requests -> RequestType]
  BY DEF MonitorInv, MonitorType
<1>f. /\ request[r].now <= clock
      /\ request[r].stage = "scanning" => \A d \in request[r].dirs : request[r].now <= d.at
      /\ \A d \in request[r].dirs : request[r].now < d.at + TTL
  BY DEF MonitorInv, WalkInv, FreshWithinTTL
<1>1. CASE CheckCache(r)
  <2>0. UNCHANGED <<clock, cache, daemonVars>>
    BY <1>1 DEF CheckCache
  <2>1. CASE clock < cache.expiresAt
    <3>1. \A d \in cache.dirs : clock < d.at + TTL
      BY <2>1, <1>0 DEF MonitorInv, MonitorType, CacheInv, Measured
    <3>2. cache.dirs \in SUBSET Measured
      BY DEF MonitorInv, MonitorType
    <3>3. /\ request'[r].dirs = cache.dirs
          /\ request'[r].stage = "totals" /\ request'[r].now = clock
          /\ request' = [request EXCEPT ![r] = request'[r]]
          /\ request'[r] \in RequestType
      BY <1>0, <1>1, <2>1, <3>2 DEF CheckCache, Stages, RequestType
    <3> QED
      BY <1>0, <2>0, <3>1, <3>3, OneRequest
  <2>2. CASE ~(clock < cache.expiresAt)
    <3>1. request[r].dirs = {}
      BY <1>1 DEF CheckCache, MonitorInv, WalkInv
    <3>2. /\ request'[r].dirs = {}
          /\ request'[r].stage = "scanning" /\ request'[r].now = clock
          /\ request' = [request EXCEPT ![r] = request'[r]]
          /\ request'[r] \in RequestType
      BY <1>0, <1>1, <2>2, <3>1 DEF CheckCache, Stages, RequestType
    <3> QED
      BY <1>0, <2>0, <3>2, OneRequest
  <2> QED
    BY <2>1, <2>2
<1>2. CASE Scan(r)
  <2>1. PICK d \in request[r].todo :
          request' = [request EXCEPT
            ![r].todo = @ \ {d},
            ![r].dirs = @ \union {[dir |-> d, at |-> clock, error |-> request[r].cancelled]}]
    BY <1>2 DEF Scan
  <2>2. [dir |-> d, at |-> clock, error |-> request[r].cancelled] \in Measured
    BY <1>0 DEF Measured, RequestType
  <2>3. /\ request'[r].dirs =
             request[r].dirs \union {[dir |-> d, at |-> clock, error |-> request[r].cancelled]}
        /\ request'[r].stage = "scanning" /\ request'[r].now = request[r].now
        /\ request' = [request EXCEPT ![r] = request'[r]]
        /\ request'[r] \in RequestType
    BY <1>0, <1>2, <2>1, <2>2 DEF Scan, RequestType
  <2>4. \A e \in request'[r].dirs : request'[r].now <= e.at /\ request'[r].now < e.at + TTL
    BY <1>0, <1>2, <1>f, <2>3 DEF Scan, Measured, RequestType
  <2> QED
    BY <1>0, <1>2, <1>f, <2>3, <2>4, OneRequest DEF Scan, daemonVars
<1>3. CASE StoreDirs(r)
  <2>1. /\ request' \in [Requests -> RequestType]
        /\ request'[r].dirs = request[r].dirs /\ request'[r].now = request[r].now
        /\ request'[r].stage = "totals"
    BY <1>0, <1>3 DEF StoreDirs, RequestType, Stages
  <2>5. MonitorType'
    <3>1. cache' \in [expiresAt : Nat, dirs : SUBSET Measured]
      BY <1>0, <1>3, MonitorAssumption DEF StoreDirs, ExpiresAt, RequestType
    <3> QED
      BY <1>0, <1>3, <2>1, <3>1 DEF StoreDirs, MonitorType, daemonVars
  <2>2. CacheInv'
    BY <1>0, <1>3, <1>f DEF StoreDirs, ExpiresAt, CacheInv, Measured, RequestType
  <2>3. \A q \in Requests : q # r => request'[q] = request[q]
    BY <1>0, <1>3 DEF StoreDirs
  <2>4. WalkInv' /\ FreshWithinTTL'
    BY <1>3, <1>f, <2>1, <2>3 DEF MonitorInv, StoreDirs, WalkInv, FreshWithinTTL
  <2> QED
    BY <2>2, <2>4, <2>5 DEF MonitorInv
<1>4. CASE Cancel(r)
  BY <1>0, <1>4, <1>f, OneRequest DEF Cancel, Stages, RequestType, daemonVars
<1>5. CASE ListContainers(r)
  <2>1. PICK stage \in {"listed", "answered"} : request' = [request EXCEPT ![r].stage = stage]
    BY <1>5 DEF ListContainers
  <2> QED
    BY <1>0, <1>5, <1>f, <2>1, OneRequest DEF ListContainers, Stages, RequestType, daemonVars
<1>6. CASE SampleBefore(r)
  <2>1. [used |-> used, ticks |-> systemTicks, restarts |-> restarts] \in Sample
    BY <1>0 DEF Sample, systemTicks
  <2> QED
    BY <1>0, <1>6, <1>f, <2>1, OneRequest DEF SampleBefore, Stages, RequestType, daemonVars
<1>7. CASE SampleAfter(r)
  <2>1. PICK p \in {0, Percent(request[r].pre, used, systemTicks)} :
          request' = [request EXCEPT ![r].stage = "df", ![r].percent = p,
                                     ![r].pre = NoSample,
                                     ![r].restarted = request[r].pre.restarts # restarts]
    BY <1>7 DEF SampleAfter
  <2>2. p \in Int
    BY <1>0, PercentIsNumber DEF systemTicks, RequestType
  <2>3. NoSample \in Sample
    BY DEF NoSample, Sample
  <2>4. /\ request' = [request EXCEPT ![r] = request'[r]]
        /\ request'[r] = [request[r] EXCEPT !.stage = "df", !.percent = p, !.pre = NoSample,
                                            !.restarted = request[r].pre.restarts # restarts]
        /\ request[r] \in RequestType
    BY <1>0, <2>1
  <2>5. /\ request'[r] \in RequestType /\ request'[r].stage = "df"
        /\ request'[r].dirs = request[r].dirs /\ request'[r].now = request[r].now
    <3> DEFINE old == request[r]
               new == request'[r]
    <3>1. /\ old \in RequestType
          /\ new = [old EXCEPT !.stage = "df", !.percent = p, !.pre = NoSample,
                               !.restarted = old.pre.restarts # restarts]
      BY <2>4
    <3> HIDE DEF old, new
    <3>2. /\ new \in RequestType /\ new.stage = "df"
          /\ new.dirs = old.dirs /\ new.now = old.now
      BY <2>2, <2>3, <3>1 DEF RequestType, Stages
    <3> QED
      BY <3>2 DEF old, new
  <2>6. UNCHANGED <<clock, cache, daemonVars>>
    BY <1>7 DEF SampleAfter
  <2> QED
    BY <1>0, <1>7, <1>f, <2>4, <2>5, <2>6, OneRequest DEF SampleAfter
<1>8. CASE SystemDF(r)
  BY <1>0, <1>8, <1>f, OneRequest DEF SystemDF, Stages, RequestType, daemonVars
<1> QED
  BY <1>1, <1>2, <1>3, <1>4, <1>5, <1>6, <1>7, <1>8 DEF Serve

(* Time and restarts do not make what is cached expire later.              *)
LEMMA DaemonPreserves ==
  ASSUME MonitorInv, Tick \/ RestartContainer
  PROVE  MonitorInv'
<1>1. clock \in Nat /\ clock' \in Nat /\ clock <= clock' /\ used' \in Nat /\ restarts' \in Nat
  <2>1. \A u \in Nat, share \in {0, Cpus} : (u + share) % Word \in Nat
    BY MonitorAssumption
  <2> QED
    BY <2>1, MonitorAssumption DEF MonitorInv, MonitorType, Tick, RestartContainer
<1>2. UNCHANGED <<cache, request>>
  BY DEF Tick, RestartContainer
<1>3. \A r \in Requests : request[r].now \in Nat
  BY DEF MonitorInv, MonitorType, RequestType
<1> QED
  BY <1>1, <1>2, <1>3 DEF MonitorInv, MonitorType, CacheInv, WalkInv, FreshWithinTTL

(* The invariant holds in every reachable state.                           *)
THEOREM MonitorInvariant == MonitorSpec => []MonitorInv
<1>1. MonitorInit => MonitorInv
  BY MonitorStart
<1>2. MonitorInv /\ [MonitorNext]_monitorVars => MonitorInv'
  <2> SUFFICES ASSUME MonitorInv, [MonitorNext]_monitorVars PROVE MonitorInv'
    OBVIOUS
  <2>1. CASE MonitorNext
    BY <2>1, ServePreserves, DaemonPreserves DEF MonitorNext
  <2>2. CASE UNCHANGED monitorVars
    BY <2>2 DEF monitorVars, daemonVars, MonitorInv, MonitorType, CacheInv, WalkInv, FreshWithinTTL
  <2> QED
    BY <2>1, <2>2
<1> QED
  BY <1>1, <1>2, PTL DEF MonitorSpec

(* No request shows a directory as it was more than TTL before the request *)
(* began (runtimeDirUsage), whichever of several walks stores last.        *)
THEOREM NeverStale == MonitorSpec => []FreshWithinTTL
<1>1. MonitorInv => FreshWithinTTL
  BY DEF MonitorInv
<1> QED
  BY <1>1, MonitorInvariant, PTL

-----------------------------------------------------------------------------
(* A remainder is the one number below the divisor that differs from the   *)
(* dividend by a multiple of it.                                           *)
LEMMA ModIs ==
  ASSUME NEW w \in Nat \ {0}, NEW x \in Int, NEW q \in Int, NEW m \in Int,
         x = q * w + m, 0 <= m, m < w
  PROVE  x % w = m
<1> DEFINE d == x \div w
           e == x % w
<1>1. d \in Int /\ e \in Int /\ x = d * w + e /\ 0 <= e /\ e < w
  BY SMT
<1> HIDE DEF d, e
<1>2. (d - q) * w = m - e
  BY <1>1
<1>3. CASE d - q >= 1
  <2>1. (d - q) * w >= w
    BY <1>1, <1>3
  <2> QED
    BY <1>1, <1>2, <2>1
<1>4. CASE d - q <= -1
  <2>1. (d - q) * w <= -w
    BY <1>1, <1>4
  <2> QED
    BY <1>1, <1>2, <2>1
<1>5. CASE d = q
  <2>1. m = e
    BY <1>1, <1>5
  <2> QED
    BY <2>1 DEF e
<1> QED
  BY <1>1, <1>3, <1>4, <1>5

(* A number is a multiple of the divisor and its remainder.                *)
LEMMA ModParts ==
  ASSUME NEW w \in Nat \ {0}, NEW x \in Int
  PROVE  \E q \in Int : x = q * w + (x % w) /\ x % w \in Int /\ 0 <= x % w /\ x % w < w
<1>1. x \div w \in Int /\ x = (x \div w) * w + (x % w) /\ x % w \in Int /\ 0 <= x % w /\ x % w < w
  BY SMT
<1> QED
  BY <1>1

(* Numbers that differ by a multiple have the same remainder.              *)
LEMMA ModShift ==
  ASSUME NEW w \in Nat \ {0}, NEW x \in Int, NEW y \in Int, NEW k \in Int, y = k * w + x
  PROVE  y % w = x % w
<1>1. PICK q \in Int : x = q * w + (x % w) /\ x % w \in Int /\ 0 <= x % w /\ x % w < w
  BY ModParts
<1> DEFINE m == x % w
<1>2. m \in Int /\ 0 <= m /\ m < w /\ x = q * w + m
  BY <1>1
<1> HIDE DEF m
<1>3. y = (k + q) * w + m
  BY <1>2
<1>4. k + q \in Int
  OBVIOUS
<1>5. y % w = m
  BY <1>2, <1>3, <1>4, ModIs
<1> QED
  BY <1>5 DEF m

(* A remainder is no larger than a dividend that is not negative.          *)
LEMMA ModAtMost ==
  ASSUME NEW w \in Nat \ {0}, NEW x \in Nat
  PROVE  x % w <= x
<1>0. x \in Int
  OBVIOUS
<1>1. PICK q \in Int : x = q * w + (x % w) /\ x % w \in Int /\ 0 <= x % w /\ x % w < w
  BY <1>0, ModParts, Zenon
<1> DEFINE m == x % w
<1>2. m \in Int /\ 0 <= m /\ m < w /\ x = q * w + m
  BY <1>1
<1> HIDE DEF m
<1>3. CASE q >= 0
  <2>1. q * w >= 0
    BY <1>3
  <2>2. m <= x
    BY <1>2, <2>1
  <2> QED
    BY <2>2 DEF m
<1>4. CASE q <= -1
  <2>1. q * w \in Int /\ q * w <= -w
    BY <1>4
  <2>2. q * w + m < 0
    BY <1>2, <2>1
  <2> QED
    BY <1>2, <2>2
<1> QED
  BY <1>2, <1>3, <1>4

(* applyStats: while the container uses s more, the difference of the      *)
(* counters grows by no more than s, also when the counter wraps around.   *)
LEMMA DeltaGrows ==
  ASSUME NEW u \in Nat, NEW p \in Nat, NEW s \in Nat
  PROVE  Delta(p, (u + s) % Word) <= Delta(p, u) + s
<1>0. Word \in Nat \ {0} /\ u + s \in Int /\ u - p \in Int
  BY MonitorAssumption
<1>1. PICK q \in Int : u + s = q * Word + ((u + s) % Word) /\ (u + s) % Word \in Int
  BY <1>0, ModParts, Zenon
<1>2. PICK k \in Int : /\ u - p = k * Word + ((u - p) % Word)
                       /\ (u - p) % Word \in Int /\ 0 <= (u - p) % Word
  BY <1>0, ModParts, Zenon
<1> DEFINE m == (u + s) % Word
           d == (u - p) % Word
<1>3. m \in Int /\ d \in Nat /\ Word \in Nat \ {0} /\ u + s = q * Word + m /\ u - p = k * Word + d
  BY <1>0, <1>1, <1>2
<1> HIDE DEF m, d
<1>4. m - p = (k - q) * Word + (d + s)
  BY <1>3
<1>5. (m - p) % Word = (d + s) % Word
  <2>1. m - p \in Int /\ d + s \in Int /\ k - q \in Int
    BY <1>3
  <2> QED
    BY <1>3, <1>4, <2>1, ModShift, ZenonT(40)
<1>6. (d + s) % Word <= d + s
  BY <1>3, ModAtMost
<1> QED
  BY <1>5, <1>6 DEF Delta, m, d

(* A quotient is no larger than a factor that bounds the dividend.         *)
LEMMA DivAtMost ==
  ASSUME NEW b \in Nat \ {0}, NEW a \in Int, NEW k \in Int, a <= k * b
  PROVE  a \div b <= k
<1> DEFINE d == a \div b
           e == a % b
<1>1. d \in Int /\ e \in Int /\ a = d * b + e /\ 0 <= e
  BY SMT
<1> HIDE DEF d, e
<1>2. CASE d - k >= 1
  <2>1. (d - k) * b >= b
    BY <1>1, <1>2
  <2>2. (d - k) * b <= 0
    BY <1>1
  <2> QED
    BY <2>1, <2>2
<1>3. d <= k
  BY <1>1, <1>2
<1> QED
  BY <1>3 DEF d

(* Multiplication by a factor that is not negative is monotone.            *)
LEMMA TimesMonotone ==
  ASSUME NEW k \in Nat, NEW a \in Int, NEW b \in Int, a <= b
  PROVE  k * a <= k * b
  OBVIOUS

(* applyStats: a container that used no more than the host had is shown    *)
(* with no more than the host's CPUs.                                      *)
LEMMA PercentWithinHost ==
  ASSUME NEW pre \in Sample, NEW u \in Nat, NEW t \in Nat,
         Delta(pre.used, u) <= t - pre.ticks
  PROVE  Percent(pre, u, t) <= 100 * Cpus
<1> DEFINE c == Delta(pre.used, u)
           s == t - pre.ticks
<1>1. c \in Int /\ s \in Int /\ c <= s /\ Cpus \in Nat
  BY MonitorAssumption DEF Delta, Sample
<1>2. Percent(pre, u, t) = IF s > 0 /\ c > 0 THEN (100 * c * Cpus) \div s ELSE 0
  BY DEF Percent
<1> HIDE DEF c, s
<1>3. CASE s > 0 /\ c > 0
  <2>1. 100 * Cpus \in Nat
    BY <1>1
  <2>2. (100 * Cpus) * c <= (100 * Cpus) * s
    BY <1>1, <2>1, TimesMonotone
  <2>4. 100 * c * Cpus = (100 * Cpus) * c /\ 100 * c * Cpus \in Int
    BY <1>1
  <2>3. (100 * c * Cpus) \div s <= 100 * Cpus
    BY <1>1, <1>3, <2>1, <2>2, <2>4, DivAtMost
  <2> QED
    BY <1>2, <1>3, <2>3
<1>4. CASE ~(s > 0 /\ c > 0)
  BY <1>1, <1>2, <1>4
<1> QED
  BY <1>3, <1>4

-----------------------------------------------------------------------------
(* Since the first sample of a request the container has been restarted,   *)
(* or used no more than the host had.                                      *)
SampleInv ==
  \A r \in Requests :
    LET pre == request[r].pre
    IN  request[r].stage = "sampling" =>
          /\ pre.restarts <= restarts
          /\ pre.restarts = restarts => Delta(pre.used, used) <= systemTicks - pre.ticks

(* Every step preserves it, and the percentage follows from it.            *)
LEMMA CpuPreserved ==
  ASSUME MonitorInv, SampleInv, CpuWithinHost, [MonitorNext]_monitorVars
  PROVE  SampleInv' /\ CpuWithinHost'
<1> USE MonitorAssumption
<1>1. /\ request \in [Requests -> RequestType]
      /\ clock \in Nat /\ used \in Nat /\ restarts \in Nat
  BY DEF MonitorInv, MonitorType
<1>2. CASE Tick
  <2>1. PICK share \in {0, Cpus} : used' = (used + share) % Word
    BY <1>2 DEF Tick
  <2>2. request' = request /\ restarts' = restarts /\ clock' = clock + 1
    BY <1>2 DEF Tick
  <2>3. systemTicks' = systemTicks + Cpus /\ systemTicks \in Int
    BY <1>1, <2>2 DEF systemTicks
  <2>4. SampleInv'
    <3> SUFFICES ASSUME NEW r \in Requests, request[r].stage = "sampling",
                        request[r].pre.restarts = restarts
                 PROVE  Delta(request[r].pre.used, used') <= systemTicks' - request[r].pre.ticks
      BY <2>2 DEF SampleInv
    <3>1. Delta(request[r].pre.used, used) <= systemTicks - request[r].pre.ticks
      BY DEF SampleInv
    <3>2. /\ request[r].pre.used \in Nat /\ request[r].pre.ticks \in Nat
          /\ share \in Nat /\ share <= Cpus
      BY <1>1 DEF RequestType, Sample
    <3>3. Delta(request[r].pre.used, used') <= Delta(request[r].pre.used, used) + share
      BY <1>1, <2>1, <3>2, DeltaGrows
    <3>4. Delta(request[r].pre.used, used) \in Int /\ Delta(request[r].pre.used, used') \in Int
      BY <1>1, <2>1, <3>2 DEF Delta
    <3> QED
      BY <2>3, <3>1, <3>2, <3>3, <3>4
  <2> QED
    BY <2>2, <2>4 DEF CpuWithinHost
<1>3. CASE RestartContainer
  <2>1. request' = request /\ restarts' = restarts + 1
    BY <1>3 DEF RestartContainer
  <2>2. \A r \in Requests : request[r].pre.restarts \in Nat
    BY <1>1 DEF RequestType, Sample
  <2>3. SampleInv'
    BY <1>1, <2>1, <2>2 DEF SampleInv
  <2> QED
    BY <2>1, <2>3 DEF CpuWithinHost
<1>4. ASSUME NEW r \in Requests, SampleBefore(r) PROVE SampleInv' /\ CpuWithinHost'
  <2>1. /\ request' = [request EXCEPT ![r].stage = "sampling",
             ![r].pre = [used |-> used, ticks |-> systemTicks, restarts |-> restarts]]
        /\ UNCHANGED <<used, restarts, clock>> /\ systemTicks' = systemTicks
    BY <1>4 DEF SampleBefore, daemonVars, systemTicks
  <2>2. Delta(used, used) = 0
    BY <1>1, ModIs DEF Delta
  <2>3. systemTicks \in Int
    BY <1>1 DEF systemTicks
  <2>4. SampleInv'
    BY <1>1, <2>1, <2>2, <2>3 DEF SampleInv, RequestType
  <2>5. CpuWithinHost'
    BY <1>1, <2>1 DEF CpuWithinHost, RequestType
  <2> QED
    BY <2>4, <2>5
<1>5. ASSUME NEW r \in Requests, SampleAfter(r) PROVE SampleInv' /\ CpuWithinHost'
  <2>1. PICK percent \in {0, Percent(request[r].pre, used, systemTicks)} :
          request' = [request EXCEPT ![r].stage = "df", ![r].percent = percent,
                                     ![r].pre = NoSample,
                                     ![r].restarted = request[r].pre.restarts # restarts]
    BY <1>5 DEF SampleAfter
  <2>2. /\ UNCHANGED <<used, restarts, clock>> /\ systemTicks' = systemTicks
        /\ request[r].stage = "sampling"
    BY <1>5 DEF SampleAfter, daemonVars, systemTicks
  <2>3. request[r].pre.restarts = restarts => percent <= 100 * Cpus
    <3>1. request[r].pre \in Sample /\ systemTicks \in Nat
      BY <1>1 DEF RequestType, systemTicks
    <3>2. request[r].pre.restarts = restarts =>
            Percent(request[r].pre, used, systemTicks) <= 100 * Cpus
      BY <1>1, <2>2, <3>1, PercentWithinHost DEF SampleInv
    <3> QED
      BY <3>2
  <2>4. SampleInv'
    BY <1>1, <2>1, <2>2 DEF SampleInv, RequestType
  <2>5. percent \in Int
    BY <1>1, <2>1, PercentIsNumber DEF RequestType, systemTicks
  <2>6. CpuWithinHost'
    BY <1>1, <2>1, <2>3, <2>5 DEF CpuWithinHost, RequestType
  <2> QED
    BY <2>4, <2>6
<1>6. ASSUME NEW r \in Requests,
             \/ CheckCache(r) \/ Scan(r) \/ StoreDirs(r)
             \/ ListContainers(r) \/ SystemDF(r) \/ Cancel(r)
      PROVE  SampleInv' /\ CpuWithinHost'
  <2>1. UNCHANGED <<used, restarts, clock>> /\ systemTicks' = systemTicks
    BY <1>6
       DEF CheckCache, Scan, StoreDirs, ListContainers, SystemDF, Cancel, daemonVars, systemTicks
  <2>2. \A q \in Requests :
          /\ request'[q].percent = request[q].percent
          /\ request'[q].restarted = request[q].restarted
          /\ request'[q].pre = request[q].pre
          /\ request'[q].stage = "sampling" => request[q].stage = "sampling"
    <3>1. CASE CheckCache(r) \/ StoreDirs(r) \/ SystemDF(r) \/ Cancel(r)
      BY <1>1, <3>1 DEF CheckCache, StoreDirs, SystemDF, Cancel, RequestType
    <3>2. CASE Scan(r)
      BY <1>1, <3>2 DEF Scan, RequestType
    <3>3. CASE ListContainers(r)
      BY <1>1, <3>3 DEF ListContainers, RequestType
    <3> QED
      BY <1>6, <3>1, <3>2, <3>3
  <2>4. SampleInv'
    BY <2>1, <2>2 DEF SampleInv
  <2>5. CpuWithinHost'
    BY <2>2 DEF CpuWithinHost
  <2> QED
    BY <2>4, <2>5
<1>7. CASE UNCHANGED monitorVars
  BY <1>7 DEF monitorVars, daemonVars, SampleInv, CpuWithinHost, systemTicks
<1> QED
  BY <1>2, <1>3, <1>4, <1>5, <1>6, <1>7 DEF MonitorNext, Serve

(* A container is shown with more than the host's CPUs only if it was      *)
(* restarted between the two samples (containerStats, applyStats),         *)
(* whatever the number of CPUs and the width of the counters, and also     *)
(* when they wrap around.                                                  *)
THEOREM CpuWithinHostUnlessRestarted == MonitorSpec => []CpuWithinHost
<1>1. MonitorInit => SampleInv /\ CpuWithinHost
  BY MonitorAssumption DEF MonitorInit, NewRequest, NoSample, SampleInv, CpuWithinHost
<1>2. MonitorInv /\ SampleInv /\ CpuWithinHost /\ [MonitorNext]_monitorVars
        => (SampleInv /\ CpuWithinHost)'
  BY CpuPreserved
<1> QED
  BY <1>1, <1>2, MonitorInvariant, PTL DEF MonitorSpec
=============================================================================
