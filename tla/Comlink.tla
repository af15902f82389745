------------------------------- MODULE Comlink -------------------------------
(***************************************************************************)
(* The whole bridge: the lws-websocket plugin (LwsWebsocket) together with  *)
(* the two commands it leaves running in the background for each packet     *)
(* that verifies, and the two services they talk to.                        *)
(*                                                                          *)
(* redisClient (redisClient.c) connects, PINGs, SETs the packet under the   *)
(* key of its device and GETs it back.  It looks at no reply: an error goes *)
(* on as if it were an answer, and a server that goes away ends it.  wget   *)
(* (external) posts the packet to the Comlink server; --tries=2 is for      *)
(* servers that do not answer, a refused connection or an error status is   *)
(* final.  Jobs are processes of their own: they run in any order and       *)
(* outlive a crash of lwsws.                                                *)
(*                                                                          *)
(* The plugin puts key and packet into the two command lines without        *)
(* quotes, so what a job is given is what the shell makes of them.          *)
(***************************************************************************)
EXTENDS LwsWebsocket

CONSTANTS
  Word,           \* Word[f]: the argument the shell makes of fragment f, which is f
                  \* itself if it has no blank, else what precedes the first
  Device,         \* Device[f]: the key redisClient is given for fragment f, its
                  \* second field (up to a blank, likewise) and "_PACKET"
  Tries,          \* the --tries of the wget command
  MaxChanges      \* bound: changes of a service's health in one behaviour

ASSUME ComlinkConstants ==
  /\ Tries \in Nat \ {0}
  /\ MaxChanges \in Nat
  /\ \A f \in Fragment : Word[f] # NoReply

VARIABLES
  phase,      \* phase[j]: how far job j of spawned has come
  tried,      \* tried[j]: POSTs a wget job has attempted
  redis,      \* redis[d]: what is stored under the key of device d
  posted,     \* posted[j]: times the Comlink server was given the job's packet
  health,     \* health[x]: how service x answers
  changes,    \* changes of health so far
  troubled    \* history: the jobs whose service was not up all the time they
              \* ran, and the redisClients whose data a restart may have lost

Services == {"redis", "comlink"}

(* A service serves, answers with an error, takes connections but does not   *)
(* answer, or cannot be connected to.                                        *)
Health == {"up", "failing", "silent", "down"}

jobVars == <<phase, tried, redis, posted, health, changes, troubled>>
allVars == <<vars, jobVars>>

Connected == {"connected", "pinged", "set"}
Ended == {"done", "failed"}
Devices == {Device[f] : f \in Fragment}
NothingStored == [d \in Devices |-> NoReply]
ServiceOf(j) == IF j.cmd = "wget" THEN "comlink" ELSE "redis"

CInit ==
  /\ Init
  /\ phase = [j \in {} |-> "started"]
  /\ tried = [j \in {} |-> 0]
  /\ redis = NothingStored
  /\ posted = [j \in {} |-> 0]
  /\ health = [x \in Services |-> "up"]
  /\ changes = 0
  /\ troubled = {}

(* Every step of the plugin; system() starts the new jobs.                   *)
Extended(f, v) == [j \in spawned' |-> IF j \in spawned THEN f[j] ELSE v]

PluginStep ==
  /\ Next
  /\ phase' = Extended(phase, "started")
  /\ tried' = Extended(tried, 0)
  /\ posted' = Extended(posted, 0)
  /\ troubled' = troubled \cup {j \in spawned' \ spawned : health[ServiceOf(j)] # "up"}
  /\ UNCHANGED <<redis, health, changes>>

(* A service gets worse or better (external).  A redis that goes down cuts   *)
(* its connections, and may come back without its data.                      *)
ServiceChange(x, h) ==
  LET stops == x = "redis" /\ h = "down" IN
  /\ changes < MaxChanges
  /\ h # health[x]
  /\ health' = [health EXCEPT ![x] = h]
  /\ changes' = changes + 1
  /\ phase' = [j \in spawned |-> IF stops /\ phase[j] \in Connected THEN "cut" ELSE phase[j]]
  /\ redis' \in {redis} \cup (IF stops THEN {NothingStored} ELSE {})
  /\ troubled' = troubled \cup {j \in spawned : /\ ServiceOf(j) = x
                                               /\ h # "up"
                                               /\ phase[j] \in Ended => stops}
  /\ UNCHANGED <<vars, tried, posted>>

At(j, cmd, p) == j.cmd = cmd /\ phase[j] = p
Go(j, p) == phase' = [phase EXCEPT ![j] = p]

(* redisConnectWithTimeout() succeeds.                                       *)
RedisConnect(j) ==
  /\ At(j, "redisClient", "started")
  /\ health["redis"] # "down"
  /\ Go(j, "connected")
  /\ UNCHANGED <<vars, tried, redis, posted, health, changes, troubled>>

RedisAnswers == health["redis"] \in {"up", "failing"}

(* The PING, whose reply is printed.                                         *)
RedisPing(j) ==
  /\ At(j, "redisClient", "connected")
  /\ RedisAnswers
  /\ Go(j, "pinged")
  /\ UNCHANGED <<vars, tried, redis, posted, health, changes, troubled>>

(* The key: concat(device code, "_PACKET").                                  *)
Key(f) == Device[f]

(* The packet, as it comes out of the unquoted command line.                 *)
Argument(f) == Word[f]

(* SET <device>_PACKET <packet>, and the reply is printed whatever it says.  *)
RedisSet(j) ==
  /\ At(j, "redisClient", "pinged")
  /\ health["redis"] = "up"
  /\ redis' = [redis EXCEPT ![Key(j.frag)] = Argument(j.frag)]
  /\ Go(j, "set")
  /\ UNCHANGED <<vars, tried, posted, health, changes, troubled>>

(* The SET is answered with an error: printed, too, and nothing is stored.   *)
RedisRefuse(j) ==
  /\ At(j, "redisClient", "pinged")
  /\ health["redis"] = "failing"
  /\ Go(j, "set")
  /\ UNCHANGED <<vars, tried, redis, posted, health, changes, troubled>>

(* The GET, whose reply is printed; main() returns 0.                        *)
RedisGet(j) ==
  /\ At(j, "redisClient", "set")
  /\ RedisAnswers
  /\ Go(j, "done")
  /\ UNCHANGED <<vars, tried, redis, posted, health, changes, troubled>>

(* exit(1) when the server cannot be reached in 1.5 s; a NULL reply, which   *)
(* is dereferenced, when it has gone away since.                             *)
RedisLost(j) ==
  /\ j.cmd = "redisClient"
  /\ \/ phase[j] = "cut"
     \/ phase[j] = "started" /\ health["redis"] \in {"silent", "down"}
  /\ Go(j, "failed")
  /\ UNCHANGED <<vars, tried, redis, posted, health, changes, troubled>>

(* Mutant: one try too many. *)
GivesUpLate(n) == n > Tries

GivesUp(n) == n >= Tries

(* One try of wget, in which the packet gets to the server n times.          *)
Try(j, n) ==
  /\ At(j, "wget", "started")
  /\ tried' = [tried EXCEPT ![j] = @ + 1]
  /\ posted' = [posted EXCEPT ![j] = @ + n]
  /\ UNCHANGED <<vars, redis, health, changes, troubled>>

(* wget posts the packet and reads the answer.                               *)
WgetPost(j) == health["comlink"] = "up" /\ Try(j, 1) /\ Go(j, "done")

(* The server's answer is an error: wget does not try again.                 *)
WgetError(j) == health["comlink"] = "failing" /\ Try(j, 1) /\ Go(j, "failed")

(* The connection is refused: without --retry-connrefused, that is final.    *)
WgetRefused(j) == health["comlink"] = "down" /\ Try(j, 0) /\ Go(j, "failed")

(* The connection or the answer times out, before or after the packet got    *)
(* there: wget tries again, or gives up.                                     *)
WgetNoAnswer(j) ==
  /\ health["comlink"] = "silent"
  /\ \E n \in {0, 1} : Try(j, n)
  /\ Go(j, IF GivesUp(tried[j] + 1) THEN "failed" ELSE "started")

JobStep(j) ==
  \/ RedisConnect(j)
  \/ RedisPing(j)
  \/ RedisSet(j)
  \/ RedisRefuse(j)
  \/ RedisGet(j)
  \/ RedisLost(j)
  \/ WgetPost(j)
  \/ WgetError(j)
  \/ WgetRefused(j)
  \/ WgetNoAnswer(j)

CNext ==
  \/ PluginStep
  \/ \E x \in Services, h \in Health : ServiceChange(x, h)
  \/ \E j \in spawned : JobStep(j)

CSpec == CInit /\ [][CNext]_allVars

(* The operating system runs every process it was given.                     *)
CFairSpec ==
  CSpec /\ \A j \in [cmd : Command, boot : 1..MaxBoots, num : 1..MaxSends, frag : CRCValid] :
             WF_allVars(j \in spawned /\ JobStep(j))
-----------------------------------------------------------------------------
(***************************************************************************)
(* What redis holds under the key of a device is what the shell made of a   *)
(* packet of that device whose checksum was right, so a whole one unless    *)
(* that packet had a blank in it: whichever of the jobs running at once     *)
(* came last, wherever lwsws was killed and whatever redis refused or lost. *)
(***************************************************************************)
StoredVerifies ==
  \A d \in Devices :
    redis[d] # NoReply =>
      \E j \in spawned :
        /\ j.cmd = "redisClient" /\ j.frag \in CRCValid
        /\ Device[j.frag] = d /\ Word[j.frag] = redis[d]

(***************************************************************************)
(* What the end of a job says, whatever its service did meanwhile.  A job   *)
(* whose service was up all the time does not fail: past its SET its device *)
(* has a packet stored, and the Comlink server got the packet at most once. *)
(* In trouble, success of wget still means that the packet got there, it    *)
(* gets there at most once per try, and there are at most Tries of them;    *)
(* success of redisClient means nothing (an error reply looks the same).    *)
(***************************************************************************)
Settled ==
  \A j \in spawned :
    /\ posted[j] <= tried[j] /\ tried[j] <= Tries
    /\ (j.cmd = "wget" /\ phase[j] = "done") => posted[j] >= 1
    /\ j \notin troubled =>
         /\ phase[j] # "failed"
         /\ posted[j] <= 1
         /\ (j.cmd = "redisClient" /\ phase[j] \in {"set", "done"})
               => redis[Device[j.frag]] # NoReply

(***************************************************************************)
(* An ACK is kept: the jobs of an acknowledged packet end, and each whose   *)
(* service was up while it ran has delivered, also when lwsws dies right    *)
(* after it wrote the ACK.  redisClient has no timeout on its replies: this *)
(* takes a redis that does not stay silent, or fall silent over and over.   *)
(***************************************************************************)
Acked(b, n) ==
  boot = b /\ \E c \in Conns : \E i \in 1..Len(tx[c]) :
                tx[c][i].num = n /\ tx[c][i].reply.kind = "ACK"

Delivered(j) ==
  /\ phase[j] = "done"
  /\ IF j.cmd = "wget" THEN posted[j] = 1 ELSE redis[Device[j.frag]] # NoReply

Served(b, n, k) ==
  \E j \in spawned :
    /\ j.cmd = k /\ j.boot = b /\ j.num = n
    /\ phase[j] \in Ended
    /\ j \in troubled \/ Delivered(j)

AckIsKept ==
  <>[](health["redis"] # "silent") =>
    \A b \in 1..MaxBoots, n \in 1..MaxSends :
      Acked(b, n) ~> \A k \in Command : Served(b, n, k)
=============================================================================
