----------------------------- MODULE Containers -----------------------------
(***************************************************************************)
(* The container routes (internal/storage/linux.go, internal/api/router.go)*)
(* over the Docker engine, which owns all the state: nasd sends one        *)
(* request or command, and reads the answer.  What the engine does and     *)
(* refuses is modelled from the way the code uses it.  The one algorithm   *)
(* of nasd here is the reading of the log stream, in which the engine      *)
(* interleaves standard output and standard error in frames.               *)
(***************************************************************************)
EXTENDS Integers, Sequences, FiniteSets, SequencesExt

CONSTANTS
  Id,        \* names of containers
  Image,     \* images
  Volume,    \* volumes
  Line,      \* the lines a container may write, sequences of numbers
  MaxLines   \* bound on the log of a container

VARIABLES
  containers,  \* by name: what the engine knows, or None
  images,      \* the images at hand
  volumes,     \* the volumes at hand
  logs,        \* by name: the frames written so far
  shown        \* history: what the last log request showed, and what it had to show

dockerVars == <<containers, images, volumes, logs, shown>>

None == [state |-> "none", image |-> "", volumes |-> {}, tty |-> FALSE, restart |-> "no", mem |-> 0, cpu |-> 0]
Has(i) == containers[i].state # "none"
ImagesUsed == {containers[i].image : i \in {j \in Id : Has(j)}}
VolumesUsed == UNION {containers[i].volumes : i \in {j \in Id : Has(j)}}

\* A line as the engine sends it: with a header of the stream and the length of
\* the text (one number here, four bytes there), or bare from a terminal.
Header == 2
Frame(i, l) == IF containers[i].tty THEN l.text ELSE <<l.stream, Len(l.text)>> \o l.text
-----------------------------------------------------------------------------
DockerInit == /\ containers = [i \in Id |-> None]
              /\ images = {} /\ volumes = {}
              /\ logs = [i \in Id |-> <<>>]
              /\ shown = [got |-> <<>>, due |-> <<>>, tty |-> FALSE]

\* An app's deployment (module AppCatalog) or an administrator's own docker
\* run creates a container, with its volumes.
Run(i, image, vs, tty) ==
  /\ ~Has(i) /\ image \in images
  /\ containers' = [containers EXCEPT ![i] = [None EXCEPT !.state = "running", !.image = image, !.volumes = vs,
                                                 !.tty = tty]]
  /\ volumes' = volumes \cup vs
  /\ logs' = [logs EXCEPT ![i] = <<>>]
  /\ UNCHANGED <<images, shown>>

PullImage(image) == images' = images \cup {image} /\ UNCHANGED <<containers, volumes, logs, shown>>

Change(i, c) == containers' = [containers EXCEPT ![i] = c] /\ UNCHANGED <<images, volumes, logs, shown>>
Become(i, from, to) == containers[i].state \in from /\ Change(i, [containers[i] EXCEPT !.state = to])

StartContainer(i) == Become(i, {"exited"}, "running")
StopContainer(i) == Become(i, {"running", "paused"}, "exited")
PauseContainer(i) == Become(i, {"running"}, "paused")
UnpauseContainer(i) == Become(i, {"paused"}, "running")
RestartContainer(i) == Become(i, {"running", "exited", "paused"}, "running")
RemoveContainer(i) == Has(i) /\ Change(i, None)      \* force=1: a running one too

SetContainerRestartPolicy(i, policy) ==
  /\ policy \in {"no", "always", "unless-stopped", "on-failure"} /\ Has(i)
  /\ Change(i, [containers[i] EXCEPT !.restart = policy])

\* A limit of 0 or less is left as it is.
UpdateContainerLimits(i, mem, cpu) ==
  /\ Has(i)
  /\ Change(i, [containers[i] EXCEPT !.mem = IF mem > 0 THEN mem ELSE @, !.cpu = IF cpu > 0 THEN cpu ELSE @])

\* Without force the engine refuses what a container uses, a stopped one too.
RemoveDockerImage(image) ==
  /\ image \in images \ ImagesUsed
  /\ images' = images \ {image}
  /\ UNCHANGED <<containers, volumes, logs, shown>>

RemoveDockerVolume(v) ==
  /\ v \in volumes \ VolumesUsed
  /\ volumes' = volumes \ {v}
  /\ UNCHANGED <<containers, images, logs, shown>>

\* docker system prune -a: the containers that do not run, then what no
\* container uses any more.
DockerPrune(withVolumes) ==
  LET left == [i \in Id |-> IF containers[i].state \in {"running", "paused"} THEN containers[i] ELSE None]
      alive == {i \in Id : left[i] # None} IN
  /\ containers' = left
  /\ images' = images \cap {left[i].image : i \in alive}
  /\ volumes' = IF withVolumes THEN volumes \cap UNION {left[i].volumes : i \in alive} ELSE volumes
  /\ UNCHANGED <<logs, shown>>

\* docker compose for the project whose containers are ps: up starts, down
\* removes, restart restarts them, pull only fetches the images.
ComposeAction(ps, action) ==
  LET To(s) == [i \in Id |-> IF i \in ps /\ Has(i) THEN [containers[i] EXCEPT !.state = s] ELSE containers[i]] IN
  /\ \A i \in ps : Has(i)
  /\ containers' = CASE action \in {"up", "restart"} -> To("running")
                     [] action = "down" -> [i \in Id |-> IF i \in ps THEN None ELSE containers[i]]
                     [] action = "pull" -> containers
  /\ images' = IF action = "pull" THEN images \cup {containers[i].image : i \in ps} ELSE images
  /\ UNCHANGED <<volumes, logs, shown>>
-----------------------------------------------------------------------------
\* A container writes a line.
Write(i, stream, text) ==
  /\ containers[i].state = "running" /\ Len(logs[i]) < MaxLines
  /\ logs' = [logs EXCEPT ![i] = Append(@, [stream |-> stream, text |-> text])]
  /\ UNCHANGED <<containers, images, volumes, shown>>

\* The payloads of the frames of body; a last one that is too long is cut.
Slippayload(body) ==
  LET P[i \in 1..Len(body) + Header + 1] ==
        IF i + Header - 1 >= Len(body) THEN <<>>
        ELSE LET end == i + Header + body[i + 1] IN
             IF end > Len(body) THEN <<>> ELSE SubSeq(body, i + Header, end - 1) \o P[end]
  IN P[1]

payload(body) ==
  LET P[i \in 1..Len(body) + Header + 1] ==
        IF i + Header - 1 > Len(body) THEN <<>>
        ELSE LET end == i + Header + body[i + 1]
                 last == IF end > Len(body) + 1 THEN Len(body) + 1 ELSE end
             IN SubSeq(body, i + Header, last - 1) \o P[last]
  IN P[1]

\* The engine sends the last n lines.  A body in which no payload is found is
\* shown as it is.
ContainerLogs(i, n) ==
  LET from == IF Len(logs[i]) > n THEN Len(logs[i]) - n + 1 ELSE 1
      lines == SubSeq(logs[i], from, Len(logs[i]))
      body == FlattenSeq([k \in DOMAIN lines |-> Frame(i, lines[k])]) IN
  /\ Has(i)
  /\ shown' = [got |-> IF payload(body) = <<>> THEN body ELSE payload(body),
               due |-> FlattenSeq([k \in DOMAIN lines |-> lines[k].text]), tty |-> containers[i].tty]
  /\ UNCHANGED <<containers, images, volumes, logs>>
-----------------------------------------------------------------------------
\* The handlers, with what they check.
startContainerHandler(i) == StartContainer(i)
stopContainerHandler(i) == StopContainer(i)
removeContainerHandler(i) == RemoveContainer(i)
pauseContainerHandler(i) == PauseContainer(i)
unpauseContainerHandler(i) == UnpauseContainer(i)
restartContainerHandler(i) == RestartContainer(i)
containerLogsHandler(i, lines) == ContainerLogs(i, IF lines = 0 THEN 100 ELSE lines)
pullImageHandler(image) == image # "" /\ PullImage(image)
removeDockerImageHandler(image) == RemoveDockerImage(image)
removeDockerVolumeHandler(v) == RemoveDockerVolume(v)
dockerPruneHandler(withVolumes) == DockerPrune(withVolumes)
setRestartPolicyHandler(i, policy) == policy # "" /\ SetContainerRestartPolicy(i, policy)
updateContainerLimitsHandler(i, mem, cpu) == UpdateContainerLimits(i, mem, cpu)
composeActionHandler(ps, action) == ps # {} /\ ComposeAction(ps, action)

LogNext == \E i \in Id :
  \/ \E image \in images, tty \in BOOLEAN : Run(i, image, {}, tty)
  \/ \E stream \in {1, 2}, text \in Line : Write(i, stream, text)
  \/ \E n \in 0..MaxLines : containerLogsHandler(i, n)
  \/ \E image \in Image : images = {} /\ pullImageHandler(image)

EngineNext ==
  \/ \E i \in Id :
       \/ \E image \in images, vs \in SUBSET Volume : Run(i, image, vs, FALSE)
       \/ startContainerHandler(i) \/ stopContainerHandler(i) \/ removeContainerHandler(i)
       \/ pauseContainerHandler(i) \/ unpauseContainerHandler(i) \/ restartContainerHandler(i)
       \/ setRestartPolicyHandler(i, "always")
       \/ updateContainerLimitsHandler(i, 1, 0) \/ updateContainerLimitsHandler(i, 0, 1)
  \/ \E image \in Image : pullImageHandler(image) \/ removeDockerImageHandler(image)
  \/ \E v \in Volume : removeDockerVolumeHandler(v)
  \/ \E withVolumes \in BOOLEAN : dockerPruneHandler(withVolumes)
  \/ \E ps \in SUBSET Id, action \in {"up", "down", "restart", "pull"} : composeActionHandler(ps, action)

DockerSpec == DockerInit /\ [][LogNext \/ EngineNext]_dockerVars
-----------------------------------------------------------------------------
\* The types of the engine's objects (Containers).
DockerTypeOK ==
  /\ \A i \in Id : containers[i].state \in {"none", "running", "paused", "exited"}
  /\ images \subseteq Image /\ volumes \subseteq Volume

\* Whatever is removed or pruned, in any order: a container's image and its
\* volumes stay as long as the container does (RemoveDockerImage and
\* RemoveDockerVolume never force, DockerPrune takes the containers first).
InUseKept == ImagesUsed \subseteq images /\ VolumesUsed \subseteq volumes

\* The log of a container without a terminal is shown complete and in order,
\* the headers of both streams taken out, whatever bytes the lines are made
\* of (ContainerLogs).
LogsComplete == ~shown.tty => shown.got = shown.due
=============================================================================
