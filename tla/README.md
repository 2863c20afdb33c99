# TLA+ models of my-deploy

my-deploy installs an agent on a user's machine and runs Docker containers
there on behalf of a command line client. This directory holds TLA+ models of
its core, model-checked with TLC, and proofs of their main properties, checked
with TLAPS.

## The system

| Component | State | Operations |
|---|---|---|
| agent registry, WebSocket handler (`internal/agentSvc/registry.go`, `ws.go`) | the connection of each agent; per connection the waiting calls (`pending`), the progress texts, the log subscriptions | register, unregister, read loop (result, progress, logs, ping) |
| agent-service gRPC (`grpc.go`) | none of its own | SendCommand, StreamLogs, GetProgress, IsConnected, GetAgent |
| agent-service HTTP (`service.go`, `repository.go`) | tables of agents and bootstrap tokens | register or get, issue and exchange a bootstrap token |
| agent (`internal/agent/client.go`, `handler.go`) | the connection, one goroutine per command | dial with backoff, execute create / start / stop / remove / inspect / logs |
| deploy-service (`internal/deploySvc`) | table of deployments, `cmdMap`, one goroutine per create | create, get, list, update, delete, start, stop |
| migration (`internal/shared/db`) | the schema of each service's database | executed at every start of a service |
| auth-service | table of users, JWTs | sign up, sign in |
| template-service | templates read at start | list, get |
| gateway | none | JWT check, reverse proxies, WebSocket proxy, install script |
| CLI and TUI (`internal/cli`, `cmd/cli`) | form and list state, stored token | deploy form with polling, deployment list, logs, login |
| daemon (`internal/daemon`) | pid file, log file, local configuration | start, stop, status |

The CLI speaks HTTP to the gateway, the gateway to the services. deploy-service
calls agent-service over gRPC; agent-service passes commands to an agent over
the WebSocket that the agent dialed, and the agent's results and progress come
back on it. The services share no memory; inside agent-service the goroutines
of handlers and calls share an `AgentConn` under its mutex, and they meet at Go
channels outside it.

The hard behaviours are: a connection that is replaced while its handler still
runs; results that race their caller's timeout; goroutines that look something
up under a lock and use it after; processes that restart with empty memory while
the other side goes on; log chunks that outrun their reader; the statements of a
background create interleaved with requests on the same row; migrations that are
executed again.

What makes each part correct:

- *link*: a caller gets the outcome of its own command; a command that is
  refused never runs and no command runs twice; the read loop never hangs; no
  entry leaks; every call returns; a connected agent can be found.
- *log streaming*: order, no leaked subscription, losses only where the bounded
  channel or the late subscription explain them; the read loop survives.
- *deploy-service*: tasks and workers agree; a row names a container that
  exists; rows and containers agree at rest; deleted rows stay deleted.
- *migration*: the schema grows in file order; a clean start has all of it.
- *accounts and bootstrap tokens*: an email is one user, a machine of a user is
  one agent, a token that was answered admits nobody else, and a token is not
  lost without an answer or a fault.
- *tunnel* (agent, gateway's proxy, agent-service on one connection): one writer
  at a time, nobody waits for ever, messages arrive in order and all of them,
  and the end of a part is the end of all.
- *daemon and configuration*: the configuration names an agent of its user;
  every agent process can be found and stopped.
- *screens*: a form creates no second deployment silently, an action goes to the
  row under the cursor, a menu that takes keys is drawn unless something failed
  or was deleted, polling ends unless it is never answered or the deployment is
  stuck.
- *payload*: the container is what was asked for; the edit form loses nothing.

PROJECT.json lists every hazard at its line with the properties that cover it.

## Modules

| Module | Models | Extends / instantiates |
|---|---|---|
| `CommandPort` | what `AgentInternal.SendCommand` promises its caller (abstract) | |
| `AgentLink` | registry, WebSocket handler, SendCommand, agent connection | instantiates `CommandPort` with a refinement mapping |
| `LogStream` | StreamLogs, log subscriptions, the agent's handleLogs | |
| `Wire` | two directions of a connection that loses nothing while it is open (abstract) | |
| `Tunnel` | the goroutines of one connection: agent, WSProxy, agent-service | instantiates `Wire` with a refinement mapping |
| `DeployService` | deployments, workers, requests, containers, over `CommandPort` | instantiates `CommandPort` |
| `Migrate` | migration at service start | |
| `Accounts` | sign-up, sign-in, agent registration, bootstrap tokens | |
| `Session` | main's loop, sign-in, agent and home screens, configuration, pid file | |
| `Screens` | deploy form, list, actions, edit and log screens against the table | |
| `Payload` | form, template and request to row, command, container, and the edit form | |
| `AgentLinkProofs`, `LogStreamProofs`, `TunnelProofs`, `DeployServiceProofs`, `AccountsProofs`, `SessionProofs`, `ScreensProofs` | theorems | the module of the name, TLAPS |
| `DataProofs` | theorems about the data at both ends, the schema and the payload | `Migrate`, `Payload`, TLAPS |
| `MCAgentLink`, `MCDeployService`, `MCAccounts`, `MCSession`, `MCScreens`, `MCPayload` | instances for TLC | |

`DeployService` uses of the link only `CommandPort`, and `AgentLink` is shown to
implement it (`ImplementsPort`): together they cover a command from the HTTP
request to the container and back.

### AgentLink

One action is one section under a lock, one channel operation or one message.
`Dial`, `Register`, `ReadError`, `Unregister`, `CloseConn` are the life of a
connection in `HandleAgentWS`; `HandleProgress`, `LookupResult`, `DeliverResult`
its read loop (HandleResult is two steps because it sends after it has
unlocked); `Lookup` to `RemovePending` are the steps of a SendCommand call;
`ClientRead` to `SendResult` the agent. A connection is two queues and its two
ends. `Break` is a network failure that neither side is told of: what is written
later is lost, what had arrived can still be read. A write into such a
connection may succeed or fail. `AgentCrash` and `ServerCrash` stop a process at
any point; both start again.

Left out: payloads and texts (an outcome is "ok" or "fail"), pings, the write
lock (a write does not wait), the length of timeouts and of the backoff.

### LogStream

Several streams on one connection. `Call` starts the command before
`Subscribe`, as `StreamLogs` does. `LookupChunk` and `SendChunk` (or
`SendPanics`) are the two halves of HandleLogChunk; `Unsubscribe` and
`CloseChannel` those of UnsubscribeLogs. A chunk is its position. `Cap` is the
capacity of the channel, 100 in the code; `Lines` bounds an agent's output.

### DeployService

`Insert` to `ClearTask` are Create and its goroutine, one action per SQL
statement; `Read`, `SendVerb`, `GetAnswer`, `WriteRow` are the requests, which
act on the row they have read. Update's columns other than the agent do not
occur, nor does the payload of a create. Containers change by `MakeContainer`,
`RunCreate`, `RunVerb`: a create can fail between making and starting its
container, and a command whose call has given up can still be executed.
`Faults` says whether statements may fail and deploy-service may crash;
`Patient` names the requests whose clients wait for what is under way. The
failure of the INSERT itself ends a Create before it has any effect and is left
out. A row that is gone makes the handlers dereference nil; net/http recovers,
and the request ends as an error.

### Migrate

A file is its place in the sorted directory and is applied in one transaction.
`Idempotent` are the files that may be executed again (`002` of `migrations/agent`).
A process keeps the image it was started with; `Release` adds a file to the next.
The specification is `MigrateSpec`, since `DataProofs` has it beside that of
`Payload`.

### Accounts

The requests of auth-service and agent-service, an action per SQL statement
(`GetUser`, `InsertUser`, `InsertToken`, `GetToken`, `GetAgent`, `InsertAgent`,
`Mark`) between an arrival and `Reply`. A statement commits by itself; only the
UNIQUE columns (`AddUser`, `AddAgent`) order two requests. `Fail`, `CommitLost`
and `ReplyLost` end a request before a statement, after its effect, or before
its answer arrives. `Kinds` says which requests may come under each number.

### Wire and Tunnel

`Tunnel` is one connection from its upgrade to its end. The agent's writers
(`Lock`, `WriteAgent`, `WriteAgentFails`) hold the mutex of `connect`; `ReadAgent`
and `Receive` are its reader and the unbuffered `msgCh`; `UpRead` ... `DownClose`
are the two loops of WSProxy; `Read`, `Handle`, `Pong`, `SendCommand` and
`WriteCommand` share the end of agent-service, the pong without the lock
(`Clash` is the panic of the WebSocket library that may follow). A pipe holds
`Cap` messages, so a write may wait for the reader beyond. `Faults` lists the
faults that may come together: the agent is stopped, its connection is replaced,
one of the two connections is cut. `Wire` says that what arrives in a direction
is what was sent, in order, and all of it while the connection is open;
`ImplementsWire` is the refinement. `Hung` is the one way in which the goroutines
can wait for each other: main of a stopping agent wants the mutex, or room, for
its close message and no longer takes what its reader hands over, while both
pipes between agent and gateway are full.

### Session

The loop of `cmd/cli/main.go` and the screens that write the configuration, one
action per handled message. Starting an agent is `Check`, `Start`, `WritePid`,
stopping it `Stop`, `RemovePid`. A process that ended is a zombie while the CLI
that started it lives, and still looks alive to `isProcessAlive`; later another
program can have its pid (`Reuse`). `slipped` and `crossed` are histories that
name the excuses of the two properties. A CLI that is killed, or quits, is `Close`;
the panic of main with no configuration (main.go:59) is `Launch` with `End`. A
registration makes `NewAgent`, any agent that there is not yet. `AgentsTracked`
says that one agent process exists at most and that the pid file finds it.

### Screens

A key or the answer of a command is an action; keys are taken while a command is
in flight, as bubbletea does. `cmds` holds the commands in flight of a screen.
Start, Stop and Delete run inside the message loop (`Manage`). Behind the
requests the table changes in one step; DeployService has the statements. A verb
that is answered with an error may have been carried out, or only up to the row
(`Halfway`), and one that the agent failed is taken for done (`Becomes`). The
inspect of a container that is gone answers with an empty status, then and ever
after ("gone"). `err` is the error of the list's model: a failed reload or verb
sets it and only leaving the screen clears it. View then draws the error alone
(`MenuDrawn`), while the keys, as in the code, act on the rows and the menu
behind it.
The gateway routes no PATCH, so the answer to an edit is always an error
(`DeployUpdate`), and `/ws/logs/` is proxied to a service without that route
(`Logs`, `LogLine`).

### Payload

`SubmitCustom`, `SubmitTemplate` and `Post` are the three ways to a
DeployRequest, `Create` merges it with the template (`Merged`) into the row and
the command, `HandleCreate` makes the container (`Container`), `OpenEdit`,
`TypePorts`, `TypeEnv` and `Save` are the edit form, which opens as `Opened`. A
text field is the sequence of its parts. `Cut` gives the parts as which the form
reads an entry of the environment back: the entry itself, unless its value has a
comma, which a template or another client can give it, but no form. The words of
a memory limit are -`Half` .. `Half` - 1, and `ParseMemory` wraps as the code's
multiplication does. The loops of the code are recursive functions; the
reference definitions (`Asked`, `Holds`) are written over positions and integers
instead.

## Runs

| Run | Instance | Shows |
|---|---|---|
| `link_calls` | 1 agent, 1 connection, 2 commands, one a create | answers are genuine, the read loop never blocks, `pending` is exact, refinement of `CommandPort`, every call returns, dead connections are cleaned up |
| `link_reconnect` | 2 agents, 3 processes, 2 connections, 1 create | the registry names no dead handler, an entry is lost only to its own agent's handlers, progress is neither stale nor goes back |
| `link_registry` | 1 agent, 2 connections | violation: a late Unregister removes the new connection |
| `logs_full` | 2 streams, up to 3 lines and Done, capacity 2 | order, gaps, subscriptions, panics only after an abandoned stream, Done ends the call |
| `tunnel` | 1 command, 3 pings, pipes of 1 message, a cut, or a stop and a replacement | one writer at a time but for the pong, a wire while open, no writer waits for ever, ends together unless the agent hangs |
| `migrate_restart` | 3 files, the second repeatable, 2 processes | files in order, clean means complete |
| `deploy_races` | 1 deployment, stop + delete + update, 2 agents, all faults | `cmdMap` exact, bound rows have containers, deleted rows stay deleted |
| `deploy_settles` | 1 deployment, patient start, stop, delete and an impatient delete, no faults | status and container agree at rest, no orphan, no deployment stays pending |
| `accounts` | 5 requests, 2 emails, 2 machines, 2 faults | one user per email, one agent per machine, tokens spent with a reason and closed once answered |
| `session` | 2 CLIs, 2 users, 2 agents, 2 pids | the configuration's agent is its user's, agent processes are tracked |
| `screens` | one CLI deploys, one lists; 2 rows, 2 faults | one command in flight, no silent duplicate, a menu acts on the row under the cursor and is hidden only with a cause, polling ends unless hung or stuck |
| `payload` | 2 ports and an invalid one, 2 variables, 3 values of which one has a comma, 2 templates, fields of 2 parts, words of 8 bits | the container is as asked, an unchanged edit keeps the row |

Why the bounds are enough. *Link*: an interference is between two calls on a
connection, or between two connections of an agent, and a third takes part only
as one of them does; a command id is used once, so a third command meets the
same states. A connection is dialed once: two are an old one and the one that
replaces it. *Logs*: streams meet in the one read loop, which looks up one chunk
at a time, so two suffice for it; capacity 2 with four chunks fills the channel,
drops in the middle and goes on. *Tunnel*: with pipes of one message every pipe
fills; a command, the ping loop and main are three writers on the agent's mutex.
Three pings and two faults are what it takes for an agent to hang (`Hung`) on a
connection that has failed elsewhere; that no more commands, longer pipes or
other faults add another way to get stuck is the theorem `TunnelNeverStuck`.
*Deployments* share nothing but tables keyed by id, hence one. *Accounts*:
`MCKinds` lets a user sign up first and enrolments come last, so that three
enrolments of one token or machine can overlap; the theorems have no such bound.
*Session*: the constraint `Bounded` cuts states in which both properties have
already given up, and, while an agent process or its pid is about, the agent
screens stay simple (one agent, no list, a valid token); what those screens do
with two agents is explored without processes. CLIs, users and pids are
symmetric, and no liveness is checked there. *Screens*: `Menu` gives each CLI
its screens, since two CLIs on one menu differ only in the rows they see; two
rows are enough to reorder and to shorten a list; failed requests, restarts and
containers that end are the faults, of which two let a failed reload meet a
failed verb or a lost answer a lost worker. *Payload*: one field is changed
per opening of the edit form (the fields do not meet), and 8 bits, with a G of
16, have the products that fit, the first that does not, and the edges of the
type. Deadlock is not checked: every instance has finitely many connections,
commands and requests, or users who may stop, and ends when they are used up.

A violation run states what a comment, a document or a message of the code says
and TLC's trace shows the code doing something else; PROJECT.json quotes the
lines under "findings".

Other disagreements met while modelling, each a step of a model and an exception
that a property names:

- A full log channel drops the newest chunk, not the oldest, though
  registry.go:81 speaks of the last 100 (`SendChunk`).
- A chunk that is handled while its subscriber leaves is sent on a closed
  channel; the panic ends the connection (`SendPanics`,
  `PanicNeedsAbandonedStream`).
- A file added to `migrations/` is not applied to a database that has the first
  one, which is executed again and fails (`Conflict`), against README.md:132.
- The status "deploying" is never stored, so GetByID's progress is never shown
  and `cmdMap` never read (`Insert`); Start and Stop ignore an answer that says
  the command failed (`GetAnswer`).
- The gateway answers every PATCH with 405 although deploy-service has the
  route, and every log dial fails (`DeployUpdate`, `LogLine`).
- An edit changes the row, never the container; a field that was emptied is not
  sent and cannot be cleared (`Save`); the row never gets the volumes. A value
  with a comma comes out of an unchanged form in pieces (`Joined`).
- A memory limit in a unit that parseMemory does not know is no limit.
- The shutdown of an agent that main.go:56 calls graceful can hang for ever
  (`Hung`): with full pipes main waits for its own writers, they for the gateway,
  the gateway for the agent's reader, and the reader for main. Then the far end
  of the tunnel does not end either (`EndsTogether`).
- Polling never ends for a create that a restart forgot, for a container that has
  exited or was removed while its row is there (`Stuck`), or when a request is
  never answered, since NewAPIClient sets no timeout (`Hung` of `Screens`).
- An error of the list is never cleared (deploy_list.go:103, 163): the screen
  shows it with "esc: back" and nothing else, while enter, up and down act on the
  rows and the menu behind it, Delete among them (`MenuDrawn`, `MenuOnCursor`).
- Enter past the end of a reloaded list panics (`CrashNeedsDelete`).
- Leaving the agent screen starts an agent without a token; choosing another
  agent does not restart the one that runs; Enter before the list has come
  registers the machine twice, each time under a new random machine id.

### Fairness

*AgentLink*: the handlers' goroutines run (`ServerStep`), SendCommand's
goroutine runs, and its timer fires (`context.WithTimeout`, five minutes).
Reading from a connection that is dead fails in the end: Go enables TCP
keepalive on accepted connections. Nothing is assumed of the agents, of the
network or of clients. *LogStream*: only the goroutine of StreamLogs is fair.
*Tunnel*: each goroutine of the agent, of the proxy and of the handler goes on
while it can; nothing makes a ping, a command, a signal or a failure happen.
*Screens*: a tick comes, for it is a timer, and deploy-service's worker finishes.
No answer of a request is owed: the HTTP client has no timeout (api.go:52-56) and
its requests no context, so `PollEnds` names a poll in flight for ever (`Hung`) as
a way in which polling does not end. No key is ever owed either.
*DeployService*: the worker's goroutine runs, and a call returns, which is
`CallsReturn` of the link.

## Proofs

The theorems hold for any number of agents, processes, connections, commands,
files, streams, deployments, users and requests. They assume no more than the
named assumptions of the constants: that the models' markers are none of the
things they stand beside (`None` is no connection, chunk, deployment or row;
`CmdsAssumption`: a command has none of the names that `Tunnel` gives to other
messages), that a channel, a pipe and a list have at least one place
(`LogAssumption`, `BoundsAssumption`, `BoundAssumption`), and the shape of the
sets; for `Payload`, besides, that a word has at least one bit and that the
names of variables are finitely many, without which an environment has no text
(`PayloadAssumption`).

Every safety property of the runs is stated by a theorem (of `ImplementsWire`,
the safety half). TLC checked each inductive invariant on a small instance
before it was proved.

- *Answers of the link.* `ResultsGenuine` and `HandlerNeverBlocks` are not
  inductive: a result in a queue could be a forged or a second one. `AnswersInv`
  says that a command is in one place (unwritten, on the way, at the agent, its
  result in a queue, with the handler, in the caller's channel, returned, or
  lost) and that what is carried is its own outcome. `AnswersInvariant` shows
  that each action moves it to the next place or loses it; `GenuineResults` and
  `ReadLoopNeverBlocks` follow, and so does `LinkImplementsPort`, where each
  action maps to a step of `CommandPort` or to a stutter.
- *The registry.* `NoPendingLeak` is inductive with types. `EntriesHaveHandlers`
  needs that a connection with a handler was dialed (`EntryInv`).
  `EntryLostByUnregister` speaks of live connections, which its invariant may
  not: `HeldInv` asks only for an open server end, which is what a registration
  takes from the connection that it replaces. So a handler that serves an open
  end has the entry, or another handler of its agent has deleted it.
- *Progress.* `NoStaleProgress` and `ProgressOnlyForward` could both be broken by
  a message in a queue. `ProgressInv` says that the messages of a command are
  all on the connection that brought it (`QueueInv`), the reports in ascending
  order, ahead of what is shown, no further than the goroutine has come, and the
  result last; that what is shown was reported there (`ShownInv`); and that a
  finished command has on a live connection its result under way, or nothing
  at all (`FinishInv`), which fails once the connection is dead.
- *Log streaming.* `SubscriptionsEnd` is inductive with types. `ClientInOrder`
  follows the chunks of a stream from the agent through the connection and the
  handler's hand into the channel and to the client: each is behind the ones
  that are further on (`OrderInv`), none is beyond what was read from the log
  (`SentInv`), and a call ends with its last chunk or an error (`EndInv`). A call that
  ended with the last chunk has none left that could be sent on its closed
  channel: hence `OnlyAbandonedPanics`. For `GapsNeedFullChannel`: while fewer than
  `Cap` chunks have come for the client the channel has room, so what came and
  what is under way have no gap between them (`WholeInv`); hence the first `Cap`
  of what the client got have none (`TightInv`).
- *Migration.* `IInv`: the files before the one that is due are applied. It is
  kept under the steps of other processes since files are never taken away.
- *The payload.* Both properties are about loops over fields and lists of any
  length. The recursive functions that stand for the loops are shown to have the
  values their bodies say (`LoopRuns`), and what a loop computes is shown by its
  first failure: of the lengths at which a claim fails there is a least one
  (`LeastNatural`, from the well-founded order of the naturals), which is not 0 and
  whose predecessor does not fail (`SetInduction`). So the loop that looks for the
  host port finds the last binding of a container port (`HostForLast`), the loops
  of the forms lose no part that is not blank (`NotBlankKeeps`), and joining the
  entries of an environment keeps each of them that can be read back
  (`JoinedKeeps`); `WrapKeeps` says that a product within a word is not changed.
  The invariants then only carry this along: `CommandInv`, that the command is
  the merge of its request and has the ports of its row and that the container is
  made of it, gives `ContainerIsAsked`; `FormInv`, that nothing blank is ever
  stored and that a form nobody has touched tells the row, gives `UntouchedEdit`.
- *deploy-service.* `TasksExact`, `BoundRowsAreCreated`, `DeletedStaysDeleted`:
  the second needs `CreateInv`, by which the answer of a create, once given,
  does not change, and a container that was made is never unmade.
  `StatusIsTrue` and `NoContainerLost` speak of deployments at rest, which no
  step starts from, so the invariant says what is true on the way there.
  `Clean` is the orderliness so far; a use that was not orderly never becomes so
  (`CleanBefore`), and while it is `OrderInv` says how far the row and the
  container have come at each step of the worker or of the one request that is
  active, from `Created` through `Serves` to `Rest` or `Gone`. `CallsInv` ties
  requests to their commands: one that was not sent has not run.
- *Accounts.* `OneAgent` and `OneIdentity` say that answers agree. They need that
  an answer names a row with what its request asked for (`AnswersNameRows`) and
  that a user and machine, or an email, have one row (`UniqueRows`); rows never
  change. `ClosedOnceAnswered` needs that an answered exchange has spent its
  token (`AnsweredSpent`), `SpentWithReason` that each request is at a step of
  its kind (`InPlace`).
- *The tunnel.* `TunnelIsWire` is the safety half of `ImplementsWire`: the initial
  states and every step map to those of `Wire`. The wire's counts are those of
  what was written and received, so the invariant has to follow what is between:
  `UpInv` and `DownInv` say that the numbers in the first pipe, in the hands of
  the proxy's loop and in the second pipe follow on from what was received, up to
  what was written unless a close message ends the direction. `OneWriterAtATime`
  needs `OnceInv` (a command is in one place on its way at most, and no goroutine
  works for it before it arrived) and `MutexInv` (who holds a mutex is at the step
  under it, and nobody else is). `TunnelNeverStuck` is what the liveness of the
  tunnel rests on: in every reachable state in which somebody waits or has not
  yet followed a failure, the guard of some goroutine's step holds, unless `Hung`.
  It needs, beside `MutexInv`, what a goroutine that has ended leaves behind
  (`EndInv`): a loop of the proxy that is gone is either behind a connection that
  is over or has left a close message in the pipe. The proof goes around the
  circle: nobody writes towards the agent, so agent-service reads, so the other
  loop writes, so the agent's writers have room.
- *The command line.* `NoAgentLost` needs `TrackInv`: one CLI at most is between
  its test or kill and its end; before a start and after a kill there is no agent
  process, after a start there is that one. `AgentIsTheUsers` needs `UserInv`: not
  only the agent of the configuration but also the list that a screen asked for
  or shows and the registrations it has in flight are the user's. Both rest on
  the shape of the screens (`Shape`): a CLI elsewhere has no agent screen, and
  the remote mode never reaches a start.
- *The screens.* The three properties need one another's help: `ScreensInv` is, for
  each CLI, that what is in flight follows from the screen and its loading flag
  (`Pends`, which is `OneAnswerAwaited`), that the form's count is its errors'
  (`Counts`), that an answer in flight and the screen report what is in the table
  (`Reports`), that it takes a deletion for the cursor to be past the end of the
  list (`Lists`), that a menu has the row under it (`Selects`) and that an error
  of the list has a cause, a fault or a deletion (`Blames`: a verb that is offered
  is refused only of a row that was deleted, since a row that was shown running or
  exited has a container, and `Grows`: a cause stays one). What other CLIs do in between disturbs none of it,
  since no step takes back an identity, a container that started or a deletion
  (`Kept`).

Only model-checked: the liveness properties, and with them the fairness half of
`ImplementsWire`; for the tunnel, that some goroutine can always go on is proved,
that each of them gets its turn is not. Liveness and ENABLED are beyond the prover.

## Not modelled, and the plan

Not modelled: generated protobuf code, charts, Dockerfiles, application
templates, the configuration that an agent started with a token and a URL saves
for itself (cmd/agent/main.go:24-29), the text of the install script, the services' configuration, layout
and input widgets of the TUI, the formatting of requests, and the requests that
only read, except where a model uses their answer. Of the agent's redialling the
length of the backoff, which is never reset (client.go:43), has no model.

Nothing else is planned that the prover could reach: what is left to TLC is
named under Proofs.
