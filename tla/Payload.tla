-------------------------------- MODULE Payload --------------------------------
(***************************************************************************)
(* What becomes of a deployment's data: from the form of the command line, *)
(* or the request of another HTTP client, over the template to the row and *)
(* the command, from the command to the container, and from the row to the *)
(* edit form and back.                                                     *)
(*                                                                         *)
(* A text field is the sequence of its comma separated parts, each empty,  *)
(* unreadable, or what it is read as.  Names and images are only copied    *)
(* and left out.  Integers of the memory limit lie in -Half .. Half - 1,   *)
(* for 2^63; G and M are their units, for 2^30 and 2^20.                   *)
(***************************************************************************)
EXTENDS Integers, Sequences, SequencesExt, FiniteSets

CONSTANTS Ports,      \* numbers that are typed as ports
          ValidPorts, \* those that network.ParsePort takes
          Keys, Values,
          Cut,        \* the parts as which an entry of an environment is read
                      \* back: not the entry, if its value has a comma or has
                      \* spaces at its end
          Templates,  \* records of ports, env and memory
          Limits,     \* memory limits: None, or a number and a unit
          MaxParts,   \* bounds the parts of a field
          Half, G, M,
          Blank, Junk, \* a part that is empty, one that cannot be read
          None

NoEnv == [k \in Keys |-> None]
Pairs == Ports \X Ports                  \* host port, container port
PortPart == Pairs \union {Blank, Junk}
Plain == {e \in Keys \X Values : Cut[e] = <<e>>}
EnvPart == Plain \union {Blank, Junk}
Texts(part) == UNION {[1 .. n -> part] : n \in 0 .. MaxParts}

ASSUME PayloadAssumption ==
  /\ Ports \subseteq Int /\ ValidPorts \subseteq Ports
  /\ None \notin Values \union Templates /\ Half \in Nat \ {0} /\ MaxParts \in Nat
  /\ Blank \notin Pairs \union (Keys \X Values) /\ IsFiniteSet(Keys)
  /\ Cut \in [Keys \X Values -> Seq(EnvPart)]
  /\ Limits \subseteq ({None} \union [num : Int \union {Junk}, unit : {1, M, G}])
  /\ \A t \in Templates : /\ t.ports \in Seq(Ports) /\ t.memory \in Limits
                          /\ t.env \in [Keys -> Values \union {None}]

VARIABLES stage,   \* how far the deployment is
          req,     \* the DeployRequest
          row,     \* the row of the deployment
          payload, \* the CreatePayload
          cont,    \* the container that was made
          edit,    \* the fields of the edit form
          touched  \* history: the user has changed a field since it was opened

vars == <<stage, req, row, payload, cont, edit, touched>>

NoRequest == [tpl |-> None, ports |-> <<>>, env |-> NoEnv, memory |-> None]
NoRow == [ports |-> <<>>, env |-> {}]
NoEdit == [ports |-> <<>>, env |-> <<>>]

Init ==
  /\ stage = "form"
  /\ req = NoRequest /\ row = NoRow /\ payload = None /\ cont = None
  /\ edit = NoEdit /\ touched = FALSE

-----------------------------------------------------------------------------
(* Faulty variants, used to show that the properties can fail.             *)

(* The first binding of a container port counts, not the last.             *)
HostForFirst(bindings, c, default) ==
  LET host[n \in 1 .. Len(bindings) + 1] ==
        IF n > Len(bindings) THEN default
        ELSE IF bindings[n][2] = c THEN bindings[n][1] ELSE host[n + 1]
  IN  host[1]

(* The edit form shows a binding as container:host.                        *)
ShownSwapped(b) == <<b[2], b[1]>>

-----------------------------------------------------------------------------
(* The form.                                                               *)

Readable(parts) == ~Contains(parts, Junk)

(* parsePortsString, for a text without an unreadable part; the edit form  *)
(* reads its list of variables by the same loop.                           *)
NotBlank(parts) ==
  LET kept[n \in 0 .. Len(parts)] ==
        IF n = 0 THEN <<>>
        ELSE IF parts[n] = Blank THEN kept[n - 1]
        ELSE Append(kept[n - 1], parts[n])
  IN  kept[Len(parts)]

(* parseEnvString: a part without "=" is passed over, a later key wins.    *)
ParseEnv(parts) ==
  LET env[n \in 0 .. Len(parts)] ==
        IF n = 0 THEN NoEnv
        ELSE IF parts[n] \in {Blank, Junk} THEN env[n - 1]
        ELSE [env[n - 1] EXCEPT ![parts[n][1]] = parts[n][2]]
  IN  env[Len(parts)]

(* buildDeployRequest, for a custom image and for a template, which has a  *)
(* field for the host port of each of its ports.                           *)
SubmitCustom(ports, env) ==
  /\ stage = "form" /\ Readable(ports)
  /\ req' = [NoRequest EXCEPT !.ports = NotBlank(ports), !.env = ParseEnv(env)]
  /\ stage' = "sent"
  /\ UNCHANGED <<row, payload, cont, edit, touched>>

SubmitTemplate(t, fields, env) ==
  /\ stage = "form" /\ Readable(fields)
  /\ req' = [NoRequest EXCEPT !.tpl = t, !.env = ParseEnv(env),
               !.ports = [i \in DOMAIN t.ports |->
                            <<IF fields[i] = Blank THEN t.ports[i] ELSE fields[i], t.ports[i]>>]]
  /\ stage' = "sent"
  /\ UNCHANGED <<row, payload, cont, edit, touched>>

(* Another client of the API may ask for any ports, and for memory.        *)
Post(t, ports, env, memory) ==
  /\ stage = "form"
  /\ req' = [tpl |-> t, ports |-> ports, env |-> env, memory |-> memory]
  /\ stage' = "sent"
  /\ UNCHANGED <<row, payload, cont, edit, touched>>

-----------------------------------------------------------------------------
(* deploy-service.                                                         *)

(* The host port that a request names for a container port.                *)
HostFor(bindings, c, default) ==
  LET host[n \in 0 .. Len(bindings)] ==
        IF n = 0 THEN default
        ELSE IF bindings[n][2] = c THEN bindings[n][1] ELSE host[n - 1]
  IN  host[Len(bindings)]

MergePorts(t, bindings) ==
  IF t # None /\ t.ports # <<>>
  THEN [i \in DOMAIN t.ports |-> <<HostFor(bindings, t.ports[i], t.ports[i]), t.ports[i]>>]
  ELSE bindings

MergeEnv(defaults, overrides) ==
  [k \in Keys |-> IF overrides[k] # None THEN overrides[k] ELSE defaults[k]]

MergeMemory(t, asked) == IF asked # None THEN asked ELSE IF t # None THEN t.memory ELSE None

Entries(env) == {<<k, env[k]>> : k \in {j \in Keys : env[j] # None}}

Merged ==
  [ports  |-> MergePorts(req.tpl, req.ports),
   env    |-> MergeEnv(IF req.tpl # None THEN req.tpl.env ELSE NoEnv, req.env),
   memory |-> MergeMemory(req.tpl, req.memory)]

(* The row and the command are made of the same payload.  The row has the  *)
(* environment in no order; its volumes stay empty.                        *)
Create ==
  /\ stage = "sent"
  /\ payload' = Merged
  /\ row' = [ports |-> payload'.ports, env |-> Entries(payload'.env)]
  /\ stage' = "saved"
  /\ UNCHANGED <<req, cont, edit, touched>>

-----------------------------------------------------------------------------
(* The agent.                                                              *)

Wrap(n) == ((n + Half) % (2 * Half)) - Half

(* parseMemory: what cannot be read is no limit, the product wraps.        *)
ParseMemory(m) ==
  IF m = None \/ m.num = Junk \/ m.num # Wrap(m.num) THEN 0 ELSE Wrap(m.num * m.unit)

(* handleCreate, which passes over a port that is none.  Left out are CPU, *)
(* volumes and the protocol of a port.                                     *)
Container(p) ==
  [ports  |-> [c \in ValidPorts |-> HostFor(p.ports, c, None)],
   env    |-> p.env,
   memory |-> ParseMemory(p.memory)]

HandleCreate ==
  /\ stage = "saved" /\ payload # None /\ cont = None
  /\ cont' = Container(payload)
  /\ UNCHANGED <<stage, req, row, payload, edit, touched>>

-----------------------------------------------------------------------------
(* The edit form.                                                          *)

Shown(b) == <<b[1], b[2]>>

(* The entries joined by commas, and cut there again by whoever reads them. *)
Joined(entries) ==
  LET text[n \in 0 .. Len(entries)] ==
        IF n = 0 THEN <<>>
        ELSE text[n - 1] \o (IF entries[n] = Junk THEN <<Junk>> ELSE Cut[entries[n]])
  IN  text[Len(entries)]

Opened == [ports |-> [i \in DOMAIN row.ports |-> Shown(row.ports[i])],
           env   |-> Joined(SetToSeq(row.env))]

(* The form is filled from the row; nothing of the request is read again.  *)
OpenEdit ==
  /\ stage = "saved"
  /\ edit' = Opened
  /\ stage' = "edit" /\ touched' = FALSE
  /\ req' = NoRequest /\ payload' = None /\ cont' = None
  /\ UNCHANGED row

(* One field is changed per opening of the form, which bounds the states;  *)
(* the fields do not depend on each other.                                 *)
TypePorts(text) ==
  /\ stage = "edit" /\ ~touched
  /\ edit' = [edit EXCEPT !.ports = text] /\ touched' = TRUE
  /\ UNCHANGED <<stage, req, row, payload, cont>>

TypeEnv(text) ==
  /\ stage = "edit" /\ ~touched
  /\ edit' = [edit EXCEPT !.env = text] /\ touched' = TRUE
  /\ UNCHANGED <<stage, req, row, payload, cont>>

(* buildUpdateRequest and Update.  An empty list is not sent at all        *)
(* (omitempty), and leaves its column as it is.  A part of the environment *)
(* without "=" is kept.  The container is not told.  This is a PATCH that   *)
(* reaches deploy-service; the gateway answers it with 405 (see Screens).  *)
Save ==
  /\ stage = "edit" /\ Readable(edit.ports)
  /\ LET ports == NotBlank(edit.ports)
         env   == ToSet(NotBlank(edit.env))
     IN  row' = [ports |-> IF ports = <<>> THEN row.ports ELSE ports,
                 env   |-> IF env = {} THEN row.env ELSE env]
  /\ stage' = "saved"
  /\ UNCHANGED <<req, payload, cont, edit, touched>>

Ask ==
  \/ \E ports \in Texts(PortPart), env \in Texts(EnvPart) : SubmitCustom(ports, env)
  \/ \E t \in Templates, env \in Texts(EnvPart) :
       \E fields \in [DOMAIN t.ports -> Ports \union {Blank, Junk}] :
         SubmitTemplate(t, fields, env)
  \/ \E t \in Templates \union {None}, ports \in Texts(Pairs),
        env \in [Keys -> Values \union {None}], memory \in Limits :
       Post(t, ports, env, memory)

Next ==
  \/ stage = "form" /\ Ask
  \/ Create \/ HandleCreate \/ OpenEdit \/ Save
  \/ stage = "edit" /\ \E text \in Texts(PortPart) : TypePorts(text)
  \/ stage = "edit" /\ \E text \in Texts(EnvPart) : TypeEnv(text)

Spec == Init /\ [][Next]_vars

-----------------------------------------------------------------------------
(* Properties.                                                             *)

(* The host port that the request asks for, by the places of the bindings: *)
(* the last one of the port; a template port that has none is its own.     *)
Asked(c) ==
  LET at == {i \in DOMAIN req.ports : req.ports[i][2] = c}
  IN  IF req.tpl # None /\ req.tpl.ports # <<>> /\ c \notin ToSet(req.tpl.ports) THEN None
      ELSE IF at # {} THEN req.ports[CHOOSE i \in at : \A j \in at : j <= i][1]
      ELSE IF req.tpl # None /\ c \in ToSet(req.tpl.ports) THEN c
      ELSE None

(* The memory limit that was asked for, when a word can hold it.           *)
AskedMemory == IF req.memory # None THEN req.memory
               ELSE IF req.tpl # None THEN req.tpl.memory ELSE None
InWord(n) == n \in -Half .. Half - 1
Holds(m) == m # None /\ m.num # Junk /\ InWord(m.num) /\ InWord(m.num * m.unit)

PortsBound == \A c \in ValidPorts : cont.ports[c] = Asked(c)
EnvMerged ==
  \A k \in Keys : cont.env[k] = IF req.env[k] # None THEN req.env[k]
                                ELSE IF req.tpl # None THEN req.tpl.env[k] ELSE None
MemoryKept == Holds(AskedMemory) => cont.memory = AskedMemory.num * AskedMemory.unit
RowTellsPorts ==
  \A i \in DOMAIN row.ports :
    LET b == row.ports[i]
    IN  b[2] \in ValidPorts =>
          \/ cont.ports[b[2]] = b[1]
          \/ \E j \in DOMAIN row.ports : j > i /\ row.ports[j][2] = b[2]

(* The container is what was asked for: each port of the template, or of   *)
(* the request when the template has none, is bound to the host port asked *)
(* last; the environment of the template with the request's on top; the    *)
(* memory limit, if a word holds it.  And what the row tells about ports   *)
(* is so, but for ports bound twice, until the row is edited.              *)
ContainerAsAsked ==
  cont # None => PortsBound /\ EnvMerged /\ MemoryKept /\ RowTellsPorts

(* Saving the edit form as it was opened changes nothing: formatting and   *)
(* parsing are inverse for every row there can be, those with unreadable   *)
(* entries that an earlier edit has left included.  An entry with a comma  *)
(* in its value, which no form makes, is the exception.                    *)
EditKeepsRow ==
  [][stage = "edit" /\ stage' = "saved" /\ ~touched =>
       /\ row'.ports = row.ports
       /\ row.env \subseteq Plain \union {Junk} => row'.env = row.env]_vars

(* What every step keeps: only a saved deployment has a command, which is  *)
(* the merge of its request and has the ports of its row; the container is *)
(* made of the command.                                                    *)
CommandInv ==
  /\ req.tpl \in Templates \union {None}
  /\ req.ports \in Seq(Pairs) /\ req.env \in [Keys -> Values \union {None}]
  /\ payload # None => /\ stage = "saved" /\ payload = Merged
                       /\ row.ports = payload.ports
  /\ cont # None => payload # None /\ cont = Container(payload)

(* Nothing blank is stored, and a form nobody has touched tells the row.   *)
FormInv ==
  /\ row.ports \in Seq(Pairs) /\ IsFiniteSet(row.env)
  /\ row.env \subseteq ((Keys \X Values) \union {Junk}) \ {Blank}
  /\ edit \in [ports : Seq(PortPart), env : Seq(EnvPart)]
  /\ stage = "edit" /\ ~touched => edit = Opened
=============================================================================
