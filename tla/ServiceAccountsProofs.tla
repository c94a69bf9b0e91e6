----------------------- MODULE ServiceAccountsProofs -----------------------
(***************************************************************************)
(* The service accounts of a gateway, for any accounts, members, number of *)
(* concurrent requests, quotas and number of faults: the variables keep    *)
(* their types, a deleted gateway leaves no client, and every behaviour is *)
(* one of the abstract credentials of Credential.                          *)
(***************************************************************************)
EXTENDS ServiceAccounts, TLAPS

(***************************************************************************)
(* The critical section: who holds the lock, and what it may be doing.     *)
(***************************************************************************)

\* The lock holder is the one worker between "lock" and "idle"; only a
\* request has a transaction.
LockInv ==
    /\ \A w \in Workers : lock = w <=> op[w].pc \notin {"idle", "lock"}
    /\ lock \notin Requests => DOMAIN tx = {}

\* The stages of each kind of work, and the arguments they find in memory.
OpInv(o, w) ==
    o.pc # "idle" =>
      /\ o.kind = "sweep" <=> w = Sweep
      /\ o.kind = "cleanup" =>
           o.pc \in {"lock", "wipe", "eraseAll", "finalize", "done"}
      /\ o.kind # "cleanup" =>
           o.a \in Accounts /\ o.pc \notin {"wipe", "eraseAll", "finalize"}
      /\ o.pc \in {"provision", "recheck", "drop", "deliver"}
           => o.kind = "create"
      /\ o.pc = "project" => o.kind \in {"role", "sweep"}
      /\ o.pc = "lock" /\ o.kind = "revoke" => o.to = "revoked"
      /\ o.pc = "disable" =>
           \/ o.kind = "sweep" /\ o.to \in Terminal
           \/ /\ o.kind = "revoke" /\ o.to = "revoked"
              /\ o.acct.status = "revoking"
      /\ o.pc = "settle" =>
           \/ o.kind \in {"create", "revoke", "sweep"} /\ o.to \in Terminal
           \/ o.kind \in {"role", "sweep"} /\ o.to = "ready"

WorkInv == LockInv /\ \A w \in Workers : OpInv(op[w], w)

\* The types of the worker's constants.
LEMMA IdleTypes ==
    /\ Idle \in Op /\ Idle.pc = "idle"
    /\ NoRow \in Row /\ DeletedRow \in Row
    /\ NoClient \in Client
    /\ Sweep \in Workers /\ Requests \subseteq Workers /\ None \notin Workers
    /\ \A tier : AllowedRoles(tier) \subseteq Roles
  BY ConstantsAssumption
     DEF Idle, Op, NoRow, Row, DeletedRow, NoClient, Client, Pcs, Kinds,
         Statuses, Absent, Terminal, Workers, AllowedRoles

\* A step of worker w inside its critical section.
Section(w) ==
    /\ lock' = w
    /\ lock = w \/ (lock = None /\ op[w].pc = "lock")
    /\ op' \in [Workers -> Op]
    /\ op'[w].pc \notin {"idle", "lock"}
    /\ op'[w].kind = op[w].kind /\ op'[w].a = op[w].a
    /\ \A x \in Workers \ {w} : op'[x] = op[x]
    /\ w = Sweep => tx' = tx
    /\ UNCHANGED <<access, gateway, due, aged, orphan>>

\* How a worker's record moves.
LEMMA EndForm ==
    ASSUME TypeOK, NEW w \in Workers, NEW ok \in BOOLEAN, NEW bad \in BOOLEAN,
           End(w, ok, bad)
    PROVE  /\ op' \in [Workers -> Op]
           /\ op'[w].pc = "done" /\ op'[w].ok = ok /\ op'[w].bad = bad
           /\ op'[w].kind = op[w].kind /\ op'[w].a = op[w].a
           /\ \A x \in Workers \ {w} : op'[x] = op[x]
<1>1. op \in [Workers -> Op] /\ op[w] \in Op /\ Idle \in Op
  BY IdleTypes DEF TypeOK
<1> DEFINE o == [Idle EXCEPT !.pc = "done", !.kind = op[w].kind,
                             !.a = op[w].a, !.ok = ok, !.bad = bad]
<1>2. o \in Op /\ o.pc = "done" /\ o.ok = ok /\ o.bad = bad
      /\ o.kind = op[w].kind /\ o.a = op[w].a
  BY <1>1 DEF Op, Pcs
<1>3. op' = [op EXCEPT ![w] = o]
  BY DEF End
<1>4. QED
  BY <1>1, <1>2, <1>3

LEMMA GotoForm ==
    ASSUME TypeOK, NEW w \in Workers, NEW pc \in Pcs, Goto(w, pc)
    PROVE  /\ op' \in [Workers -> Op]
           /\ op'[w].pc = pc /\ op'[w].kind = op[w].kind /\ op'[w].a = op[w].a
           /\ op'[w].to = op[w].to /\ op'[w].acct = op[w].acct
           /\ op'[w].ok = op[w].ok
           /\ \A x \in Workers \ {w} : op'[x] = op[x]
<1>1. op \in [Workers -> Op] /\ op[w] \in Op
  BY DEF TypeOK
<1> DEFINE o == [op[w] EXCEPT !.pc = pc]
<1>2. o \in Op /\ o.pc = pc /\ o.kind = op[w].kind /\ o.a = op[w].a
      /\ o.to = op[w].to /\ o.acct = op[w].acct /\ o.ok = op[w].ok
  BY <1>1 DEF Op
<1>3. op' = [op EXCEPT ![w] = o]
  BY DEF Goto
<1>4. QED
  BY <1>1, <1>2, <1>3

\* A worker's record after the sweep's decision.
Goes(w, pc, r, to, want) ==
    op' = [op EXCEPT ![w].pc = pc, ![w].acct = r, ![w].to = to,
                     ![w].want = want]

LEMMA GoForm ==
    ASSUME TypeOK, NEW w \in Workers, NEW pc \in Pcs, NEW r \in Row,
           NEW to \in Statuses, NEW want \in Roles, Goes(w, pc, r, to, want)
    PROVE  /\ op' \in [Workers -> Op]
           /\ op'[w].pc = pc /\ op'[w].kind = op[w].kind /\ op'[w].a = op[w].a
           /\ op'[w].to = to /\ op'[w].acct = r
           /\ \A x \in Workers \ {w} : op'[x] = op[x]
<1>1. op \in [Workers -> Op] /\ op[w] \in Op
  BY DEF TypeOK
<1> DEFINE o == [op[w] EXCEPT !.pc = pc, !.acct = r, !.to = to, !.want = want]
<1>2. o \in Op /\ o.pc = pc /\ o.kind = op[w].kind /\ o.a = op[w].a
      /\ o.to = to /\ o.acct = r
  BY <1>1 DEF Op
<1>3. op'[w] = o /\ DOMAIN op' = Workers
      /\ \A x \in Workers \ {w} : op'[x] = op[x]
  BY <1>1 DEF Goes
<1>4. op' \in [Workers -> Op]
  BY <1>1, <1>2, <1>3 DEF Goes
<1>5. QED
  BY <1>2, <1>3, <1>4

LEMMA ProceedForm ==
    ASSUME TypeOK, NEW w \in Workers, NEW pc \in Pcs, NEW r \in Row,
           Proceed(w, pc, r)
    PROVE  /\ op' \in [Workers -> Op]
           /\ op'[w].pc = pc /\ op'[w].kind = op[w].kind /\ op'[w].a = op[w].a
           /\ pc # "done" => op'[w].to = op[w].to /\ op'[w].acct = r
           /\ pc = "done" => ~op'[w].ok
           /\ \A x \in Workers \ {w} : op'[x] = op[x]
<1>1. CASE pc = "done"
  BY <1>1, EndForm DEF Proceed, Done
<1>2. CASE pc # "done"
  <2>1. op[w] \in Op /\ op \in [Workers -> Op]
    BY DEF TypeOK
  <2> DEFINE o == [op[w] EXCEPT !.pc = pc, !.acct = r]
  <2>2. o \in Op /\ o.pc = pc /\ o.kind = op[w].kind /\ o.a = op[w].a
        /\ o.to = op[w].to /\ o.acct = r
    BY <2>1 DEF Op
  <2>3. op' = [op EXCEPT ![w].pc = pc, ![w].acct = r]
    BY <1>2 DEF Proceed
  <2>4. op'[w] = o /\ DOMAIN op' = Workers
        /\ \A x \in Workers \ {w} : op'[x] = op[x]
    BY <2>1, <2>3
  <2>5. op' \in [Workers -> Op]
    BY <2>1, <2>2, <2>3, <2>4
  <2>6. QED
    BY <1>2, <2>2, <2>4, <2>5
<1>3. QED
  BY <1>1, <1>2

\* A request's write goes to its transaction, the sweep's to the rows.
LEMMA SaveForm ==
    ASSUME TypeOK, NEW w \in Workers, NEW a \in Accounts, NEW r \in Row,
           Save(w, a, r)
    PROVE  /\ row' \in [Accounts -> Row]
           /\ DOMAIN tx' \subseteq Accounts /\ \A b \in DOMAIN tx' : tx'[b] \in Row
           /\ \/ /\ w # Sweep /\ row' = row
                 /\ DOMAIN tx' = DOMAIN tx \cup {a} /\ tx'[a] = r
                 /\ \A b \in DOMAIN tx \ {a} : tx'[b] = tx[b]
              \/ w = Sweep /\ tx' = tx /\ row' = [row EXCEPT ![a] = r]
<1>1. CASE w = Sweep
  BY <1>1 DEF Save, InTx, TypeOK
<1>2. CASE w # Sweep
  <2>1. /\ row' = row
        /\ tx' = [b \in DOMAIN tx \cup {a} |-> IF b = a THEN r ELSE tx[b]]
    BY <1>2 DEF Save, InTx
  <2>2. /\ DOMAIN tx' = DOMAIN tx \cup {a} /\ tx'[a] = r
        /\ \A b \in DOMAIN tx \ {a} : tx'[b] = tx[b]
    BY <2>1
  <2>3. QED
    BY <1>2, <2>1, <2>2 DEF TypeOK
<1>3. QED
  BY <1>1, <1>2

\* The write of Store leaves the account alone when a sweep finds another
\* status than it observed.
LEMMA StoreForm ==
    ASSUME TypeOK, NEW w \in Workers, op[w].a \in Accounts, NEW r \in Row,
           Store(w, r)
    PROVE  /\ row' \in [Accounts -> Row]
           /\ DOMAIN tx' \subseteq Accounts /\ \A b \in DOMAIN tx' : tx'[b] \in Row
           /\ \/ UNCHANGED <<row, tx>>
              \/ /\ w # Sweep /\ row' = row
                 /\ DOMAIN tx' = DOMAIN tx \cup {op[w].a} /\ tx'[op[w].a] = r
                 /\ \A b \in DOMAIN tx \ {op[w].a} : tx'[b] = tx[b]
              \/ w = Sweep /\ tx' = tx /\ row' = [row EXCEPT ![op[w].a] = r]
<1>1. CASE w = Sweep
  BY <1>1 DEF Store, ConditionalUpdate, TypeOK
<1>2. CASE w # Sweep
  BY <1>2, SaveForm DEF Store
<1>3. QED
  BY <1>1, <1>2

\* Every outcome of a call to Keycloak is a client.
LEMMA ClientTypes ==
    ASSUME TypeOK, NEW a \in Accounts
    PROVE  /\ client[a] \in Client /\ NoClient \in Client
           /\ Disabled(a) \in Client /\ DeleteOutcomes(a) \subseteq Client
           /\ \A uuid : /\ WoundDown(a, uuid) \in Client
                        /\ WindDownOutcomes(a, uuid) \subseteq Client
           /\ \A role \in Roles : RepairOutcomes(a, role) \subseteq Client
<1>1. client[a] \in Client /\ NoClient \in Client
  BY IdleTypes DEF TypeOK
<1>2. Disabled(a) \in Client
  BY <1>1 DEF Disabled, InState, Client
<1>3. DeleteOutcomes(a) \subseteq Client
  BY <1>1, <1>2 DEF DeleteOutcomes
<1>4. \A uuid : /\ WoundDown(a, uuid) \in Client
                /\ WindDownOutcomes(a, uuid) \subseteq Client
  BY <1>1, <1>2, <1>3 DEF WoundDown, WindDownOutcomes
<1>5. ASSUME NEW role \in Roles, NEW c \in RepairOutcomes(a, role)
      PROVE  c \in Client
  BY <1>1, <1>5 DEF RepairOutcomes, Client
<1>6. QED
  BY <1>1, <1>2, <1>3, <1>4, <1>5

\* A patched row is a row.
LEMMA RowTypes ==
    ASSUME NEW r \in Row
    PROVE  /\ \A st \in Statuses : [r EXCEPT !.status = st] \in Row
           /\ \A st \in Statuses :
                [r EXCEPT !.status = st, !.uuid = TRUE] \in Row
           /\ [r EXCEPT !.uuid = TRUE] \in Row
           /\ \A role \in Roles : [r EXCEPT !.role = role] \in Row
  BY DEF Row

(***************************************************************************)
(* The steps of the critical section.  Each has a lemma: the types,        *)
(* the section, and what the worker knows afterwards.                      *)
(***************************************************************************)

Sectioned(w) == TypeOK' /\ Section(w) /\ OpInv(op'[w], w)

\* How a worker ends, and how many faults there have been.
LEMMA DoneForm ==
    ASSUME TypeOK, NEW w \in Workers, Done(w) \/ Fail(w)
    PROVE  /\ op' \in [Workers -> Op] /\ op'[w].pc = "done" /\ ~op'[w].ok
           /\ op'[w].kind = op[w].kind /\ op'[w].a = op[w].a
           /\ \A x \in Workers \ {w} : op'[x] = op[x]
<1>1. InTx(w) \in BOOLEAN
  BY DEF InTx
<1>2. QED
  BY <1>1, EndForm DEF Done, Fail

LEMMA FaultForm ==
    ASSUME TypeOK, Fault \/ NoFault
    PROVE  faults' \in 0 .. MaxFaults
  BY ConstantsAssumption DEF Fault, NoFault, TypeOK

\* What the parts of a step under the lock add up to.
LEMMA SectionForm ==
    ASSUME TypeOK, NEW w \in Workers,
           lock' = w, lock = w \/ (lock = None /\ op[w].pc = "lock"),
           row' \in [Accounts -> Row], DOMAIN tx' \subseteq Accounts,
           \A b \in DOMAIN tx' : tx'[b] \in Row,
           w = Sweep => tx' = tx,
           client' \in [Accounts -> Client], faults' \in 0 .. MaxFaults,
           op' \in [Workers -> Op], op'[w].pc \notin {"idle", "lock"},
           op'[w].kind = op[w].kind, op'[w].a = op[w].a,
           \A x \in Workers \ {w} : op'[x] = op[x],
           UNCHANGED <<access, gateway, due, aged, orphan>>
    PROVE  TypeOK' /\ Section(w)
<1>1. TypeOK'
  BY DEF TypeOK
<1>2. QED
  BY <1>1 DEF Section

\* A worker that is done knows nothing but its kind and its account.
LEMMA DoneKnows ==
    ASSUME NEW w \in Workers, OpInv(op[w], w), op[w].pc # "idle",
           op'[w].pc = "done", op'[w].kind = op[w].kind, op'[w].a = op[w].a
    PROVE  OpInv(op'[w], w)
  BY DEF OpInv

\* The first write of a request.
LEMMA SaveAndAuditForm ==
    ASSUME TypeOK, NEW w \in Workers \ {Sweep}, op[w].a \in Accounts,
           NEW pc \in Pcs \ {"idle", "lock"}, NEW r \in Row,
           SaveAndAudit(w, pc, r)
    PROVE  /\ Save(w, op[w].a, r)
           /\ row' \in [Accounts -> Row] /\ DOMAIN tx' \subseteq Accounts
           /\ \A b \in DOMAIN tx' : tx'[b] \in Row
           /\ faults' \in 0 .. MaxFaults
           /\ op' \in [Workers -> Op]
           /\ op'[w].kind = op[w].kind /\ op'[w].a = op[w].a
           /\ \/ op'[w].pc = "done" /\ ~op'[w].ok
              \/ op'[w].pc = pc /\ op'[w].to = op[w].to /\ op'[w].acct = r
           /\ \A x \in Workers \ {w} : op'[x] = op[x]
<1>1. Save(w, op[w].a, r) /\ faults' \in 0 .. MaxFaults
  BY FaultForm DEF SaveAndAudit
<1>2. \/ Proceed(w, pc, r) /\ pc # "done"
      \/ Done(w)
      \/ Fail(w)
  BY DEF SaveAndAudit, Proceed
<1>3. QED
  BY <1>1, <1>2, SaveForm, ProceedForm, DoneForm

\* Taking the lock.
LEMMA EnterForm ==
    ASSUME TypeOK, WorkInv, NEW w \in Workers, NEW kind, Enter(w, kind)
    PROVE  /\ lock = None /\ lock' = w /\ op[w].pc = "lock"
           /\ op[w].kind = kind /\ OpInv(op[w], w)
           /\ kind # "cleanup" => op[w].a \in Accounts
           /\ kind = "sweep" <=> w = Sweep
           /\ kind = "revoke" => op[w].to = "revoked"
  BY DEF Enter, WorkInv, OpInv

\* A request that is refused.
LEMMA RefuseForm ==
    ASSUME TypeOK, WorkInv, NEW w \in Workers, NEW kind, Enter(w, kind),
           Refuse(w), KeepWorld
    PROVE  Sectioned(w)
<1>1. /\ lock = None /\ lock' = w /\ op[w].pc = "lock" /\ OpInv(op[w], w)
  BY EnterForm
<1>2. /\ Done(w) /\ UNCHANGED <<row, tx, client, access, gateway, due, aged,
                                orphan>>
      /\ faults' \in 0 .. MaxFaults
  BY FaultForm DEF Refuse, NoSave, KeepWorld, env
<1>3. OpInv(op'[w], w)
  BY <1>1, <1>2, DoneForm, DoneKnows
<1>4. row' \in [Accounts -> Row] /\ client' \in [Accounts -> Client]
      /\ DOMAIN tx' \subseteq Accounts /\ \A b \in DOMAIN tx' : tx'[b] \in Row
  BY <1>2 DEF TypeOK
<1>5. QED
  BY <1>1, <1>2, <1>3, <1>4, DoneForm, SectionForm DEF Sectioned

\* A request that writes and goes on.
LEMMA AuditedForm ==
    ASSUME TypeOK, WorkInv, NEW w \in Workers, NEW kind \in Kinds,
           kind \notin {"sweep", "cleanup"}, Enter(w, kind),
           NEW pc \in Pcs \ {"idle", "lock"}, NEW r \in Row,
           SaveAndAudit(w, pc, r), KeepWorld,
           op'[w].pc = pc => OpInv(op'[w], w)
    PROVE  Sectioned(w)
<1>1. /\ lock = None /\ lock' = w /\ op[w].pc = "lock" /\ OpInv(op[w], w)
      /\ w # Sweep /\ op[w].a \in Accounts
  BY EnterForm
<1>2. OpInv(op'[w], w)
  BY <1>1, SaveAndAuditForm, DoneKnows
<1>3. UNCHANGED <<client, access, gateway, due, aged, orphan>>
      /\ client' \in [Accounts -> Client]
  BY DEF KeepWorld, env, TypeOK
<1>4. QED
  BY <1>1, <1>2, <1>3, SaveAndAuditForm, SectionForm DEF Sectioned

LEMMA CreateBeginStep ==
    ASSUME TypeOK, WorkInv, NEW w \in Workers, CreateBegin(w)
    PROVE  Sectioned(w)
<1> DEFINE r == [status |-> "provisioning", uuid |-> FALSE,
                 role |-> op[w].want, creator |-> op[w].u]
<1>1. Enter(w, "create") /\ KeepWorld
  BY DEF CreateBegin
<1>2. r \in Row
  BY DEF TypeOK, Op, Row, Statuses
<1>3. CASE SaveAndAudit(w, "provision", r)
  <2>1. op[w].kind = "create" /\ op[w].a \in Accounts /\ w # Sweep
    BY <1>1, EnterForm
  <2>2. op'[w].pc = "provision" => OpInv(op'[w], w)
    BY <1>2, <1>3, <2>1, SaveAndAuditForm DEF OpInv, Pcs
  <2>3. QED
    BY <1>1, <1>2, <1>3, <2>2, AuditedForm DEF Pcs, Kinds
<1>4. QED
  BY <1>1, <1>3, RefuseForm DEF CreateBegin

LEMMA RevokeBeginStep ==
    ASSUME TypeOK, WorkInv, NEW w \in Workers, RevokeBegin(w)
    PROVE  Sectioned(w)
<1> DEFINE cur == row[op[w].a]
<1>1. Enter(w, "revoke") /\ KeepWorld
  BY DEF RevokeBegin
<1>2. /\ op[w].kind = "revoke" /\ op[w].a \in Accounts /\ w # Sweep
      /\ op[w].to = "revoked" /\ lock = None /\ lock' = w
      /\ op[w].pc = "lock"
  BY <1>1, EnterForm
<1>3. cur \in Row /\ [cur EXCEPT !.status = "revoking"] \in Row
      /\ [cur EXCEPT !.status = "revoking"].status = "revoking"
  BY <1>2 DEF TypeOK, Row, Statuses
<1>4. CASE Refuse(w)
  BY <1>1, <1>4, RefuseForm
<1>5. CASE Proceed(w, "redisable", cur) /\ NoSave /\ NoFault
  <2>1. OpInv(op'[w], w)
    BY <1>2, <1>3, <1>5, ProceedForm DEF OpInv, Pcs
  <2>2. /\ UNCHANGED <<row, tx, client, access, gateway, due, aged, orphan>>
        /\ faults' \in 0 .. MaxFaults
    BY <1>1, <1>5, FaultForm DEF NoSave, KeepWorld, env
  <2>3. row' \in [Accounts -> Row] /\ client' \in [Accounts -> Client]
        /\ DOMAIN tx' \subseteq Accounts
        /\ \A b \in DOMAIN tx' : tx'[b] \in Row
    BY <2>2 DEF TypeOK
  <2>4. QED
    BY <1>2, <1>3, <1>5, <2>1, <2>2, <2>3, ProceedForm, SectionForm
       DEF Sectioned, Pcs
<1>6. CASE SaveAndAudit(w, "disable", [cur EXCEPT !.status = "revoking"])
  <2>1. op'[w].pc = "disable" => OpInv(op'[w], w)
    BY <1>2, <1>3, <1>6, SaveAndAuditForm DEF OpInv, Pcs
  <2>2. QED
    BY <1>1, <1>3, <1>6, <2>1, AuditedForm DEF Pcs, Kinds
<1>7. QED
  BY <1>4, <1>5, <1>6 DEF RevokeBegin

LEMMA RoleBeginStep ==
    ASSUME TypeOK, WorkInv, NEW w \in Workers, RoleBegin(w)
    PROVE  Sectioned(w)
<1> DEFINE cur == row[op[w].a]
           r == [cur EXCEPT !.role = op[w].want]
<1>1. Enter(w, "role") /\ KeepWorld
  BY DEF RoleBegin
<1>2. op[w].kind = "role" /\ op[w].a \in Accounts /\ w # Sweep
  BY <1>1, EnterForm
<1>3. r \in Row
  BY <1>2, RowTypes DEF TypeOK, Op
<1>4. CASE Refuse(w)
  BY <1>1, <1>4, RefuseForm
<1>5. ASSUME NEW pc \in {"done", "project"}, SaveAndAudit(w, pc, r)
      PROVE  Sectioned(w)
  <2>1. op'[w].pc = pc => OpInv(op'[w], w)
    BY <1>2, <1>3, <1>5, SaveAndAuditForm DEF OpInv, Pcs
  <2>2. QED
    BY <1>1, <1>3, <1>5, <2>1, AuditedForm DEF Pcs, Kinds
<1>6. QED
  BY <1>4, <1>5 DEF RoleBegin

LEMMA DeleteBeginStep ==
    ASSUME TypeOK, WorkInv, NEW w \in Workers, DeleteBegin(w)
    PROVE  Sectioned(w)
<1> DEFINE r == [row[op[w].a] EXCEPT !.status = "deleting"]
<1>1. Enter(w, "delete") /\ KeepWorld
  BY DEF DeleteBegin
<1>2. op[w].kind = "delete" /\ op[w].a \in Accounts /\ w # Sweep
  BY <1>1, EnterForm
<1>3. r \in Row
  BY <1>2, RowTypes DEF TypeOK, Statuses
<1>4. CASE SaveAndAudit(w, "purge", r)
  <2>1. op'[w].pc = "purge" => OpInv(op'[w], w)
    BY <1>2, <1>3, <1>4, SaveAndAuditForm DEF OpInv, Pcs
  <2>2. QED
    BY <1>1, <1>3, <1>4, <2>1, AuditedForm DEF Pcs, Kinds
<1>5. QED
  BY <1>1, <1>4, RefuseForm DEF DeleteBegin

LEMMA CleanupBeginStep ==
    ASSUME TypeOK, WorkInv, NEW w \in Workers, CleanupBegin(w)
    PROVE  Sectioned(w)
<1>1. /\ Enter(w, "cleanup") /\ Goto(w, "wipe")
      /\ UNCHANGED <<row, tx, client, access, gateway, due, aged, orphan>>
      /\ faults' \in 0 .. MaxFaults
  BY FaultForm DEF CleanupBegin, NoSave, KeepWorld, env
<1>2. /\ op[w].kind = "cleanup" /\ w # Sweep /\ op[w].pc = "lock"
      /\ lock = None /\ lock' = w
  BY <1>1, EnterForm
<1>3. OpInv(op'[w], w)
  BY <1>1, <1>2, GotoForm DEF OpInv, Pcs
<1>4. row' \in [Accounts -> Row] /\ client' \in [Accounts -> Client]
      /\ DOMAIN tx' \subseteq Accounts /\ \A b \in DOMAIN tx' : tx'[b] \in Row
  BY <1>1 DEF TypeOK
<1>5. QED
  BY <1>1, <1>2, <1>3, <1>4, GotoForm, SectionForm DEF Sectioned, Pcs

\* The sweep's decision: what it goes on with, from which row.
SweepDecision(to, pc) ==
    LET a == op[Sweep].a
        cur == row[a]
    IN  \/ pc = "done"
        \/ pc = "purge" /\ cur.status = "deleting"
        \/ pc = "undelivered" /\ cur.status \in {"provisioning", "error"}
        \/ pc = "redisable" /\ cur.status \in Terminal
        \/ pc = "disable" /\ to \in Terminal
        \/ pc = "project" /\ to = "ready" /\ cur.status \in {"ready", "degraded"}

LEMMA SweepDecides ==
    ASSUME TypeOK, WorkInv, NEW w \in Workers, SweepBegin(w)
    PROVE  LET a == op[w].a IN
           /\ Enter(w, "sweep") /\ KeepWorld /\ (Fault \/ NoFault)
           /\ \/ NoSave
              \/ tx' = tx /\ row' = [row EXCEPT ![a].status = "error"]
                 /\ row[a].status \notin Absent /\ Done(w)
           /\ \/ Done(w)
              \/ \E pc \in Pcs, to \in Statuses, want \in Roles :
                    /\ Goes(w, pc, row[a], to, want)
                    /\ SweepDecision(to, pc) /\ pc # "done"
<1>1. Enter(w, "sweep") /\ KeepWorld /\ w = Sweep /\ op[w].a \in Accounts
      /\ (Fault \/ NoFault)
  BY EnterForm DEF SweepBegin
<1> DEFINE a == op[w].a
           cur == row[a]
           tier == access[cur.creator]
           allowed == IF cur.role \in AllowedRoles(tier) THEN cur.role
                      ELSE "user"
           stop == IF a \in due THEN "expired"
                   ELSE IF \/ tier = "none" \/ cur.status = "revoking"
                           \/ gateway = "gone" /\ cur.status # "error"
                        THEN "revoked" ELSE "none"
           Went(pc, to, want) == Goes(w, pc, cur, to, want) /\ NoSave
           Goal == /\ \/ NoSave
                      \/ /\ tx' = tx /\ Done(w) /\ cur.status \notin Absent
                         /\ row' = [row EXCEPT ![a].status = "error"]
                   /\ \/ Done(w)
                      \/ \E pc \in Pcs, to \in Statuses, want \in Roles :
                           Went(pc, to, want) /\ SweepDecision(to, pc)
                           /\ pc # "done"
<1> SUFFICES Goal
  BY <1>1
<1>2. /\ cur \in Row /\ cur.role \in Roles /\ allowed \in Roles
      /\ cur.status \in Statuses /\ stop \in {"expired", "revoked", "none"}
  BY <1>1, ConstantsAssumption DEF TypeOK, Row
<1>3. {"none", "ready", "expired", "revoked"} \subseteq Statuses
      /\ {"purge", "undelivered", "redisable", "disable", "project"}
           \subseteq Pcs
  BY DEF Statuses, Pcs, Terminal, Absent
<1>4. ASSUME NEW pc \in Pcs, NEW to \in Statuses, NEW want \in Roles,
             Went(pc, to, want), SweepDecision(to, pc), pc # "done"
      PROVE  Goal
  BY <1>4
<1>5. CASE Done(w) /\ NoSave
  BY <1>5
<1>6. CASE cur.status = "deleting" /\ Went("purge", "none", cur.role)
  BY <1>1, <1>2, <1>3, <1>4, <1>6 DEF SweepDecision
<1>7. CASE cur.status \in {"provisioning", "error"}
           /\ Went("undelivered", "none", cur.role)
  BY <1>1, <1>2, <1>3, <1>4, <1>7 DEF SweepDecision
<1>8. CASE cur.status \in Terminal
           /\ Went("redisable", cur.status, cur.role)
  BY <1>1, <1>2, <1>3, <1>4, <1>8 DEF SweepDecision
<1>9. CASE stop # "none" /\ Went("disable", stop, cur.role)
  BY <1>1, <1>2, <1>3, <1>4, <1>9 DEF SweepDecision, Terminal
<1>10. CASE cur.status \in {"ready", "degraded"}
            /\ Went("project", "ready", allowed)
  BY <1>1, <1>2, <1>3, <1>4, <1>10 DEF SweepDecision
<1>11. CASE cur.status \notin Absent /\ Done(w) /\ tx' = tx
            /\ row' = [row EXCEPT ![a].status = "error"]
  BY <1>11
<1>12. stop = "none" => cur.status # "revoking"
  OBVIOUS
<1>13. /\ cur.status \notin Absent /\ cur.status \notin Terminal
       /\ cur.status \notin {"deleting", "provisioning", "error", "revoking"}
       => cur.status \in {"ready", "degraded"}
  BY <1>2 DEF Statuses
<1> HIDE DEF cur, Went, allowed, stop, Goal
<1>14. QED
  BY <1>5, <1>6, <1>7, <1>8, <1>9, <1>10, <1>11, <1>12, <1>13
     DEF SweepBegin, a, cur, tier, Went, Goes, allowed, stop

LEMMA SweepBeginStep ==
    ASSUME TypeOK, WorkInv, NEW w \in Workers, SweepBegin(w)
    PROVE  Sectioned(w)
<1>1. /\ lock = None /\ lock' = w /\ op[w].pc = "lock" /\ OpInv(op[w], w)
      /\ op[w].kind = "sweep" /\ w = Sweep /\ op[w].a \in Accounts
  BY SweepDecides, EnterForm
<1>2. row[op[w].a] \in Row
  BY <1>1 DEF TypeOK
<1>3. /\ UNCHANGED <<tx, client, access, gateway, due, aged, orphan>>
      /\ faults' \in 0 .. MaxFaults /\ row' \in [Accounts -> Row]
  <2>1. [row[op[w].a] EXCEPT !.status = "error"] \in Row
    BY <1>2, RowTypes DEF Statuses
  <2>2. QED
    BY <2>1, SweepDecides, FaultForm DEF KeepWorld, env, NoSave, TypeOK
<1>4. client' \in [Accounts -> Client] /\ DOMAIN tx' \subseteq Accounts
      /\ \A b \in DOMAIN tx' : tx'[b] \in Row
  BY <1>3 DEF TypeOK
<1> DEFINE r == row[op[w].a]
           Moves == /\ op' \in [Workers -> Op]
                    /\ op'[w].pc \notin {"idle", "lock"}
                    /\ op'[w].kind = op[w].kind /\ op'[w].a = op[w].a
                    /\ \A x \in Workers \ {w} : op'[x] = op[x]
                    /\ OpInv(op'[w], w)
<1>5. CASE Done(w)
  <2>1. Moves
    BY <1>1, <1>5, DoneForm, DoneKnows
  <2>2. QED
    BY <1>1, <1>3, <1>4, <2>1, SectionForm DEF Sectioned
<1>6. ASSUME NEW pc \in Pcs, NEW to \in Statuses, NEW want \in Roles,
             Goes(w, pc, r, to, want), SweepDecision(to, pc), pc # "done"
      PROVE  Sectioned(w)
  <2> HIDE DEF r
  <2>1. r \in Row
    BY <1>2 DEF r
  <2>2. /\ op' \in [Workers -> Op] /\ op'[w].pc = pc /\ op'[w].to = to
        /\ op'[w].kind = op[w].kind /\ op'[w].a = op[w].a
        /\ \A x \in Workers \ {w} : op'[x] = op[x]
    BY <1>6, <2>1, GoForm
  <2>3. /\ pc \in {"purge", "undelivered", "redisable", "disable", "project"}
        /\ pc = "disable" => to \in Terminal
    BY <1>6 DEF SweepDecision
  <2>4. OpInv(op'[w], w)
    BY <1>1, <2>2, <2>3 DEF OpInv
  <2>5. Moves
    BY <2>2, <2>3, <2>4
  <2>6. QED
    BY <1>1, <1>3, <1>4, <2>5, SectionForm DEF Sectioned
<1>7. QED
  BY <1>5, <1>6, SweepDecides

\* What the lock holder's later steps add up to.
LEMMA InsideForm ==
    ASSUME TypeOK, WorkInv, NEW w \in Workers, lock = w, KeepEnv,
           row' \in [Accounts -> Row], DOMAIN tx' \subseteq Accounts,
           \A b \in DOMAIN tx' : tx'[b] \in Row,
           w = Sweep => tx' = tx,
           client' \in [Accounts -> Client], Fault \/ NoFault,
           op' \in [Workers -> Op], op'[w].pc \notin {"idle", "lock"},
           op'[w].kind = op[w].kind, op'[w].a = op[w].a,
           \A x \in Workers \ {w} : op'[x] = op[x],
           op'[w].pc = "done" \/ OpInv(op'[w], w)
    PROVE  Sectioned(w)
<1>1. OpInv(op[w], w) /\ op[w].pc # "idle"
  BY DEF WorkInv, LockInv
<1>2. OpInv(op'[w], w)
  BY <1>1, DoneKnows
<1>3. lock' = w /\ UNCHANGED <<access, gateway, due, aged, orphan>>
  BY DEF KeepEnv, env
<1>4. QED
  BY <1>2, <1>3, FaultForm, SectionForm DEF Sectioned

\* What a worker past its first step knows.
LEMMA AtForm ==
    ASSUME TypeOK, WorkInv, NEW w \in Workers, NEW pc, At(w, pc)
    PROVE  /\ lock = w /\ op[w].pc = pc /\ pc \notin {"idle", "lock"}
           /\ OpInv(op[w], w) /\ op[w] \in Op
           /\ pc \notin {"wipe", "eraseAll", "finalize", "done"}
              => op[w].a \in Accounts /\ op[w].kind # "cleanup"
  BY DEF At, WorkInv, LockInv, OpInv, TypeOK

\* A worker of an account goes on to a stage that expects nothing of it.
LEMMA PlainKnows ==
    ASSUME NEW w \in Workers, OpInv(op[w], w), op[w].pc # "idle",
           op[w].kind # "cleanup", op[w].a \in Accounts,
           op'[w].kind = op[w].kind, op'[w].a = op[w].a,
           op'[w].pc \in {"undelivered", "purge", "erase"}
    PROVE  OpInv(op'[w], w)
  BY DEF OpInv

\* A step that writes no row.
LEMMA NoSaveForm ==
    ASSUME TypeOK, NoSave
    PROVE  /\ row' \in [Accounts -> Row] /\ tx' = tx
           /\ DOMAIN tx' \subseteq Accounts
           /\ \A b \in DOMAIN tx' : tx'[b] \in Row
  BY DEF TypeOK, NoSave

\* A step that changes the client of one account, or none.
LEMMA WithForm ==
    ASSUME TypeOK, NEW a \in Accounts, NEW c \in Client, With(a, c)
    PROVE  client' \in [Accounts -> Client]
  BY DEF TypeOK, With

LEMMA ProvisionStep ==
    ASSUME TypeOK, WorkInv, NEW w \in Workers, Provision(w)
    PROVE  Sectioned(w)
<1> DEFINE a == op[w].a
<1>1. At(w, "provision") /\ KeepEnv /\ NoSave /\ (Fault \/ NoFault)
  BY DEF Provision
<1>2. a \in Accounts /\ op[w].want \in Roles /\ op[w].kind = "create"
  BY <1>1, AtForm DEF Op, OpInv
<1>3. \E c \in Client : With(a, c)
  <2>1. [state |-> "enabled", role |-> op[w].want] \in Client
    BY <1>2 DEF Client
  <2>2. NoClient \in Client
    BY IdleTypes
  <2>3. [state : {"disabled", "enabled"}, role : {op[w].want}]
          \subseteq Client
    BY <1>2 DEF Client
  <2>4. QED
    BY <2>1, <2>2, <2>3 DEF Provision
<1>4. client' \in [Accounts -> Client]
  BY <1>2, <1>3, WithForm
<1>5. Goto(w, "recheck") \/ Goto(w, "undelivered")
  BY DEF Provision
<1>6. OpInv(op'[w], w)
  <2>1. /\ op'[w].kind = "create" /\ op'[w].a = op[w].a
        /\ op'[w].pc \in {"recheck", "undelivered"}
    BY <1>2, <1>5, GotoForm DEF Pcs
  <2>2. w # Sweep
    BY <1>1, <1>2, AtForm DEF OpInv
  <2>3. QED
    BY <1>2, <2>1, <2>2 DEF OpInv
<1>7. QED
  BY <1>1, <1>4, <1>5, <1>6, AtForm, NoSaveForm, GotoForm, InsideForm
     DEF Pcs

LEMMA UndeliveredStep ==
    ASSUME TypeOK, WorkInv, NEW w \in Workers, Undelivered(w)
    PROVE  Sectioned(w)
<1> DEFINE a == op[w].a
           r == [op[w].acct EXCEPT !.status = "error"]
<1>1. At(w, "undelivered") /\ KeepEnv /\ (Fault \/ NoFault)
      /\ client' = client
  BY DEF Undelivered
<1>2. a \in Accounts /\ op[w].kind # "cleanup" /\ r \in Row
  BY <1>1, AtForm, RowTypes DEF Op, Statuses
<1>3. client' \in [Accounts -> Client]
  BY <1>1 DEF TypeOK
<1>4. CASE Fail(w) /\ NoSave
  BY <1>1, <1>3, <1>4, AtForm, NoSaveForm, DoneForm, InsideForm
<1>5. CASE Save(w, a, r)
           /\ op' = [op EXCEPT ![w].pc = "purge", ![w].acct = r]
  <2>1. Proceed(w, "purge", r)
    BY <1>5 DEF Proceed
  <2> HIDE DEF r
  <2>2. /\ op' \in [Workers -> Op] /\ op'[w].pc = "purge"
        /\ op'[w].kind = op[w].kind /\ op'[w].a = a
        /\ \A x \in Workers \ {w} : op'[x] = op[x]
    BY <1>2, <2>1, ProceedForm DEF Pcs
  <2>3. OpInv(op'[w], w)
    BY <1>1, <1>2, <2>2, AtForm, PlainKnows
  <2>4. /\ row' \in [Accounts -> Row] /\ DOMAIN tx' \subseteq Accounts
        /\ \A b \in DOMAIN tx' : tx'[b] \in Row
        /\ w = Sweep => tx' = tx
    BY <1>2, <1>5, SaveForm
  <2>5. QED
    BY <1>1, <1>3, <2>2, <2>3, <2>4, AtForm, InsideForm
<1>6. QED
  BY <1>4, <1>5 DEF Undelivered

\* The rows keep their types, and only a request's transaction grows.
RowsTyped(w) ==
    /\ row' \in [Accounts -> Row] /\ DOMAIN tx' \subseteq Accounts
    /\ \A b \in DOMAIN tx' : tx'[b] \in Row
    /\ w = Sweep => tx' = tx

\* Worker w goes on to stage pc with the same kind of work and account.
Moves(w, pc) ==
    /\ op' \in [Workers -> Op] /\ op'[w].pc = pc
    /\ op'[w].kind = op[w].kind /\ op'[w].a = op[w].a
    /\ \A x \in Workers \ {w} : op'[x] = op[x]

LEMMA SaveTyped ==
    ASSUME TypeOK, NEW w \in Workers
    PROVE  /\ NoSave => RowsTyped(w)
           /\ \A a \in Accounts, r \in Row : Save(w, a, r) => RowsTyped(w)
           /\ op[w].a \in Accounts =>
                \A r \in Row : Store(w, r) => RowsTyped(w)
<1>1. NoSave => RowsTyped(w)
  BY NoSaveForm DEF RowsTyped
<1>2. ASSUME NEW a \in Accounts, NEW r \in Row, Save(w, a, r)
      PROVE  RowsTyped(w)
  BY <1>2, SaveForm DEF RowsTyped
<1>3. ASSUME op[w].a \in Accounts, NEW r \in Row, Store(w, r)
      PROVE  RowsTyped(w)
  BY <1>3, StoreForm DEF RowsTyped
<1>4. QED
  BY <1>1, <1>2, <1>3

LEMMA StageMoves ==
    ASSUME TypeOK, NEW w \in Workers
    PROVE  /\ \A pc \in Pcs : Goto(w, pc) => Moves(w, pc) /\ op'[w].to = op[w].to
           /\ Done(w) \/ Fail(w) => Moves(w, "done")
           /\ \A ok, bad \in BOOLEAN : End(w, ok, bad) => Moves(w, "done")
<1>1. ASSUME NEW pc \in Pcs, Goto(w, pc)
      PROVE  Moves(w, pc) /\ op'[w].to = op[w].to
  BY <1>1, GotoForm DEF Moves
<1>2. ASSUME NEW ok \in BOOLEAN, NEW bad \in BOOLEAN, End(w, ok, bad)
      PROVE  Moves(w, "done")
  BY <1>2, EndForm DEF Moves
<1>3. Done(w) \/ Fail(w) => Moves(w, "done")
  BY DoneForm DEF Moves
<1>4. QED
  BY <1>1, <1>2, <1>3

LEMMA Inside ==
    ASSUME TypeOK, WorkInv, NEW w \in Workers, lock = w, KeepEnv,
           RowsTyped(w), client' \in [Accounts -> Client], Fault \/ NoFault,
           NEW pc, Moves(w, pc), pc \notin {"idle", "lock"},
           pc = "done" \/ OpInv(op'[w], w)
    PROVE  Sectioned(w)
  BY InsideForm DEF RowsTyped, Moves

\* A step of a worker of an account that ends it.
LEMMA InsideDone ==
    ASSUME TypeOK, WorkInv, NEW w \in Workers, lock = w, KeepEnv,
           RowsTyped(w), client' \in [Accounts -> Client], Fault \/ NoFault,
           Moves(w, "done")
    PROVE  Sectioned(w)
  BY Inside

LEMMA PurgeStep ==
    ASSUME TypeOK, WorkInv, NEW w \in Workers, Purge(w)
    PROVE  Sectioned(w)
<1>1. At(w, "purge") /\ KeepEnv /\ NoSave /\ (Fault \/ NoFault)
  BY DEF Purge
<1>2. op[w].a \in Accounts
  BY <1>1, AtForm
<1>3. client' \in [Accounts -> Client]
  BY <1>2, ClientTypes, WithForm DEF Purge
<1>4. CASE Done(w)
  BY <1>1, <1>3, <1>4, AtForm, SaveTyped, StageMoves, InsideDone
<1>5. CASE Goto(w, "erase")
  <2>1. Moves(w, "erase")
    BY <1>5, StageMoves DEF Pcs
  <2>2. OpInv(op'[w], w)
    BY <1>1, <2>1, AtForm, PlainKnows DEF Moves
  <2>3. QED
    BY <1>1, <1>3, <2>1, <2>2, AtForm, SaveTyped, Inside
<1>6. QED
  BY <1>4, <1>5 DEF Purge

LEMMA EraseStep ==
    ASSUME TypeOK, WorkInv, NEW w \in Workers, Erase(w)
    PROVE  Sectioned(w)
<1>1. At(w, "erase") /\ KeepEnv /\ (Fault \/ NoFault)
      /\ client' = client /\ (Done(w) \/ Fail(w))
      /\ (NoSave \/ Save(w, op[w].a, DeletedRow))
  BY DEF Erase
<1>2. RowsTyped(w)
  BY <1>1, AtForm, IdleTypes, SaveTyped
<1>3. QED
  BY <1>1, <1>2, AtForm, StageMoves, InsideDone DEF TypeOK

LEMMA RecheckStep ==
    ASSUME TypeOK, WorkInv, NEW w \in Workers, Recheck(w)
    PROVE  Sectioned(w)
<1>1. At(w, "recheck") /\ KeepEnv /\ NoSave /\ (Fault \/ NoFault)
      /\ client' = client
  BY DEF Recheck
<1>2. ASSUME NEW pc \in {"deliver", "drop"}, Goto(w, pc)
      PROVE  Sectioned(w)
  <2>1. Moves(w, pc)
    BY <1>2, StageMoves DEF Pcs
  <2>2. OpInv(op'[w], w)
    BY <1>1, <2>1, AtForm DEF Moves, OpInv
  <2>3. QED
    BY <1>1, <2>1, <2>2, AtForm, SaveTyped, Inside DEF TypeOK
<1>3. QED
  BY <1>2 DEF Recheck

LEMMA DropStep ==
    ASSUME TypeOK, WorkInv, NEW w \in Workers, Drop(w)
    PROVE  Sectioned(w)
<1> DEFINE acct == [op[w].acct EXCEPT !.uuid = TRUE]
<1>1. At(w, "drop") /\ KeepEnv /\ (Fault \/ NoFault)
  BY DEF Drop
<1>2. /\ op[w].a \in Accounts /\ op[w].kind = "create" /\ w # Sweep
      /\ acct \in Row /\ [acct EXCEPT !.status = "error"] \in Row
  <2>1. op[w].acct \in Row
    BY <1>1, AtForm DEF Op
  <2>2. acct \in Row
    BY <2>1, RowTypes
  <2>3. [acct EXCEPT !.status = "error"] \in Row
    BY <2>2, RowTypes DEF Statuses
  <2>4. QED
    BY <1>1, <2>2, <2>3, AtForm DEF OpInv
<1>3. client' \in [Accounts -> Client]
  BY <1>2, ClientTypes, WithForm DEF Drop
<1>4. CASE Save(w, op[w].a, [acct EXCEPT !.status = "error"]) /\ Done(w)
  <2>1. RowsTyped(w)
    BY <1>2, <1>4, SaveTyped
  <2>2. QED
    BY <1>1, <1>3, <1>4, <2>1, AtForm, StageMoves, InsideDone
<1>5. CASE /\ NoSave
           /\ op' = [op EXCEPT ![w].pc = "settle", ![w].to = "revoked",
                               ![w].acct = acct]
  <2> DEFINE o == [op[w] EXCEPT !.pc = "settle", !.to = "revoked",
                                !.acct = acct]
  <2>1. op \in [Workers -> Op] /\ op[w] \in Op
    BY DEF TypeOK
  <2>2. o \in Op /\ o.pc = "settle" /\ o.kind = "create" /\ o.a = op[w].a
        /\ o.to = "revoked"
    BY <1>2, <2>1 DEF Op, Pcs, Statuses, Terminal
  <2>3. op'[w] = o /\ \A x \in Workers \ {w} : op'[x] = op[x]
    BY <1>5, <2>1
  <2>4. op' \in [Workers -> Op]
    BY <1>5, <2>1, <2>2, <2>3
  <2>5. Moves(w, "settle") /\ OpInv(op'[w], w)
    BY <1>2, <2>2, <2>3, <2>4 DEF Moves, OpInv, Terminal
  <2>6. QED
    BY <1>1, <1>3, <1>5, <2>5, AtForm, SaveTyped, Inside
<1>6. QED
  BY <1>4, <1>5 DEF Drop

LEMMA DeliverStep ==
    ASSUME TypeOK, WorkInv, NEW w \in Workers, Deliver(w)
    PROVE  Sectioned(w)
<1> DEFINE acct(st) == [op[w].acct EXCEPT !.status = st, !.uuid = TRUE]
<1>1. At(w, "deliver") /\ KeepEnv /\ (Fault \/ NoFault)
  BY DEF Deliver
<1>2. op[w].a \in Accounts /\ acct("ready") \in Row /\ acct("error") \in Row
  BY <1>1, AtForm, RowTypes DEF Op, Statuses
<1>3. client' \in [Accounts -> Client]
  BY <1>2, ClientTypes, WithForm DEF Deliver, TypeOK
<1>4. RowsTyped(w)
  BY <1>2, SaveTyped DEF Deliver
<1>5. Moves(w, "done")
  BY StageMoves DEF Deliver
<1>6. QED
  BY <1>1, <1>3, <1>4, <1>5, AtForm, InsideDone

LEMMA DisableStep ==
    ASSUME TypeOK, WorkInv, NEW w \in Workers, Disable(w)
    PROVE  Sectioned(w)
<1>1. At(w, "disable") /\ KeepEnv /\ (Fault \/ NoFault)
  BY DEF Disable
<1>2. op[w].a \in Accounts /\ [op[w].acct EXCEPT !.status = "degraded"] \in Row
  BY <1>1, AtForm, RowTypes DEF Op, Statuses
<1>3. client' \in [Accounts -> Client]
  BY <1>2, ClientTypes, WithForm DEF Disable
<1>4. RowsTyped(w)
  BY <1>2, SaveTyped DEF Disable
<1>5. CASE Done(w)
  BY <1>1, <1>3, <1>4, <1>5, AtForm, StageMoves, InsideDone
<1>6. CASE Goto(w, "settle")
  <2>1. Moves(w, "settle") /\ op'[w].to = op[w].to
    BY <1>6, StageMoves DEF Pcs
  <2>2. OpInv(op'[w], w)
    BY <1>1, <2>1, AtForm DEF Moves, OpInv, Terminal
  <2>3. QED
    BY <1>1, <1>3, <1>4, <2>1, <2>2, AtForm, Inside
<1>7. QED
  BY <1>5, <1>6 DEF Disable

LEMMA RedisableStep ==
    ASSUME TypeOK, WorkInv, NEW w \in Workers, Redisable(w)
    PROVE  Sectioned(w)
<1>1. At(w, "redisable") /\ KeepEnv /\ (Fault \/ NoFault) /\ NoSave /\ Done(w)
  BY DEF Redisable
<1>2. client' \in [Accounts -> Client]
  BY <1>1, AtForm, ClientTypes, WithForm DEF Redisable
<1>3. QED
  BY <1>1, <1>2, AtForm, SaveTyped, StageMoves, InsideDone

LEMMA ProjectStep ==
    ASSUME TypeOK, WorkInv, NEW w \in Workers, Project(w)
    PROVE  Sectioned(w)
<1>1. At(w, "project") /\ KeepEnv /\ (Fault \/ NoFault)
  BY DEF Project
<1>2. /\ op[w].a \in Accounts /\ op[w].want \in Roles /\ op[w].acct \in Row
      /\ op[w].kind \in {"role", "sweep"}
      /\ [op[w].acct EXCEPT !.status = "degraded"] \in Row
      /\ [op[w].acct EXCEPT !.status = "error"] \in Row
  BY <1>1, AtForm, RowTypes DEF Op, OpInv, Statuses
<1>3. client' \in [Accounts -> Client]
  <2>1. [state |-> "enabled", role |-> op[w].want] \in Client
    BY <1>2 DEF Client
  <2>2. CASE client' = client
    BY <2>2 DEF TypeOK
  <2>3. CASE \E c \in Client : With(op[w].a, c)
    BY <1>2, <2>3, WithForm
  <2>4. QED
    BY <1>2, <2>1, <2>2, <2>3, ClientTypes DEF Project
<1>4. RowsTyped(w)
  BY <1>2, SaveTyped DEF Project
<1>5. CASE Done(w)
  BY <1>1, <1>3, <1>4, <1>5, AtForm, StageMoves, InsideDone
<1>6. CASE op' = [op EXCEPT ![w].pc = "settle", ![w].to = "ready",
                            ![w].acct.role = op[w].want]
  <2> DEFINE r == [op[w].acct EXCEPT !.role = op[w].want]
             o == [op[w] EXCEPT !.pc = "settle", !.to = "ready", !.acct = r]
  <2>1. op \in [Workers -> Op] /\ op[w] \in Op /\ r \in Row
    BY <1>2, RowTypes DEF TypeOK
  <2>2. o \in Op /\ o.pc = "settle" /\ o.kind = op[w].kind /\ o.a = op[w].a
        /\ o.to = "ready"
    BY <2>1 DEF Op, Pcs, Statuses
  <2>3. op'[w] = o
    BY <1>6, <2>1 DEF Op
  <2>4. DOMAIN op' = Workers /\ \A x \in Workers \ {w} : op'[x] = op[x]
    BY <1>6, <2>1
  <2>5. op' \in [Workers -> Op]
    BY <1>6, <2>1, <2>2, <2>3, <2>4
  <2>6. Moves(w, "settle")
    BY <2>2, <2>3, <2>4, <2>5 DEF Moves
  <2>7. OpInv(op'[w], w)
    BY <1>1, <1>2, <2>2, <2>3, AtForm DEF OpInv
  <2>8. QED
    BY <1>1, <1>3, <1>4, <2>6, <2>7, AtForm, Inside
<1>7. QED
  BY <1>5, <1>6 DEF Project

LEMMA SettleStep ==
    ASSUME TypeOK, WorkInv, NEW w \in Workers, Settle(w)
    PROVE  Sectioned(w)
<1> DEFINE acct(st) == [op[w].acct EXCEPT !.status = st]
<1>1. At(w, "settle") /\ KeepEnv /\ (Fault \/ NoFault) /\ client' = client
      /\ (Done(w) \/ Fail(w))
  BY DEF Settle
<1>2. op[w].a \in Accounts /\ acct(op[w].to) \in Row /\ acct("error") \in Row
  BY <1>1, AtForm, RowTypes DEF Op, Statuses
<1>3. RowsTyped(w)
  BY <1>2, SaveTyped DEF Settle
<1>4. QED
  BY <1>1, <1>3, AtForm, StageMoves, InsideDone DEF TypeOK

LEMMA WipeStep ==
    ASSUME TypeOK, WorkInv, NEW w \in Workers, Wipe(w)
    PROVE  Sectioned(w)
<1>1. At(w, "wipe") /\ KeepEnv /\ NoSave /\ (Fault \/ NoFault)
  BY DEF Wipe
<1>2. client' \in [Accounts -> Client]
  BY IdleTypes DEF Wipe
<1>3. CASE Done(w)
  BY <1>1, <1>2, <1>3, AtForm, SaveTyped, StageMoves, InsideDone
<1>4. CASE Goto(w, "eraseAll")
  <2>1. Moves(w, "eraseAll")
    BY <1>4, StageMoves DEF Pcs
  <2>2. OpInv(op'[w], w)
    BY <1>1, <2>1, AtForm DEF Moves, OpInv
  <2>3. QED
    BY <1>1, <1>2, <2>1, <2>2, AtForm, SaveTyped, Inside
<1>5. QED
  BY <1>3, <1>4 DEF Wipe

LEMMA EraseAllStep ==
    ASSUME TypeOK, WorkInv, NEW w \in Workers, EraseAll(w)
    PROVE  Sectioned(w)
<1>1. At(w, "eraseAll") /\ KeepEnv /\ (Fault \/ NoFault) /\ client' = client
  BY DEF EraseAll
<1>2. RowsTyped(w) /\ client' \in [Accounts -> Client]
  BY <1>1, IdleTypes, SaveTyped DEF EraseAll, TypeOK
<1>3. CASE Fail(w)
  BY <1>1, <1>2, <1>3, AtForm, StageMoves, InsideDone
<1>4. CASE UNCHANGED op
  <2>1. Moves(w, "eraseAll")
    BY <1>1, <1>4, AtForm DEF Moves, TypeOK
  <2>2. OpInv(op'[w], w)
    BY <1>1, <1>4, AtForm
  <2>3. QED
    BY <1>1, <1>2, <2>1, <2>2, AtForm, Inside
<1>5. CASE Goto(w, "finalize")
  <2>1. Moves(w, "finalize")
    BY <1>5, StageMoves DEF Pcs
  <2>2. OpInv(op'[w], w)
    BY <1>1, <2>1, AtForm DEF Moves, OpInv
  <2>3. QED
    BY <1>1, <1>2, <2>1, <2>2, AtForm, Inside
<1>6. QED
  BY <1>3, <1>4, <1>5 DEF EraseAll

LEMMA FinalizeStep ==
    ASSUME TypeOK, WorkInv, NEW w \in Workers, Finalize(w)
    PROVE  Sectioned(w)
<1>1. At(w, "finalize") /\ KeepEnv /\ NoSave /\ (Fault \/ NoFault)
      /\ client' = client
  BY DEF Finalize
<1>2. Moves(w, "done")
  BY StageMoves DEF Finalize
<1>3. QED
  BY <1>1, <1>2, AtForm, SaveTyped, InsideDone DEF TypeOK

LEMMA PanicStep ==
    ASSUME TypeOK, WorkInv, NEW w \in Workers, Panic(w)
    PROVE  Sectioned(w)
<1>1. lock = w /\ KeepEnv /\ NoSave /\ Fault /\ client' = client /\ Done(w)
  BY DEF Panic, KeepEnv, NoSave
<1>2. QED
  BY <1>1, SaveTyped, StageMoves, InsideDone DEF TypeOK

(***************************************************************************)
(* The other steps, and the invariance of the types and of WorkInv.        *)
(***************************************************************************)

\* A step under the lock, that ends with the lock held.
Critical(w) ==
    \/ CreateBegin(w) \/ RevokeBegin(w) \/ RoleBegin(w) \/ DeleteBegin(w)
    \/ CleanupBegin(w) \/ SweepBegin(w)
    \/ Provision(w) \/ Undelivered(w) \/ Purge(w) \/ Erase(w) \/ Recheck(w)
    \/ Drop(w) \/ Deliver(w) \/ Disable(w) \/ Redisable(w) \/ Project(w)
    \/ Settle(w) \/ Wipe(w) \/ EraseAll(w) \/ Finalize(w) \/ Panic(w)

LEMMA CriticalStep ==
    ASSUME TypeOK, WorkInv, NEW w \in Workers, Critical(w)
    PROVE  Sectioned(w)
  BY CreateBeginStep, RevokeBeginStep, RoleBeginStep, DeleteBeginStep,
     CleanupBeginStep, SweepBeginStep, ProvisionStep, UndeliveredStep,
     PurgeStep, EraseStep, RecheckStep, DropStep, DeliverStep, DisableStep,
     RedisableStep, ProjectStep, SettleStep, WipeStep, EraseAllStep,
     FinalizeStep, PanicStep
     DEF Critical

\* A worker takes up a request or a listed row.
Arrives(w, o) ==
    /\ op[w].pc = "idle" /\ op' = [op EXCEPT ![w] = o]
    /\ UNCHANGED <<row, client, lock, tx, access, gateway, due, aged, orphan,
                   faults>>

Arrival(w) ==
    \E o \in Op :
       /\ Arrives(w, o) /\ o.pc = "lock"
       /\ o.kind = "sweep" <=> w = Sweep
       /\ o.kind # "cleanup" => o.a \in Accounts
       /\ o.kind = "cleanup" => o.a = None
       /\ o.kind = "revoke" => o.to = "revoked"
       /\ o.kind = "create" =>
            row[o.a].status = "none" /\ \A x \in Requests : op[x].a # o.a
       /\ o.kind \notin {"create", "cleanup"} => row[o.a].status # "none"

\* A worker lets go of the lock and of its transaction.
Releases(w) ==
    /\ op[w].pc # "idle" /\ op' = [op EXCEPT ![w] = Idle]
    /\ lock' = IF lock = w THEN None ELSE lock
    /\ tx' = IF lock = w THEN << >> ELSE tx
    /\ UNCHANGED <<client, orphan>>

\* Nothing but the clients, the environment or the orphan list changes.
Outside == UNCHANGED <<row, op, lock, tx>>

LEMMA StepForms ==
    ASSUME TypeOK, [Next]_vars
    PROVE  \/ \E w \in Workers : Critical(w)
           \/ \E w \in Workers : Arrival(w)
           \/ \E w \in Workers : Finish(w) \/ Crash(w)
           \/ \E a \in Accounts : Orphans(a)
           \/ Environment
           \/ UNCHANGED vars
<1>1. Idle \in Op /\ Idle.pc = "idle" /\ Sweep \in Workers
      /\ Sweep \notin Requests /\ Requests \subseteq Workers
  BY IdleTypes, ConstantsAssumption
<1>2. ASSUME NEW w \in Requests, Request(w)
      PROVE  Arrival(w)
  <2>1. ASSUME NEW u \in Users, NEW a \in Accounts, NEW r \in Roles,
               RequestCreate(w, u, a, r)
        PROVE  Arrival(w)
    <3> DEFINE o == [Idle EXCEPT !.pc = "lock", !.kind = "create", !.a = a,
                                 !.u = u, !.want = r]
    <3>1. o \in Op /\ o.pc = "lock" /\ o.kind = "create" /\ o.a = a
      BY <1>1 DEF Op, Pcs, Kinds
    <3>2. Arrives(w, o)
      BY <2>1 DEF RequestCreate, Begin, KeepAllButOp, env, Arrives
    <3> HIDE DEF o
    <3>3. QED
      BY <1>1, <2>1, <3>1, <3>2 DEF RequestCreate, Arrival
  <2>2. ASSUME NEW u \in Users, NEW a \in Accounts, NEW r \in Roles,
               NEW kind \in {"revoke", "delete", "role"},
               RequestChange(w, u, a, kind, r)
        PROVE  Arrival(w)
    <3> DEFINE o == [Idle EXCEPT !.pc = "lock", !.kind = kind, !.a = a,
                                 !.u = u, !.want = r, !.to = "revoked"]
    <3>1. o \in Op /\ o.pc = "lock" /\ o.kind = kind /\ o.a = a
          /\ o.to = "revoked"
      BY <1>1 DEF Op, Pcs, Kinds, Statuses, Terminal
    <3>2. Arrives(w, o)
      BY <2>2 DEF RequestChange, Begin, KeepAllButOp, env, Arrives
    <3> HIDE DEF o
    <3>3. QED
      BY <1>1, <2>2, <3>1, <3>2
         DEF RequestChange, Visible, Absent, Arrival
  <2>3. ASSUME RequestCleanup(w)
        PROVE  Arrival(w)
    <3> DEFINE o == [Idle EXCEPT !.pc = "lock", !.kind = "cleanup"]
    <3>1. o \in Op /\ o.pc = "lock" /\ o.kind = "cleanup" /\ o.a = None
      BY <1>1 DEF Op, Pcs, Kinds, Idle
    <3>2. Arrives(w, o)
      BY <2>3 DEF RequestCleanup, Begin, KeepAllButOp, env, Arrives
    <3> HIDE DEF o
    <3>3. QED
      BY <1>1, <3>1, <3>2 DEF Arrival
  <2>4. "user" \in Roles
    BY ConstantsAssumption
  <2>5. QED
    BY <1>2, <2>1, <2>2, <2>3, <2>4 DEF Request
<1>3. ASSUME NEW a \in Accounts, SweepTake(a)
      PROVE  Arrival(Sweep)
  <2> DEFINE o == [Idle EXCEPT !.pc = "lock", !.a = a]
  <2>1. o \in Op /\ o.pc = "lock" /\ o.kind = "sweep" /\ o.a = a
    BY <1>1 DEF Op, Pcs, Kinds, Idle
  <2>2. Arrives(Sweep, o)
    BY <1>3 DEF SweepTake, Begin, KeepAllButOp, env, Arrives
  <2> HIDE DEF o
  <2>3. QED
    BY <1>3, <2>1, <2>2 DEF SweepTake, Absent, Arrival
<1>4. QED
  BY <1>1, <1>2, <1>3 DEF Next, Work, Critical

\* Only the lock holder moves, so the others still wait or are idle.
LEMMA SectionKnows ==
    ASSUME TypeOK, WorkInv, NEW w \in Workers, Sectioned(w)
    PROVE  TypeOK' /\ WorkInv'
<1>1. TypeOK' /\ Section(w) /\ OpInv(op'[w], w)
  BY DEF Sectioned
<1>2. None \notin Workers /\ Sweep \notin Requests
  BY ConstantsAssumption
<1>3. \A x \in Workers : OpInv(op'[x], x)
  BY <1>1 DEF Section, WorkInv
<1>4. \A x \in Workers : lock' = x <=> op'[x].pc \notin {"idle", "lock"}
  <2>1. \A x \in Workers \ {w} : op[x].pc \in {"idle", "lock"}
    BY <1>1, <1>2 DEF Section, WorkInv, LockInv
  <2>2. QED
    BY <1>1, <2>1 DEF Section
<1>5. ASSUME lock' \notin Requests
      PROVE  DOMAIN tx' = {}
  <2>1. w = Sweep /\ tx' = tx /\ lock \notin Requests
    BY <1>1, <1>2, <1>5 DEF Section, Workers
  <2>2. QED
    BY <2>1 DEF WorkInv, LockInv
<1>6. QED
  BY <1>1, <1>3, <1>4, <1>5 DEF WorkInv, LockInv

LEMMA ArrivalKnows ==
    ASSUME TypeOK, WorkInv, NEW w \in Workers, Arrival(w)
    PROVE  TypeOK' /\ WorkInv'
<1>1. PICK o \in Op :
         /\ Arrives(w, o) /\ o.pc = "lock"
         /\ o.kind = "sweep" <=> w = Sweep
         /\ o.kind # "cleanup" => o.a \in Accounts
         /\ o.kind = "revoke" => o.to = "revoked"
  BY DEF Arrival
<1>2. /\ op[w].pc = "idle" /\ op'[w] = o /\ op' \in [Workers -> Op]
      /\ \A x \in Workers \ {w} : op'[x] = op[x]
      /\ UNCHANGED <<row, client, lock, tx, access, gateway, due, aged,
                     orphan, faults>>
  BY <1>1 DEF Arrives, TypeOK
<1>3. TypeOK'
  BY <1>2 DEF TypeOK
<1>4. OpInv(o, w)
  BY <1>1 DEF OpInv
<1>5. \A x \in Workers : OpInv(op'[x], x)
  BY <1>2, <1>4 DEF WorkInv
<1>6. \A x \in Workers : lock' = x <=> op'[x].pc \notin {"idle", "lock"}
  BY <1>1, <1>2 DEF WorkInv, LockInv
<1>7. QED
  BY <1>2, <1>3, <1>5, <1>6 DEF WorkInv, LockInv

\* The rows as the lock holder's session reads them.
LEMMA RowsForm ==
    ASSUME TypeOK
    PROVE  /\ Rows \in [Accounts -> Row]
           /\ \A a \in Accounts :
                /\ a \in DOMAIN tx => Rows[a] = tx[a]
                /\ a \notin DOMAIN tx => Rows[a] = row[a]
  BY DEF Rows, TypeOK

LEMMA ReleaseForm ==
    ASSUME TypeOK, WorkInv, NEW w \in Workers, Finish(w) \/ Crash(w)
    PROVE  /\ Releases(w)
           /\ Finish(w) => lock = w /\ op[w].pc = "done"
           /\ row' = row \/ (lock = w /\ w # Sweep /\ row' = Rows)
<1>1. CASE Finish(w)
  <2>1. op[w].pc = "done" /\ Releases(w)
    BY <1>1 DEF Finish, Releases
  <2>2. lock = w
    BY <2>1 DEF WorkInv, LockInv
  <2>3. QED
    BY <1>1, <2>1, <2>2 DEF Finish, InTx
<1>2. CASE Crash(w)
  <2>1. Releases(w) /\ row' = row
    BY <1>2 DEF Crash, Releases
  <2>2. QED
    BY <1>2, <2>1, <1>1
<1>3. QED
  BY <1>1, <1>2

LEMMA ReleaseKnows ==
    ASSUME TypeOK, WorkInv, NEW w \in Workers, Finish(w) \/ Crash(w)
    PROVE  TypeOK' /\ WorkInv'
<1>1. /\ op[w].pc # "idle" /\ op' = [op EXCEPT ![w] = Idle]
      /\ lock' = IF lock = w THEN None ELSE lock
      /\ tx' = IF lock = w THEN << >> ELSE tx
      /\ UNCHANGED <<client, orphan>>
  BY ReleaseForm DEF Releases
<1>2. Idle \in Op /\ Idle.pc = "idle" /\ None \notin Workers
      /\ Sweep \notin Requests
  BY IdleTypes, ConstantsAssumption
<1>3. op' \in [Workers -> Op] /\ op'[w] = Idle
      /\ \A x \in Workers \ {w} : op'[x] = op[x]
  BY <1>1, <1>2 DEF TypeOK
<1>4. row' \in [Accounts -> Row]
  BY ReleaseForm, RowsForm DEF TypeOK
<1>5. DOMAIN << >> = {}
  OBVIOUS
<1>6. DOMAIN tx' \subseteq Accounts /\ \A b \in DOMAIN tx' : tx'[b] \in Row
  BY <1>1, <1>5 DEF TypeOK
<1>7. /\ access' \in [Users -> Tiers] /\ gateway' \in {"present", "gone"}
      /\ due' \subseteq Accounts /\ aged' \subseteq Accounts
      /\ faults' \in 0 .. MaxFaults
  <2>1. NoAccess \in [Users -> Tiers]
    BY ConstantsAssumption DEF NoAccess
  <2>2. CASE Finish(w)
    BY <2>1, <2>2 DEF Finish, TypeOK
  <2>3. CASE Crash(w)
    BY <2>3, FaultForm DEF Crash, TypeOK, env
  <2>4. QED
    BY <2>2, <2>3
<1>8. TypeOK'
  BY <1>1, <1>3, <1>4, <1>6, <1>7 DEF TypeOK
<1>9. \A x \in Workers : OpInv(op'[x], x)
  BY <1>2, <1>3 DEF WorkInv, OpInv
<1>10. \A x \in Workers : lock' = x <=> op'[x].pc \notin {"idle", "lock"}
  BY <1>1, <1>2, <1>3 DEF WorkInv, LockInv
<1>11. lock' \notin Requests => DOMAIN tx' = {}
  BY <1>1, <1>5 DEF WorkInv, LockInv
<1>12. QED
  BY <1>8, <1>9, <1>10, <1>11 DEF WorkInv, LockInv

LEMMA OutsideKnows ==
    ASSUME TypeOK, WorkInv,
           \/ \E a \in Accounts : Orphans(a)
           \/ Environment
           \/ UNCHANGED vars
    PROVE  TypeOK' /\ WorkInv' /\ Outside
<1> SUFFICES TypeOK' /\ Outside
  BY DEF Outside, WorkInv, LockInv
<1>1. ASSUME NEW a \in Accounts, Orphans(a)
      PROVE  TypeOK' /\ Outside
  <2>1. UNCHANGED <<row, op, lock, tx, access, gateway, due, aged>>
        /\ (Fault \/ NoFault)
    BY <1>1 DEF Orphans, OrphanCheck, OrphanDelete, KeepAllButOrphan, env,
                NoFault
  <2>2. client' \in [Accounts -> Client] /\ orphan' \subseteq Accounts
    BY <1>1, ClientTypes, WithForm
       DEF Orphans, OrphanCheck, OrphanDelete, TypeOK
  <2>3. QED
    BY <2>1, <2>2, FaultForm DEF TypeOK, Outside
<1>2. CASE Environment
  <2>1. UNCHANGED <<row, client, op, lock, tx, orphan, faults>>
    BY <1>2 DEF Environment, ChangeAccess, Expire, Age, KeepAllButEnv
  <2>2. /\ access' \in [Users -> Tiers] /\ gateway' = gateway
        /\ due' \subseteq Accounts /\ aged' \subseteq Accounts
    BY <1>2 DEF Environment, ChangeAccess, Expire, Age, TypeOK
  <2>3. QED
    BY <2>1, <2>2 DEF TypeOK, Outside
<1>3. CASE UNCHANGED vars
  BY <1>3 DEF vars, TypeOK, Outside
<1>4. QED
  BY <1>1, <1>2, <1>3

LEMMA InitKnows ==
    ASSUME Init
    PROVE  TypeOK /\ WorkInv
<1>1. /\ Idle \in Op /\ Idle.pc = "idle" /\ NoRow \in Row
      /\ NoClient \in Client /\ None \notin Workers /\ Sweep \notin Requests
  BY IdleTypes, ConstantsAssumption
<1>2. DOMAIN << >> = {}
  OBVIOUS
<1>3. TypeOK
  BY <1>1, <1>2, ConstantsAssumption DEF Init, TypeOK
<1>4. \A w \in Workers : op[w].pc = "idle"
  BY <1>1 DEF Init
<1>5. QED
  BY <1>1, <1>2, <1>3, <1>4 DEF Init, WorkInv, LockInv, OpInv

LEMMA NextKnows ==
    ASSUME TypeOK, WorkInv, [Next]_vars
    PROVE  TypeOK' /\ WorkInv'
  BY StepForms, CriticalStep, SectionKnows, ArrivalKnows, ReleaseKnows,
     OutsideKnows

LEMMA Working == Spec => [](TypeOK /\ WorkInv)
<1>1. Init => TypeOK /\ WorkInv
  BY InitKnows
<1>2. TypeOK /\ WorkInv /\ [Next]_vars => (TypeOK /\ WorkInv)'
  BY NextKnows
<1>3. QED
  BY <1>1, <1>2, PTL DEF Spec

\* Every variable keeps its type: no lifecycle change, sweep or cleanup writes
\* a row, a client or a worker's memory that the others cannot read
\* (plugins/serviceAccounts/service.go, dao.go).
THEOREM ServiceAccountsTyped == Spec => []TypeOK
  BY Working, PTL

(***************************************************************************)
(* What a step does to the clients and the rows.  A client is enabled only *)
(* under the lock, while it is provisioned or repaired; a row is written   *)
(* as final only when its client is off; and a row on its way out never    *)
(* comes back.                                                             *)
(***************************************************************************)

Live == {"ready", "degraded"}
Final == Terminal \cup {"deleted"}
Over == Final \cup Ending

NoClientLeft == \A a \in Accounts : client[a].state = "absent"

\* What worker w may rely on at its stage.
StageOf(w) ==
    LET o == op[w] IN
    /\ o.pc = "provision" =>
         Rows[o.a].status = "provisioning" /\ gateway = "present"
    /\ o.pc = "project" \/ (o.pc = "settle" /\ o.to = "ready") =>
         row[o.a].status \in Live /\ Rows[o.a].status \in Live
    /\ o.pc = "erase" \/ (o.pc = "settle" /\ o.to \in Terminal) =>
         client[o.a].state # "enabled"
    /\ \/ o.pc \in {"eraseAll", "finalize"}
       \/ o.pc = "done" /\ o.kind = "cleanup" /\ o.ok
       => NoClientLeft

StageInv == \A w \in Workers : StageOf(w)

\* An account under creation has no row yet, and no other request touches it;
\* every other worker's account has one.
NewInv ==
    /\ \A w \in Requests : op[w].pc # "idle" /\ op[w].kind = "create" =>
         /\ row[op[w].a].status = "none"
         /\ \A x \in Requests \ {w} : op[x].pc # "idle" => op[x].a # op[w].a
    /\ \A w \in Workers :
         op[w].pc # "idle" /\ op[w].kind \notin {"create", "cleanup"} =>
           row[op[w].a].status # "none"
    /\ \A w \in Workers :
         op[w].pc # "idle" /\ op[w].kind = "cleanup" => op[w].a = None

\* What an open transaction has written.
TxInv ==
    \A a \in DOMAIN tx :
      /\ tx[a].status # "none"
      /\ row[a].status = "none" =>
           /\ lock \in Requests /\ op[lock].kind = "create"
           /\ op[lock].a = a
      /\ tx[a].status \in Final => client[a].state # "enabled"
      /\ row[a].status \in Over => tx[a].status \in Over

FinalInv ==
    \A a \in Accounts :
      row[a].status \in Final => client[a].state # "enabled"

GoneInv == gateway = "gone" => NoClientLeft

AccountInv == StageInv /\ NewInv /\ TxInv /\ FinalInv /\ GoneInv

\* No client is made and none is enabled.
Dimmed ==
    \A b \in Accounts :
      /\ client[b].state = "absent" => client'[b].state = "absent"
      /\ client'[b].state = "enabled" => client[b].state = "enabled"

\* The lock holder provisions or repairs its account's client.
Lights(w) ==
    /\ lock = w /\ op[w].pc \in {"provision", "project"}
    /\ \A b \in Accounts \ {op[w].a} : client'[b] = client[b]
    /\ op[w].pc = "project" => client[op[w].a].state # "absent"

\* A row r that worker w may write for account b.
Proper(w, b, r) ==
    /\ r.status # "none"
    /\ r.status \in Final => client'[b].state # "enabled"
    /\ row[b].status \in Over => r.status \in Over
    /\ \/ op[w].kind # "cleanup" /\ b = op[w].a
       \/ op[w].kind = "cleanup" /\ Rows[b].status \notin Absent

Writes(w) ==
    \/ UNCHANGED <<row, tx>>
    \/ \E b \in Accounts, r \in Row :
         /\ Proper(w, b, r)
         /\ \/ /\ w # Sweep /\ row' = row
               /\ DOMAIN tx' = DOMAIN tx \cup {b} /\ tx'[b] = r
               /\ \A x \in DOMAIN tx \ {b} : tx'[x] = tx[x]
            \/ w = Sweep /\ tx' = tx /\ row' = [row EXCEPT ![b] = r]

Effect(w) == (Dimmed \/ Lights(w)) /\ Writes(w) /\ StageOf(w)'

\* What a call to Keycloak that only takes away leaves.
LEMMA OutcomeForm ==
    ASSUME TypeOK, NEW a \in Accounts, NEW c, With(a, c),
           \/ c \in DeleteOutcomes(a) \cup {NoClient}
           \/ \E uuid \in BOOLEAN : c \in WindDownOutcomes(a, uuid)
    PROVE  /\ Dimmed
           /\ c # client[a] => client'[a].state # "enabled"
<1>1. /\ client \in [Accounts -> Client] /\ client[a] \in Client
      /\ client' = [client EXCEPT ![a] = c]
  BY DEF TypeOK, With
<1>2. c \in {client[a], NoClient, Disabled(a)}
  BY DEF DeleteOutcomes, WindDownOutcomes
<1>3. /\ client[a].state = "absent" => Disabled(a).state = "absent"
      /\ Disabled(a).state # "enabled" /\ NoClient.state = "absent"
  BY <1>1 DEF Disabled, InState, Client, NoClient
<1>4. QED
  BY <1>1, <1>2, <1>3 DEF Dimmed

LEMMA WoundDownForm ==
    ASSUME TypeOK, NEW a \in Accounts, NEW uuid \in BOOLEAN,
           With(a, WoundDown(a, uuid))
    PROVE  Dimmed /\ client'[a].state # "enabled"
<1>1. /\ client \in [Accounts -> Client] /\ client[a] \in Client
      /\ client' = [client EXCEPT ![a] = WoundDown(a, uuid)]
  BY DEF TypeOK, With
<1>2. WoundDown(a, uuid) \in {NoClient, Disabled(a)}
  BY DEF WoundDown
<1>3. /\ client[a].state = "absent" => Disabled(a).state = "absent"
      /\ Disabled(a).state # "enabled" /\ NoClient.state = "absent"
  BY <1>1 DEF Disabled, InState, Client, NoClient
<1>4. QED
  BY <1>1, <1>2, <1>3 DEF Dimmed

LEMMA NoClientForm ==
    ASSUME TypeOK, NEW a \in Accounts, With(a, NoClient)
    PROVE  Dimmed /\ client'[a].state # "enabled"
<1>1. client' = [client EXCEPT ![a] = NoClient]
      /\ client \in [Accounts -> Client] /\ NoClient.state = "absent"
  BY DEF TypeOK, With, NoClient
<1>2. QED
  BY <1>1 DEF Dimmed

LEMMA SaveWrites ==
    ASSUME TypeOK, NEW w \in Workers, NEW b \in Accounts, NEW r \in Row,
           Save(w, b, r), Proper(w, b, r)
    PROVE  Writes(w)
  BY SaveForm DEF Writes

LEMMA StoreWrites ==
    ASSUME TypeOK, NEW w \in Workers, op[w].a \in Accounts, NEW r \in Row,
           Store(w, r),
           w # Sweep \/ row[op[w].a].status = op[w].acct.status
             => Proper(w, op[w].a, r)
    PROVE  Writes(w)
<1>1. CASE w # Sweep
  BY <1>1, SaveWrites DEF Store
<1>2. CASE w = Sweep /\ row[op[w].a].status = op[w].acct.status
  BY <1>2 DEF Store, ConditionalUpdate, Writes
<1>3. CASE w = Sweep /\ row[op[w].a].status # op[w].acct.status
  BY <1>3 DEF Store, ConditionalUpdate, Writes
<1>4. QED
  BY <1>1, <1>2, <1>3

\* A stage that relies on nothing.
LEMMA PlainStage ==
    ASSUME NEW w \in Workers,
           op'[w].pc \notin {"provision", "project", "erase", "settle",
                             "eraseAll", "finalize"},
           op'[w].pc = "done" /\ op'[w].kind = "cleanup" => ~op'[w].ok
    PROVE  StageOf(w)'
  BY DEF StageOf

LEMMA SameDimmed ==
    ASSUME client' = client
    PROVE  Dimmed
  BY DEF Dimmed

LEMMA NothingWritten ==
    ASSUME NEW w \in Workers, NoSave
    PROVE  Writes(w)
  BY DEF NoSave, Writes

\* Taking the lock finds an empty transaction.
LEMMA EnterRows ==
    ASSUME TypeOK, WorkInv, NEW w \in Workers, NEW kind, Enter(w, kind)
    PROVE  DOMAIN tx = {} /\ \A a \in Accounts : Rows[a] = row[a]
<1>1. None \notin Requests
  BY IdleTypes
<1>2. DOMAIN tx = {}
  BY <1>1 DEF Enter, WorkInv, LockInv
<1>3. QED
  BY <1>2, RowsForm

LEMMA RefuseEffect ==
    ASSUME TypeOK, WorkInv, NEW w \in Workers, Refuse(w), KeepWorld
    PROVE  Effect(w)
  BY DoneForm, PlainStage, SameDimmed, NothingWritten
     DEF Refuse, KeepWorld, Effect

\* A request's first write.
LEMMA AuditedEffect ==
    ASSUME TypeOK, WorkInv, NEW w \in Workers, NEW kind \in Kinds,
           kind \notin {"sweep", "cleanup"}, Enter(w, kind),
           NEW pc \in Pcs \ {"idle", "lock"}, NEW r \in Row,
           SaveAndAudit(w, pc, r), KeepWorld,
           r.status \notin Final \cup {"none"},
           row[op[w].a].status \in Over => r.status \in Over,
           op'[w].pc = pc /\ op'[w].kind # "cleanup" => StageOf(w)'
    PROVE  Effect(w)
<1>1. op[w].a \in Accounts /\ w # Sweep /\ op[w].kind = kind
  BY EnterForm
<1>2. Proper(w, op[w].a, r)
  BY <1>1 DEF Proper
<1>3. Writes(w)
  BY <1>1, <1>2, SaveAndAuditForm, SaveWrites
<1>4. Dimmed
  BY SameDimmed DEF KeepWorld
<1>5. StageOf(w)'
  BY <1>1, SaveAndAuditForm, PlainStage
<1>6. QED
  BY <1>3, <1>4, <1>5 DEF Effect

LEMMA AuditedRows ==
    ASSUME TypeOK, NEW w \in Workers \ {Sweep}, op[w].a \in Accounts,
           NEW pc \in Pcs \ {"idle", "lock"}, NEW r \in Row,
           SaveAndAudit(w, pc, r)
    PROVE  row' = row /\ op'[w].a = op[w].a /\ Rows'[op[w].a] = r
<1>1. Save(w, op[w].a, r) /\ op'[w].a = op[w].a
  BY SaveAndAuditForm
<1>2. row' = row /\ op[w].a \in DOMAIN tx' /\ tx'[op[w].a] = r
  BY <1>1 DEF Save, InTx
<1>3. QED
  BY <1>1, <1>2 DEF Rows

LEMMA CreateBeginEffect ==
    ASSUME TypeOK, WorkInv, AccountInv, NEW w \in Workers, CreateBegin(w)
    PROVE  Effect(w)
<1> DEFINE r == [status |-> "provisioning", uuid |-> FALSE,
                 role |-> op[w].want, creator |-> op[w].u]
<1>1. Enter(w, "create") /\ KeepWorld
  BY DEF CreateBegin
<1>2. r \in Row /\ r.status = "provisioning"
  BY DEF TypeOK, Op, Row, Statuses
<1>3. op[w].kind = "create" /\ op[w].a \in Accounts /\ w # Sweep
      /\ op[w].pc = "lock"
  BY <1>1, EnterForm
<1>4. CASE SaveAndAudit(w, "provision", r) /\ gateway = "present"
  <2> HIDE DEF r
  <2>1. row[op[w].a].status = "none"
    BY <1>3 DEF AccountInv, NewInv, Workers
  <2>2. op'[w].a = op[w].a /\ Rows'[op[w].a] = r
    BY <1>2, <1>3, <1>4, AuditedRows DEF Pcs
  <2>3. gateway' = "present"
    BY <1>1, <1>4 DEF KeepWorld, env
  <2>4. op'[w].pc = "provision" => StageOf(w)'
    BY <1>2, <2>2, <2>3 DEF StageOf
  <2>5. QED
    BY <1>1, <1>2, <1>4, <2>1, <2>4, AuditedEffect
       DEF Pcs, Kinds, Final, Terminal, Over, Ending
<1>5. QED
  BY <1>1, <1>4, RefuseEffect DEF CreateBegin

LEMMA RevokeBeginEffect ==
    ASSUME TypeOK, WorkInv, AccountInv, NEW w \in Workers, RevokeBegin(w)
    PROVE  Effect(w)
<1> DEFINE cur == row[op[w].a]
           r == [cur EXCEPT !.status = "revoking"]
<1>1. Enter(w, "revoke") /\ KeepWorld
  BY DEF RevokeBegin
<1>2. op[w].kind = "revoke" /\ op[w].a \in Accounts /\ w # Sweep
  BY <1>1, EnterForm
<1>3. cur \in Row /\ r \in Row /\ r.status = "revoking"
  BY <1>2 DEF TypeOK, Row, Statuses
<1>4. CASE Refuse(w)
  BY <1>1, <1>4, RefuseEffect
<1>5. CASE Proceed(w, "redisable", cur) /\ NoSave
  <2>1. op'[w].pc = "redisable"
    BY <1>3, <1>5, ProceedForm DEF Pcs
  <2>2. QED
    BY <1>1, <1>5, <2>1, PlainStage, SameDimmed, NothingWritten
       DEF KeepWorld, Effect
<1>6. CASE SaveAndAudit(w, "disable", r)
  <2> HIDE DEF r
  <2>1. op'[w].pc = "disable" => StageOf(w)'
    BY PlainStage
  <2>2. QED
    BY <1>1, <1>3, <1>6, <2>1, AuditedEffect
       DEF Pcs, Kinds, Final, Terminal, Over, Ending
<1>7. QED
  BY <1>4, <1>5, <1>6 DEF RevokeBegin

LEMMA RoleBeginEffect ==
    ASSUME TypeOK, WorkInv, AccountInv, NEW w \in Workers, RoleBegin(w)
    PROVE  Effect(w)
<1> DEFINE cur == row[op[w].a]
           r == [cur EXCEPT !.role = op[w].want]
<1>1. Enter(w, "role") /\ KeepWorld
  BY DEF RoleBegin
<1>2. op[w].kind = "role" /\ op[w].a \in Accounts /\ w # Sweep
  BY <1>1, EnterForm
<1>3. cur \in Row /\ r \in Row /\ r.status = cur.status
  <2>1. cur \in Row /\ op[w].want \in Roles
    BY <1>2 DEF TypeOK, Op
  <2>2. r \in Row
    BY <2>1, RowTypes
  <2>3. r.status = cur.status
    BY <2>1 DEF Row
  <2>4. QED
    BY <2>1, <2>2, <2>3
<1>4. CASE Refuse(w)
  BY <1>1, <1>4, RefuseEffect
<1>5. ASSUME NEW pc \in {"done", "project"}, SaveAndAudit(w, pc, r),
             cur.status \in Live
      PROVE  Effect(w)
  <2> HIDE DEF r
  <2>1. row' = row /\ op'[w].a = op[w].a /\ Rows'[op[w].a] = r
    BY <1>2, <1>3, <1>5, AuditedRows DEF Pcs
  <2>2. row'[op'[w].a].status \in Live /\ Rows'[op'[w].a].status \in Live
    BY <1>3, <1>5, <2>1
  <2>3. op'[w].pc = pc /\ op'[w].kind # "cleanup" => StageOf(w)'
    BY <1>5, <2>2 DEF StageOf
  <2>4. cur.status \notin Over /\ cur.status \notin Final \cup {"none"}
    BY <1>5 DEF Live, Over, Final, Terminal, Ending
  <2> HIDE DEF cur
  <2>5. QED
    BY <1>1, <1>3, <1>5, <2>3, <2>4, AuditedEffect DEF Pcs, Kinds, cur
<1>6. QED
  BY <1>4, <1>5 DEF RoleBegin, Live

LEMMA DeleteBeginEffect ==
    ASSUME TypeOK, WorkInv, AccountInv, NEW w \in Workers, DeleteBegin(w)
    PROVE  Effect(w)
<1> DEFINE r == [row[op[w].a] EXCEPT !.status = "deleting"]
<1>1. Enter(w, "delete") /\ KeepWorld
  BY DEF DeleteBegin
<1>2. op[w].kind = "delete" /\ op[w].a \in Accounts /\ w # Sweep
  BY <1>1, EnterForm
<1>3. r \in Row /\ r.status = "deleting"
  BY <1>2 DEF TypeOK, Row, Statuses
<1>4. CASE SaveAndAudit(w, "purge", r)
  <2> HIDE DEF r
  <2>1. op'[w].pc = "purge" => StageOf(w)'
    BY PlainStage
  <2>2. QED
    BY <1>1, <1>3, <1>4, <2>1, AuditedEffect
       DEF Pcs, Kinds, Final, Terminal, Over, Ending
<1>5. QED
  BY <1>1, <1>4, RefuseEffect DEF DeleteBegin

LEMMA CleanupBeginEffect ==
    ASSUME TypeOK, WorkInv, AccountInv, NEW w \in Workers, CleanupBegin(w)
    PROVE  Effect(w)
<1>1. Goto(w, "wipe") /\ NoSave /\ KeepWorld
  BY DEF CleanupBegin
<1>2. op'[w].pc = "wipe"
  BY <1>1, GotoForm DEF Pcs
<1>3. QED
  BY <1>1, <1>2, PlainStage, SameDimmed, NothingWritten
     DEF KeepWorld, Effect

LEMMA SweepBeginEffect ==
    ASSUME TypeOK, WorkInv, AccountInv, NEW w \in Workers, SweepBegin(w)
    PROVE  Effect(w)
<1> DEFINE a == op[w].a
<1>1. /\ w = Sweep /\ a \in Accounts /\ op[w].kind = "sweep"
      /\ op[w].pc = "lock" /\ Enter(w, "sweep") /\ KeepWorld
  BY SweepDecides, EnterForm
<1>2. row[a] \in Row /\ row[a].status # "none"
  BY <1>1 DEF TypeOK, AccountInv, NewInv
<1>3. Dimmed
  BY <1>1, SameDimmed DEF KeepWorld
<1>4. Writes(w)
  <2>1. CASE NoSave
    BY <2>1, NothingWritten
  <2>2. CASE tx' = tx /\ row' = [row EXCEPT ![a].status = "error"]
    <3> DEFINE r == [row[a] EXCEPT !.status = "error"]
    <3>1. r \in Row /\ r.status = "error" /\ row' = [row EXCEPT ![a] = r]
      BY <1>1, <1>2, <2>2 DEF TypeOK, Row, Statuses
    <3> HIDE DEF r
    <3>2. Proper(w, a, r)
      BY <1>1, <3>1 DEF Proper, Final, Terminal, Over, Ending
    <3>3. QED
      BY <1>1, <2>2, <3>1, <3>2 DEF Writes
  <2>3. QED
    BY <2>1, <2>2, SweepDecides
<1>5. StageOf(w)'
  <2>1. CASE Done(w)
    BY <2>1, DoneForm, PlainStage
  <2>2. ASSUME NEW pc \in Pcs, NEW to \in Statuses, NEW want \in Roles,
               Goes(w, pc, row[a], to, want), SweepDecision(to, pc),
               pc # "done", NoSave
        PROVE  StageOf(w)'
    <3>1. op'[w].pc = pc /\ op'[w].a = a
      BY <1>2, <2>2, GoForm
    <3>2. CASE pc # "project"
      <4>1. pc \in {"purge", "undelivered", "redisable", "disable"}
        BY <2>2, <3>2 DEF SweepDecision
      <4>2. QED
        BY <3>1, <4>1, PlainStage
    <3>3. CASE pc = "project"
      <4>1. row[a].status \in Live
        BY <1>1, <2>2, <3>3 DEF SweepDecision, Live
      <4>2. row' = row /\ tx' = tx /\ DOMAIN tx = {}
        BY <1>1, <2>2, EnterRows DEF NoSave
      <4>3. Rows'[a] = row'[a]
        BY <1>1, <4>2 DEF Rows
      <4>4. QED
        BY <3>1, <3>3, <4>1, <4>2, <4>3 DEF StageOf
    <3>4. QED
      BY <3>2, <3>3
  <2>3. \/ Done(w)
        \/ /\ NoSave
           /\ \E pc \in Pcs, to \in Statuses, want \in Roles :
                /\ Goes(w, pc, row[op[w].a], to, want)
                /\ SweepDecision(to, pc) /\ pc # "done"
    BY SweepDecides
  <2>4. QED
    BY <2>1, <2>2, <2>3
<1>6. QED
  BY <1>3, <1>4, <1>5 DEF Effect

LEMMA ProvisionEffect ==
    ASSUME TypeOK, WorkInv, AccountInv, NEW w \in Workers, Provision(w)
    PROVE  Effect(w)
<1>1. At(w, "provision") /\ NoSave
  BY DEF Provision
<1>2. op[w].a \in Accounts /\ lock = w /\ op[w].pc = "provision"
  BY <1>1, AtForm
<1>3. \A b \in Accounts \ {op[w].a} : client'[b] = client[b]
  BY <1>2 DEF Provision, With, TypeOK
<1>4. Lights(w)
  BY <1>2, <1>3 DEF Lights
<1>5. Goto(w, "recheck") \/ Goto(w, "undelivered")
  BY DEF Provision
<1>6. op'[w].pc \in {"recheck", "undelivered"}
  BY <1>5, GotoForm DEF Pcs
<1>7. QED
  BY <1>1, <1>4, <1>6, PlainStage, NothingWritten DEF Effect

LEMMA UndeliveredEffect ==
    ASSUME TypeOK, WorkInv, AccountInv, NEW w \in Workers, Undelivered(w)
    PROVE  Effect(w)
<1> DEFINE a == op[w].a
           r == [op[w].acct EXCEPT !.status = "error"]
<1>1. At(w, "undelivered") /\ client' = client
  BY DEF Undelivered
<1>2. a \in Accounts /\ op[w].kind # "cleanup" /\ r \in Row
      /\ r.status = "error"
  <2>1. op[w].acct \in Row
    BY <1>1, AtForm DEF Op
  <2>2. r \in Row /\ r.status = "error"
    BY <2>1 DEF Row, Statuses
  <2>3. QED
    BY <1>1, <2>2, AtForm
<1>3. Proper(w, a, r)
  BY <1>2 DEF Proper, Final, Terminal, Over, Ending
<1>4. Writes(w)
  BY <1>2, <1>3, SaveWrites, NothingWritten DEF Undelivered
<1>5. CASE Fail(w)
  BY <1>1, <1>4, <1>5, DoneForm, PlainStage, SameDimmed DEF Effect
<1>6. CASE op' = [op EXCEPT ![w].pc = "purge", ![w].acct = r]
  <2>1. Proceed(w, "purge", r)
    BY <1>6 DEF Proceed
  <2> HIDE DEF r
  <2>2. op'[w].pc = "purge"
    BY <1>2, <2>1, ProceedForm DEF Pcs
  <2>3. QED
    BY <1>1, <1>4, <2>2, PlainStage, SameDimmed DEF Effect
<1>7. QED
  BY <1>5, <1>6 DEF Undelivered

LEMMA PurgeEffect ==
    ASSUME TypeOK, WorkInv, AccountInv, NEW w \in Workers, Purge(w)
    PROVE  Effect(w)
<1>1. At(w, "purge") /\ NoSave
  BY DEF Purge
<1>2. op[w].a \in Accounts
  BY <1>1, AtForm
<1>3. CASE Done(w)
  BY <1>1, <1>2, <1>3, OutcomeForm, NoClientForm, DoneForm, PlainStage,
     NothingWritten
     DEF Purge, Effect
<1>4. CASE With(op[w].a, NoClient) /\ Goto(w, "erase")
  <2>1. op'[w].pc = "erase" /\ op'[w].a = op[w].a
    BY <1>4, GotoForm DEF Pcs
  <2>2. Dimmed /\ client'[op[w].a].state # "enabled"
    BY <1>2, <1>4, NoClientForm
  <2>3. StageOf(w)'
    BY <2>1, <2>2 DEF StageOf
  <2>4. QED
    BY <1>1, <2>2, <2>3, NothingWritten DEF Effect
<1>5. QED
  BY <1>3, <1>4 DEF Purge

LEMMA EraseEffect ==
    ASSUME TypeOK, WorkInv, AccountInv, NEW w \in Workers, Erase(w)
    PROVE  Effect(w)
<1>1. At(w, "erase") /\ client' = client /\ (Done(w) \/ Fail(w))
      /\ (NoSave \/ Save(w, op[w].a, DeletedRow))
  BY DEF Erase
<1>2. op[w].a \in Accounts /\ op[w].kind # "cleanup"
      /\ client[op[w].a].state # "enabled"
  BY <1>1, AtForm DEF AccountInv, StageInv, StageOf
<1>3. DeletedRow \in Row /\ DeletedRow.status = "deleted"
  BY IdleTypes DEF DeletedRow, NoRow
<1>4. Proper(w, op[w].a, DeletedRow)
  BY <1>1, <1>2, <1>3 DEF Proper, Over, Final
<1>5. Writes(w)
  BY <1>1, <1>2, <1>3, <1>4, SaveWrites, NothingWritten
<1>6. QED
  BY <1>1, <1>5, DoneForm, PlainStage, SameDimmed DEF Effect

LEMMA RecheckEffect ==
    ASSUME TypeOK, WorkInv, AccountInv, NEW w \in Workers, Recheck(w)
    PROVE  Effect(w)
<1>1. NoSave /\ client' = client /\ (Goto(w, "deliver") \/ Goto(w, "drop"))
  BY DEF Recheck
<1>2. op'[w].pc \in {"deliver", "drop"}
  BY <1>1, GotoForm DEF Pcs
<1>3. QED
  BY <1>1, <1>2, PlainStage, SameDimmed, NothingWritten DEF Effect

\* A patched row carries its status.
LEMMA PatchForm ==
    ASSUME NEW r \in Row, NEW st \in Statuses
    PROVE  /\ [r EXCEPT !.status = st] \in Row
           /\ [r EXCEPT !.status = st].status = st
           /\ [r EXCEPT !.status = st, !.uuid = TRUE] \in Row
           /\ [r EXCEPT !.status = st, !.uuid = TRUE].status = st
  BY DEF Row

LEMMA StatusForm ==
    /\ {"error", "degraded", "ready"} \subseteq Statuses
    /\ {"error", "degraded", "ready"} \cap (Final \cup {"none"}) = {}
    /\ Terminal \subseteq Over /\ "error" \in Over
    /\ Live \cap Over = {} /\ "none" \notin Over \cup Live
    /\ "ready" \in Live /\ "none" \notin Terminal /\ "ready" \notin Terminal
    /\ "revoked" \in Terminal
  BY DEF Statuses, Final, Terminal, Over, Ending, Live

LEMMA DropEffect ==
    ASSUME TypeOK, WorkInv, AccountInv, NEW w \in Workers, Drop(w)
    PROVE  Effect(w)
<1> DEFINE a == op[w].a
           acct == [op[w].acct EXCEPT !.uuid = TRUE]
           r == [acct EXCEPT !.status = "error"]
<1>1. At(w, "drop")
  BY DEF Drop
<1>2. a \in Accounts /\ op[w].kind # "cleanup" /\ op[w] \in Op
  BY <1>1, AtForm
<1>3. acct \in Row
  BY <1>2, RowTypes DEF Op
<1>4. r \in Row /\ r.status = "error"
  BY <1>3, PatchForm, StatusForm
<1>5. CASE /\ With(a, NoClient) /\ NoSave
           /\ op' = [op EXCEPT ![w].pc = "settle", ![w].to = "revoked",
                               ![w].acct = acct]
  <2>1. op'[w].pc = "settle" /\ op'[w].a = a /\ op'[w].to = "revoked"
    BY <1>2, <1>5 DEF TypeOK, Op
  <2>2. Dimmed /\ client'[a].state # "enabled"
    BY <1>2, <1>5, NoClientForm
  <2>3. StageOf(w)'
    BY <2>1, <2>2 DEF StageOf
  <2>4. QED
    BY <1>5, <2>2, <2>3, NothingWritten DEF Effect
<1>6. CASE /\ \E c \in DeleteOutcomes(a) : With(a, c)
           /\ Save(w, a, r) /\ Done(w)
  <2> HIDE DEF r
  <2>1. Dimmed
    BY <1>2, <1>6, OutcomeForm
  <2>2. Proper(w, a, r)
    BY <1>2, <1>4, StatusForm DEF Proper
  <2>3. Writes(w)
    BY <1>2, <1>4, <1>6, <2>2, SaveWrites
  <2>4. QED
    BY <1>6, <2>1, <2>3, DoneForm, PlainStage DEF Effect
<1>7. QED
  BY <1>5, <1>6 DEF Drop

LEMMA DeliverEffect ==
    ASSUME TypeOK, WorkInv, AccountInv, NEW w \in Workers, Deliver(w)
    PROVE  Effect(w)
<1> DEFINE a == op[w].a
           acct(st) == [op[w].acct EXCEPT !.status = st, !.uuid = TRUE]
<1>1. At(w, "deliver")
  BY DEF Deliver
<1>2. a \in Accounts /\ op[w].kind = "create" /\ op[w] \in Op /\ w # Sweep
      /\ op[w].pc = "deliver"
  BY <1>1, AtForm DEF OpInv
<1>3. row[a].status = "none"
  BY <1>2 DEF AccountInv, NewInv, Workers
<1>4. \A st \in {"ready", "error"} :
        acct(st) \in Row /\ acct(st).status = st
  BY <1>2 DEF Op, Row, Statuses
<1> HIDE DEF acct
<1>5. \A st \in {"ready", "error"} : Proper(w, a, acct(st))
  BY <1>2, <1>3, <1>4, StatusForm DEF Proper
<1>6. Writes(w)
  BY <1>2, <1>4, <1>5, SaveWrites, NothingWritten DEF Deliver, acct
<1>7. Dimmed
  BY <1>2, OutcomeForm, SameDimmed DEF Deliver
<1>8. op'[w].pc = "done" /\ op'[w].kind = "create"
  BY <1>2, DoneForm, EndForm DEF Deliver
<1>9. QED
  BY <1>6, <1>7, <1>8, PlainStage DEF Effect

LEMMA DisableEffect ==
    ASSUME TypeOK, WorkInv, AccountInv, NEW w \in Workers, Disable(w)
    PROVE  Effect(w)
<1> DEFINE a == op[w].a
           r == [op[w].acct EXCEPT !.status = "degraded"]
<1>1. At(w, "disable")
  BY DEF Disable
<1>2. /\ a \in Accounts /\ op[w].kind # "cleanup" /\ op[w] \in Op
      /\ op[w].acct \in Row /\ op[w].acct.uuid \in BOOLEAN
      /\ op[w].to \in Terminal
      /\ w # Sweep => op[w].acct.status = "revoking"
  BY <1>1, AtForm DEF OpInv, Op, Row, Terminal
<1>3. r \in Row /\ r.status = "degraded"
  BY <1>2, PatchForm, StatusForm
<1>4. CASE With(a, WoundDown(a, op[w].acct.uuid)) /\ Goto(w, "settle")
           /\ NoSave
  <2>1. op'[w].pc = "settle" /\ op'[w].a = a /\ op'[w].to \in Terminal
    BY <1>2, <1>4, GotoForm DEF Pcs
  <2>2. Dimmed /\ client'[a].state # "enabled"
    BY <1>2, <1>4, WoundDownForm
  <2>3. StageOf(w)'
    BY <2>1, <2>2, StatusForm DEF StageOf
  <2>4. QED
    BY <1>4, <2>2, <2>3, NothingWritten DEF Effect
<1>5. CASE /\ \E c \in WindDownOutcomes(a, op[w].acct.uuid) : With(a, c)
           /\ IF op[w].acct.status = "ready" THEN Store(w, r) ELSE NoSave
           /\ Done(w)
  <2> HIDE DEF r
  <2>1. Dimmed
    BY <1>2, <1>5, OutcomeForm
  <2>2. Writes(w)
    <3>1. CASE op[w].acct.status = "ready" /\ Store(w, r)
      <4>1. w = Sweep
        BY <1>2, <3>1
      <4>2. row[a].status = op[w].acct.status => Proper(w, a, r)
        BY <1>2, <1>3, <3>1, StatusForm DEF Proper
      <4>3. QED
        BY <1>2, <1>3, <3>1, <4>1, <4>2, StoreWrites
    <3>2. QED
      BY <1>5, <3>1, NothingWritten
  <2>3. QED
    BY <1>5, <2>1, <2>2, DoneForm, PlainStage DEF Effect
<1>6. QED
  BY <1>4, <1>5 DEF Disable

LEMMA RedisableEffect ==
    ASSUME TypeOK, WorkInv, AccountInv, NEW w \in Workers, Redisable(w)
    PROVE  Effect(w)
<1>1. At(w, "redisable") /\ Done(w) /\ NoSave
  BY DEF Redisable
<1>2. op[w].a \in Accounts /\ op[w].acct.uuid \in BOOLEAN
  BY <1>1, AtForm DEF Op, Row
<1>3. Dimmed
  BY <1>2, OutcomeForm, WoundDownForm DEF Redisable
<1>4. QED
  BY <1>1, <1>3, DoneForm, PlainStage, NothingWritten DEF Effect

LEMMA ProjectEffect ==
    ASSUME TypeOK, WorkInv, AccountInv, NEW w \in Workers, Project(w)
    PROVE  Effect(w)
<1> DEFINE a == op[w].a
           acct(st) == [op[w].acct EXCEPT !.status = st]
<1>1. At(w, "project")
  BY DEF Project
<1>2. a \in Accounts /\ op[w].kind # "cleanup" /\ op[w] \in Op /\ lock = w
      /\ op[w].pc = "project"
      /\ row[a].status \in Live /\ Rows[a].status \in Live
  BY <1>1, AtForm DEF AccountInv, StageInv, StageOf
<1>3. \A st \in {"error", "degraded"} :
        acct(st) \in Row /\ acct(st).status = st
  BY <1>2 DEF Op, Row, Statuses
<1>4. Dimmed \/ Lights(w)
  <2>1. CASE client' = client
    BY <2>1, SameDimmed
  <2>2. CASE client[a].state # "absent" /\ \E c : With(a, c)
    BY <1>2, <2>2 DEF With, Lights, TypeOK
  <2>3. QED
    BY <2>1, <2>2 DEF Project
<1>5. CASE (Store(w, acct("error")) /\ Done(w))
           \/ (Store(w, acct("degraded")) /\ Done(w))
           \/ (NoSave /\ Done(w))
  <2> HIDE DEF acct
  <2>1. \A st \in {"error", "degraded"} : Proper(w, a, acct(st))
    BY <1>2, <1>3, StatusForm DEF Proper
  <2>2. Writes(w)
    BY <1>2, <1>3, <1>5, <2>1, StoreWrites, NothingWritten
  <2>3. QED
    BY <1>4, <1>5, <2>2, DoneForm, PlainStage DEF Effect
<1>6. CASE /\ NoSave
           /\ op' = [op EXCEPT ![w].pc = "settle", ![w].to = "ready",
                               ![w].acct.role = op[w].want]
  <2>1. op'[w].pc = "settle" /\ op'[w].a = a /\ op'[w].to = "ready"
    BY <1>2, <1>6 DEF TypeOK, Op
  <2>2. row' = row /\ Rows' = Rows
    BY <1>6 DEF NoSave, Rows
  <2>3. StageOf(w)'
    BY <1>2, <2>1, <2>2, StatusForm DEF StageOf
  <2>4. QED
    BY <1>4, <1>6, <2>3, NothingWritten DEF Effect
<1>7. QED
  BY <1>5, <1>6 DEF Project

LEMMA SettleEffect ==
    ASSUME TypeOK, WorkInv, AccountInv, NEW w \in Workers, Settle(w)
    PROVE  Effect(w)
<1> DEFINE a == op[w].a
           acct(st) == [op[w].acct EXCEPT !.status = st]
<1>1. At(w, "settle") /\ client' = client /\ (Done(w) \/ Fail(w))
  BY DEF Settle
<1>2. /\ a \in Accounts /\ op[w].kind # "cleanup" /\ op[w] \in Op
      /\ \/ op[w].to \in Terminal /\ client[a].state # "enabled"
         \/ op[w].to = "ready" /\ row[a].status \in Live
      /\ op[w].kind = "create" =>
           op[w].to \in Terminal /\ client[a].state # "enabled"
  BY <1>1, AtForm DEF OpInv, AccountInv, StageInv, StageOf
<1>3. \A st \in {op[w].to, "error"} :
        acct(st) \in Row /\ acct(st).status = st
  BY <1>2 DEF Op, Row, Statuses
<1> HIDE DEF acct
<1>4. Proper(w, a, acct(op[w].to)) /\ Proper(w, a, acct("error"))
  BY <1>1, <1>2, <1>3, StatusForm DEF Proper, Final
<1>5. Writes(w)
  BY <1>2, <1>3, <1>4, StoreWrites, SaveWrites, NothingWritten
     DEF Settle, acct
<1>6. QED
  BY <1>1, <1>5, DoneForm, PlainStage, SameDimmed DEF Effect

LEMMA WipeEffect ==
    ASSUME TypeOK, WorkInv, AccountInv, NEW w \in Workers, Wipe(w)
    PROVE  Effect(w)
<1>1. NoSave
  BY DEF Wipe
<1>2. CASE client' = [a \in Accounts |-> NoClient] /\ Goto(w, "eraseAll")
  <2>1. \A a \in Accounts : client'[a].state = "absent"
    BY <1>2 DEF NoClient
  <2>2. op'[w].pc = "eraseAll"
    BY <1>2, GotoForm DEF Pcs
  <2>3. Dimmed /\ StageOf(w)'
    BY <2>1, <2>2 DEF Dimmed, StageOf, NoClientLeft
  <2>4. QED
    BY <1>1, <2>3, NothingWritten DEF Effect
<1>3. CASE Done(w) /\ \A a \in Accounts : client'[a] \in DeleteOutcomes(a)
  <2>1. ASSUME NEW a \in Accounts
        PROVE  /\ client[a].state = "absent" => client'[a].state = "absent"
               /\ client'[a].state = "enabled" => client[a].state = "enabled"
    <3>1. client[a] \in Client
      BY DEF TypeOK
    <3>2. client'[a] \in {client[a], Disabled(a), NoClient}
      BY <1>3 DEF DeleteOutcomes
    <3>3. /\ client[a].state = "absent" => Disabled(a).state = "absent"
          /\ Disabled(a).state # "enabled" /\ NoClient.state = "absent"
      BY <3>1 DEF Disabled, InState, Client, NoClient
    <3>4. QED
      BY <3>2, <3>3
  <2>2. Dimmed
    BY <2>1 DEF Dimmed
  <2>3. QED
    BY <1>1, <1>3, <2>2, DoneForm, PlainStage, NothingWritten DEF Effect
<1>4. QED
  BY <1>2, <1>3 DEF Wipe

LEMMA EraseAllEffect ==
    ASSUME TypeOK, WorkInv, AccountInv, NEW w \in Workers, EraseAll(w)
    PROVE  Effect(w)
<1>1. At(w, "eraseAll") /\ client' = client
  BY DEF EraseAll
<1>2. op[w].pc = "eraseAll" /\ NoClientLeft /\ op[w].kind = "cleanup"
  BY <1>1, AtForm DEF OpInv, AccountInv, StageInv, StageOf
<1>3. Dimmed /\ NoClientLeft'
  BY <1>1, <1>2, SameDimmed DEF NoClientLeft
<1>4. DeletedRow \in Row /\ DeletedRow.status = "deleted"
  BY IdleTypes DEF DeletedRow, NoRow
<1>5. CASE \E a \in Accounts : /\ Rows[a].status \notin Absent
                               /\ Save(w, a, DeletedRow) /\ UNCHANGED op
  <2>1. PICK a \in Accounts : /\ Rows[a].status \notin Absent
                              /\ Save(w, a, DeletedRow) /\ UNCHANGED op
    BY <1>5
  <2>2. client'[a].state # "enabled"
    BY <1>3 DEF NoClientLeft
  <2>3. Proper(w, a, DeletedRow)
    BY <1>2, <1>4, <2>1, <2>2 DEF Proper, Over, Final
  <2>4. Writes(w)
    BY <1>4, <2>1, <2>3, SaveWrites
  <2>5. StageOf(w)'
    BY <1>2, <1>3, <2>1 DEF StageOf
  <2>6. QED
    BY <1>3, <2>4, <2>5 DEF Effect
<1>6. CASE Goto(w, "finalize") /\ NoSave
  <2>1. op'[w].pc = "finalize"
    BY <1>6, GotoForm DEF Pcs
  <2>2. StageOf(w)'
    BY <1>3, <2>1 DEF StageOf
  <2>3. QED
    BY <1>3, <1>6, <2>2, NothingWritten DEF Effect
<1>7. CASE Fail(w) /\ NoSave
  BY <1>3, <1>7, DoneForm, PlainStage, NothingWritten DEF Effect
<1>8. QED
  BY <1>5, <1>6, <1>7 DEF EraseAll

LEMMA FinalizeEffect ==
    ASSUME TypeOK, WorkInv, AccountInv, NEW w \in Workers, Finalize(w)
    PROVE  Effect(w)
<1>1. At(w, "finalize") /\ client' = client /\ NoSave
  BY DEF Finalize
<1>2. NoClientLeft
  BY <1>1, AtForm DEF AccountInv, StageInv, StageOf
<1>3. Dimmed /\ NoClientLeft'
  BY <1>1, <1>2, SameDimmed DEF NoClientLeft
<1>4. op'[w].pc = "done"
  BY DoneForm, EndForm DEF Finalize
<1>5. StageOf(w)'
  BY <1>3, <1>4 DEF StageOf
<1>6. QED
  BY <1>1, <1>3, <1>5, NothingWritten DEF Effect

LEMMA PanicEffect ==
    ASSUME TypeOK, WorkInv, AccountInv, NEW w \in Workers, Panic(w)
    PROVE  Effect(w)
<1>1. Done(w) /\ client' = client /\ NoSave
  BY DEF Panic, NoSave
<1>2. QED
  BY <1>1, DoneForm, PlainStage, SameDimmed, NothingWritten DEF Effect

LEMMA CriticalEffect ==
    ASSUME TypeOK, WorkInv, AccountInv, NEW w \in Workers, Critical(w)
    PROVE  Effect(w)
  BY CreateBeginEffect, RevokeBeginEffect, RoleBeginEffect,
     DeleteBeginEffect, CleanupBeginEffect, SweepBeginEffect,
     ProvisionEffect, UndeliveredEffect, PurgeEffect, EraseEffect,
     RecheckEffect, DropEffect, DeliverEffect, DisableEffect,
     RedisableEffect, ProjectEffect, SettleEffect, WipeEffect,
     EraseAllEffect, FinalizeEffect, PanicEffect
     DEF Critical

(***************************************************************************)
(* The invariance of AccountInv.                                           *)
(***************************************************************************)

\* A client is lit only for a row that is not on its way out, by a request or
\* a sweep of a gateway that is not gone.
LEMMA LightsForm ==
    ASSUME TypeOK, WorkInv, AccountInv, NEW w \in Workers, Lights(w)
    PROVE  LET a == op[w].a IN
           /\ a \in Accounts /\ row[a].status \notin Over
           /\ a \in DOMAIN tx => tx[a].status \notin Final
           /\ gateway = "gone" => client[a].state # "absent"
<1> DEFINE a == op[w].a
<1>1. /\ lock = w /\ OpInv(op[w], w) /\ StageOf(w)
      /\ op[w].pc \in {"provision", "project"}
      /\ op[w].pc = "project" => client[a].state # "absent"
  BY DEF Lights, WorkInv, AccountInv, StageInv
<1>2. a \in Accounts
  BY <1>1 DEF OpInv
<1>3. a \in DOMAIN tx => Rows[a] = tx[a]
  BY <1>2, RowsForm
<1>4. CASE op[w].pc = "provision"
  <2>1. op[w].kind = "create" /\ w \in Requests
    BY <1>1, <1>4 DEF OpInv, Workers
  <2>2. row[a].status = "none"
    BY <1>4, <2>1 DEF AccountInv, NewInv
  <2>3. Rows[a].status = "provisioning" /\ gateway = "present"
    BY <1>1, <1>4 DEF StageOf
  <2>4. QED
    BY <1>2, <1>3, <2>2, <2>3 DEF Over, Final, Terminal, Ending
<1>5. CASE op[w].pc = "project"
  <2>1. row[a].status \in Live /\ Rows[a].status \in Live
    BY <1>1, <1>5 DEF StageOf
  <2>2. QED
    BY <1>1, <1>2, <1>3, <1>5, <2>1 DEF Over, Final, Terminal, Ending, Live
<1>6. QED
  BY <1>1, <1>4, <1>5

\* No step under the lock lights the client of a row that is on its way out.
LEMMA OverStaysDark ==
    ASSUME TypeOK, WorkInv, AccountInv, NEW w \in Workers, Effect(w),
           NEW a \in Accounts, client[a].state # "enabled"
    PROVE  /\ row[a].status \in Over => client'[a].state # "enabled"
           /\ a \in DOMAIN tx /\ tx[a].status \in Final
              => client'[a].state # "enabled"
<1>1. CASE Dimmed
  BY <1>1 DEF Dimmed
<1>2. CASE Lights(w) /\ a = op[w].a
  BY <1>2, LightsForm
<1>3. CASE Lights(w) /\ a # op[w].a
  BY <1>3 DEF Lights
<1>4. QED
  BY <1>1, <1>2, <1>3 DEF Effect

LEMMA CriticalFinal ==
    ASSUME TypeOK, WorkInv, AccountInv, NEW w \in Workers, Effect(w)
    PROVE  FinalInv'
<1> SUFFICES ASSUME NEW a \in Accounts, row'[a].status \in Final
             PROVE  client'[a].state # "enabled"
  BY DEF FinalInv
<1>1. CASE row'[a] = row[a]
  BY <1>1, OverStaysDark DEF AccountInv, FinalInv, Over
<1>2. CASE row'[a] # row[a]
  <2>1. PICK b \in Accounts, r \in Row :
          Proper(w, b, r) /\ row' = [row EXCEPT ![b] = r]
    BY <1>2 DEF Effect, Writes
  <2>2. a = b /\ row'[a] = r
    BY <1>2, <2>1 DEF TypeOK
  <2>3. QED
    BY <2>1, <2>2 DEF Proper
<1>3. QED
  BY <1>1, <1>2

LEMMA CriticalTx ==
    ASSUME TypeOK, WorkInv, AccountInv, NEW w \in Workers, Effect(w),
           Section(w)
    PROVE  TxInv'
<1>1. /\ lock' = w /\ lock \in {w, None} /\ None \notin Requests
      /\ op'[w].kind = op[w].kind /\ op'[w].a = op[w].a
      /\ op[w].pc # "idle"
      /\ w = Sweep => tx' = tx /\ DOMAIN tx = {}
  <2>1. lock \in {w, None} /\ None \notin Requests /\ Sweep \notin Requests
    BY IdleTypes, ConstantsAssumption DEF Section
  <2>2. op[w].pc # "idle"
    BY DEF Section, WorkInv, LockInv
  <2>3. w = Sweep => DOMAIN tx = {}
    BY <2>1 DEF WorkInv, LockInv
  <2>4. QED
    BY <2>1, <2>2, <2>3 DEF Section
<1> SUFFICES ASSUME NEW a \in DOMAIN tx'
             PROVE  /\ tx'[a].status # "none"
                    /\ row'[a].status = "none" =>
                         /\ w \in Requests /\ op[w].kind = "create"
                         /\ op[w].a = a
                    /\ tx'[a].status \in Final => client'[a].state # "enabled"
                    /\ row'[a].status \in Over => tx'[a].status \in Over
  BY <1>1 DEF TxInv
<1>2. w # Sweep /\ w \in Requests
  BY <1>1 DEF Workers
<1>3. row' = row
  BY <1>2 DEF Effect, Writes
<1>4. CASE a \in DOMAIN tx /\ tx'[a] = tx[a]
  <2>1. a \in Accounts
    BY <1>4 DEF TypeOK
  <2>2. /\ tx[a].status # "none"
        /\ row[a].status = "none" =>
             lock \in Requests /\ op[lock].kind = "create" /\ op[lock].a = a
        /\ tx[a].status \in Final => client[a].state # "enabled"
        /\ row[a].status \in Over => tx[a].status \in Over
    BY <1>4 DEF AccountInv, TxInv
  <2>3. QED
    BY <1>1, <1>2, <1>3, <1>4, <2>1, <2>2, OverStaysDark
<1>5. CASE Proper(w, a, tx'[a]) /\ a \in Accounts
  <2>1. ASSUME row[a].status = "none"
        PROVE  op[w].kind = "create" /\ op[w].a = a
    <3>1. CASE op[w].kind = "cleanup"
      <4>1. a \in DOMAIN tx
        BY <1>5, <2>1, <3>1, RowsForm DEF Proper, Absent
      <4>2. lock = w /\ op[lock].kind = "create"
        BY <1>1, <2>1, <4>1 DEF AccountInv, TxInv
      <4>3. QED
        BY <3>1, <4>2
    <3>2. CASE op[w].kind # "cleanup"
      BY <1>1, <1>5, <2>1, <3>2 DEF Proper, AccountInv, NewInv
    <3>3. QED
      BY <3>1, <3>2
  <2>2. QED
    BY <1>2, <1>3, <1>5, <2>1 DEF Proper
<1>6. QED
  BY <1>2, <1>4, <1>5 DEF Effect, Writes, TypeOK

LEMMA CriticalNew ==
    ASSUME TypeOK, WorkInv, AccountInv, NEW w \in Workers, Effect(w),
           Section(w)
    PROVE  NewInv'
<1>1. \A x \in Workers :
        /\ op'[x].pc # "idle" => op[x].pc # "idle"
        /\ op'[x].kind = op[x].kind /\ op'[x].a = op[x].a
  BY DEF Section, WorkInv, LockInv
<1>2. \A a : row'[a] # row[a] =>
        /\ w = Sweep /\ a = op[Sweep].a /\ op[Sweep].pc # "idle"
        /\ op[Sweep].kind = "sweep" /\ row'[a].status # "none"
  <2> SUFFICES ASSUME NEW a, row'[a] # row[a]
               PROVE  /\ w = Sweep /\ a = op[Sweep].a
                      /\ op[Sweep].pc # "idle"
                      /\ op[Sweep].kind = "sweep"
                      /\ row'[a].status # "none"
    OBVIOUS
  <2>1. PICK b \in Accounts, r \in Row :
          Proper(w, b, r) /\ w = Sweep /\ row' = [row EXCEPT ![b] = r]
    BY DEF Effect, Writes
  <2>2. a = b /\ row'[a] = r
    BY <2>1 DEF TypeOK
  <2>3. op[Sweep].pc # "idle" /\ op[Sweep].kind = "sweep"
    BY <2>1 DEF Section, WorkInv, LockInv, OpInv
  <2>4. QED
    BY <2>1, <2>2, <2>3 DEF Proper
<1>3. ASSUME NEW x \in Requests, op'[x].pc # "idle", op'[x].kind = "create"
      PROVE  /\ row'[op'[x].a].status = "none"
             /\ \A y \in Requests \ {x} :
                  op'[y].pc # "idle" => op'[y].a # op'[x].a
  <2>1. x \in Workers /\ Requests \subseteq Workers /\ Sweep \in Workers
    BY DEF Workers
  <2>2. row[op[x].a].status = "none"
    BY <1>1, <1>3, <2>1 DEF AccountInv, NewInv
  <2>3. row'[op[x].a] = row[op[x].a]
    BY <1>2, <2>1, <2>2 DEF AccountInv, NewInv
  <2>4. \A y \in Requests \ {x} : op'[y].pc # "idle" => op[y].a # op[x].a
    BY <1>1, <1>3, <2>1 DEF AccountInv, NewInv
  <2>5. QED
    BY <1>1, <2>1, <2>2, <2>3, <2>4
<1>4. ASSUME NEW x \in Workers, op'[x].pc # "idle",
             op'[x].kind \notin {"create", "cleanup"}
      PROVE  row'[op'[x].a].status # "none"
  <2>1. row[op[x].a].status # "none"
    BY <1>1, <1>4 DEF AccountInv, NewInv
  <2>2. QED
    BY <1>1, <1>2, <2>1
<1>5. \A x \in Workers :
        op'[x].pc # "idle" /\ op'[x].kind = "cleanup" => op'[x].a = None
  BY <1>1 DEF AccountInv, NewInv
<1>6. QED
  BY <1>3, <1>4, <1>5 DEF NewInv

LEMMA CriticalKeeps ==
    ASSUME TypeOK, WorkInv, AccountInv, NEW w \in Workers, Critical(w)
    PROVE  AccountInv'
<1>1. Effect(w) /\ Section(w)
  BY CriticalEffect, CriticalStep DEF Sectioned
<1>2. StageInv'
  <2>1. \A x \in Workers \ {w} :
          op'[x] = op[x] /\ op[x].pc \in {"idle", "lock"}
    BY <1>1, IdleTypes DEF Section, WorkInv, LockInv
  <2>2. ASSUME NEW x \in Workers \ {w}
        PROVE  StageOf(x)'
    <3>1. op'[x].pc \in {"idle", "lock"}
      BY <2>1
    <3>2. QED
      BY <3>1, PlainStage
  <2>3. QED
    BY <1>1, <2>2 DEF Effect, StageInv
<1>3. GoneInv'
  <2> SUFFICES ASSUME gateway' = "gone", NEW a \in Accounts
               PROVE  client'[a].state = "absent"
    BY DEF GoneInv, NoClientLeft
  <2>1. gateway = "gone"
    BY <1>1 DEF Section
  <2>2. \A b \in Accounts : client[b].state = "absent"
    BY <2>1 DEF AccountInv, GoneInv, NoClientLeft
  <2>3. ~Lights(w)
    BY <2>1, <2>2, LightsForm
  <2>4. QED
    BY <1>1, <2>2, <2>3 DEF Effect, Dimmed
<1>4. QED
  BY <1>1, <1>2, <1>3, CriticalFinal, CriticalTx, CriticalNew DEF AccountInv

LEMMA ArrivalKeeps ==
    ASSUME TypeOK, WorkInv, AccountInv, NEW w \in Workers, Arrival(w)
    PROVE  AccountInv'
<1>1. PICK o \in Op :
         /\ Arrives(w, o) /\ o.pc = "lock"
         /\ o.kind = "sweep" <=> w = Sweep
         /\ o.kind # "cleanup" => o.a \in Accounts
         /\ o.kind = "cleanup" => o.a = None
         /\ o.kind = "create" =>
              row[o.a].status = "none" /\ \A x \in Requests : op[x].a # o.a
         /\ o.kind \notin {"create", "cleanup"} => row[o.a].status # "none"
  BY DEF Arrival
<1>2. /\ op[w].pc = "idle" /\ op'[w] = o
      /\ \A x \in Workers \ {w} : op'[x] = op[x]
      /\ UNCHANGED <<row, client, lock, tx, gateway>>
  BY <1>1 DEF Arrives, TypeOK
<1>3. lock # w
  BY <1>2 DEF WorkInv, LockInv
<1>4. StageInv'
  <2>1. StageOf(w)'
    BY <1>1, <1>2, PlainStage
  <2>2. ASSUME NEW x \in Workers \ {w}
        PROVE  StageOf(x)'
    <3>1. StageOf(x) /\ op'[x] = op[x]
      BY <1>2 DEF AccountInv, StageInv
    <3>2. Rows' = Rows
      BY <1>2 DEF Rows
    <3>3. QED
      BY <1>2, <3>1, <3>2 DEF StageOf, NoClientLeft
  <2>3. QED
    BY <2>1, <2>2 DEF StageInv
<1>5. TxInv'
  <2>1. lock \in Requests => op'[lock] = op[lock]
    BY <1>2, <1>3 DEF Workers
  <2>2. QED
    BY <1>2, <2>1 DEF AccountInv, TxInv
<1>6. FinalInv' /\ GoneInv'
  BY <1>2 DEF AccountInv, FinalInv, GoneInv, NoClientLeft
<1>7. NewInv'
  <2>1. Requests \subseteq Workers /\ None \notin Accounts
        /\ Sweep \notin Requests
    BY ConstantsAssumption DEF Workers
  <2>2. ASSUME NEW x \in Requests, op'[x].pc # "idle",
               op'[x].kind = "create"
        PROVE  /\ row[op'[x].a].status = "none"
               /\ \A y \in Requests \ {x} :
                    op'[y].pc # "idle" => op'[y].a # op'[x].a
    <3>1. CASE x = w
      BY <1>1, <1>2, <2>1, <2>2, <3>1
    <3>2. CASE x # w
      <4>1. op'[x] = op[x] /\ op[x].pc # "idle" /\ op[x].kind = "create"
            /\ row[op[x].a].status = "none" /\ op[x].a \in Accounts
        BY <1>2, <2>1, <2>2, <3>2
           DEF AccountInv, NewInv, WorkInv, OpInv
      <4>2. ASSUME w \in Requests
            PROVE  o.a # op[x].a
        BY <1>1, <2>1, <4>1
      <4>3. QED
        BY <1>2, <2>1, <4>1, <4>2 DEF AccountInv, NewInv
    <3>3. QED
      BY <3>1, <3>2
  <2>3. ASSUME NEW x \in Workers, op'[x].pc # "idle",
               op'[x].kind \notin {"create", "cleanup"}
        PROVE  row[op'[x].a].status # "none"
    BY <1>1, <1>2, <2>3 DEF AccountInv, NewInv
  <2>4. ASSUME NEW x \in Workers, op'[x].pc # "idle",
               op'[x].kind = "cleanup"
        PROVE  op'[x].a = None
    BY <1>1, <1>2, <2>4 DEF AccountInv, NewInv
  <2>5. QED
    BY <1>2, <2>2, <2>3, <2>4 DEF NewInv
<1>8. QED
  BY <1>4, <1>5, <1>6, <1>7 DEF AccountInv

\* What the end of a worker's run leaves in the rows.
LEMMA ReleaseRows ==
    ASSUME TypeOK, WorkInv, AccountInv, NEW w \in Workers,
           Finish(w) \/ Crash(w), NEW a \in Accounts
    PROVE  \/ row'[a] = row[a]
           \/ /\ lock = w /\ a \in DOMAIN tx /\ row'[a] = tx[a]
              /\ w \in Requests
<1>1. row' = row \/ (lock = w /\ w # Sweep /\ row' = Rows)
  BY ReleaseForm
<1>2. QED
  BY <1>1, RowsForm DEF Workers

LEMMA ReleaseKeeps ==
    ASSUME TypeOK, WorkInv, AccountInv, NEW w \in Workers,
           Finish(w) \/ Crash(w)
    PROVE  AccountInv'
<1>1. /\ op[w].pc # "idle" /\ op' = [op EXCEPT ![w] = Idle]
      /\ lock' = IF lock = w THEN None ELSE lock
      /\ tx' = IF lock = w THEN << >> ELSE tx
      /\ client' = client
  BY ReleaseForm DEF Releases
<1>2. /\ op'[w].pc = "idle" /\ Requests \subseteq Workers
      /\ \A x \in Workers \ {w} : op'[x] = op[x]
  BY <1>1, IdleTypes DEF TypeOK
<1>3. ASSUME gateway' = "gone"
      PROVE  NoClientLeft
  <2>1. CASE gateway = "gone"
    BY <2>1 DEF AccountInv, GoneInv
  <2>2. CASE gateway # "gone"
    <3>1. op[w].pc = "done" /\ op[w].kind = "cleanup" /\ op[w].ok
      BY <1>3, <2>2 DEF Finish, Crash, env
    <3>2. QED
      BY <3>1 DEF AccountInv, StageInv, StageOf
  <2>3. QED
    BY <2>1, <2>2
<1>4. GoneInv'
  BY <1>1, <1>3 DEF GoneInv, NoClientLeft
<1>5. FinalInv'
  BY <1>1, ReleaseRows DEF AccountInv, FinalInv, TxInv
<1>6. NewInv'
  <2>1. ASSUME NEW x \in Requests, op'[x].pc # "idle",
               op'[x].kind = "create"
        PROVE  /\ row'[op'[x].a].status = "none"
               /\ \A y \in Requests \ {x} :
                    op'[y].pc # "idle" => op'[y].a # op'[x].a
    <3>1. x # w /\ op'[x] = op[x] /\ x \in Workers
      BY <1>2, <2>1
    <3>2. /\ op[x].a \in Accounts /\ row[op[x].a].status = "none"
          /\ \A y \in Requests \ {x} :
               op[y].pc # "idle" => op[y].a # op[x].a
      BY <2>1, <3>1, ConstantsAssumption
         DEF AccountInv, NewInv, WorkInv, OpInv
    <3>3. row'[op[x].a] = row[op[x].a]
      <4>1. ASSUME lock = w, w \in Requests, op[x].a \in DOMAIN tx
            PROVE  FALSE
        <5>1. op[w].a = op[x].a
          BY <3>2, <4>1 DEF AccountInv, TxInv
        <5>2. QED
          BY <1>1, <3>1, <3>2, <4>1, <5>1
      <4>2. QED
        BY <3>2, <4>1, ReleaseRows
    <3>4. \A y \in Requests \ {x} : op'[y].pc # "idle" =>
            op'[y] = op[y]
      BY <1>2
    <3>5. QED
      BY <3>1, <3>2, <3>3, <3>4
  <2>2. ASSUME NEW x \in Workers, op'[x].pc # "idle",
               op'[x].kind \notin {"create", "cleanup"}
        PROVE  row'[op'[x].a].status # "none"
    <3>1. x # w /\ op'[x] = op[x]
      BY <1>2, <2>2
    <3>2. op[x].a \in Accounts /\ row[op[x].a].status # "none"
      BY <2>2, <3>1 DEF AccountInv, NewInv, WorkInv, OpInv
    <3>3. op[x].a \in DOMAIN tx => tx[op[x].a].status # "none"
      BY DEF AccountInv, TxInv
    <3>4. QED
      BY <3>1, <3>2, <3>3, ReleaseRows
  <2>3. ASSUME NEW x \in Workers, op'[x].pc # "idle",
               op'[x].kind = "cleanup"
        PROVE  op'[x].a = None
    BY <1>2, <2>3 DEF AccountInv, NewInv
  <2>4. QED
    BY <2>1, <2>2, <2>3 DEF NewInv
<1>7. CASE lock = w
  <2>1. DOMAIN tx' = {}
    BY <1>1, <1>7
  <2>2. \A x \in Workers : op'[x].pc \in {"idle", "lock"}
    BY <1>2, <1>7 DEF WorkInv, LockInv
  <2>3. StageInv'
    BY <2>2, PlainStage DEF StageInv
  <2>4. TxInv'
    BY <2>1 DEF TxInv
  <2>5. QED
    BY <1>4, <1>5, <1>6, <2>3, <2>4 DEF AccountInv
<1>8. CASE lock # w
  <2>1. row' = row /\ lock' = lock /\ tx' = tx /\ Crash(w)
    BY <1>1, <1>8, ReleaseForm
  <2>2. gateway' = gateway /\ Rows' = Rows
    BY <2>1 DEF Crash, env, Rows
  <2>3. ASSUME NEW x \in Workers
        PROVE  StageOf(x)'
    <3>1. CASE x = w
      BY <1>2, <3>1, PlainStage
    <3>2. CASE x # w
      BY <1>1, <1>2, <2>1, <2>2, <3>2
         DEF AccountInv, StageInv, StageOf, NoClientLeft
    <3>3. QED
      BY <3>1, <3>2
  <2>4. lock \in Requests => op'[lock] = op[lock]
    BY <1>2, <1>8
  <2>5. TxInv'
    BY <1>1, <2>1, <2>4 DEF AccountInv, TxInv
  <2>6. QED
    BY <1>4, <1>5, <1>6, <2>3, <2>5 DEF AccountInv, StageInv
<1>9. QED
  BY <1>7, <1>8

LEMMA OutsideForm ==
    ASSUME TypeOK, WorkInv,
           \/ \E a \in Accounts : Orphans(a)
           \/ Environment
           \/ UNCHANGED vars
    PROVE  Outside /\ Dimmed /\ gateway' = gateway
<1>1. Outside
  BY OutsideKnows
<1>2. ASSUME NEW a \in Accounts, Orphans(a)
      PROVE  Dimmed /\ gateway' = gateway
  <2>1. gateway' = gateway
    BY <1>2 DEF Orphans, OrphanCheck, OrphanDelete, KeepAllButOrphan, env
  <2>2. Dimmed
    BY <1>2, OutcomeForm, SameDimmed
       DEF Orphans, OrphanCheck, OrphanDelete
  <2>3. QED
    BY <2>1, <2>2
<1>3. Environment => client' = client /\ gateway' = gateway
  BY DEF Environment, ChangeAccess, Expire, Age, KeepAllButEnv
<1>4. UNCHANGED vars => client' = client /\ gateway' = gateway
  BY DEF vars
<1>5. QED
  BY <1>1, <1>2, <1>3, <1>4, SameDimmed

LEMMA OutsideKeeps ==
    ASSUME TypeOK, WorkInv, AccountInv, Outside, Dimmed,
           gateway' = gateway
    PROVE  AccountInv'
<1>1. NoClientLeft => NoClientLeft'
  BY DEF NoClientLeft, Dimmed
<1>2. Rows' = Rows /\ row' = row /\ op' = op /\ lock' = lock /\ tx' = tx
  BY DEF Outside, Rows
<1>3. StageInv'
  <2> SUFFICES ASSUME NEW w \in Workers
               PROVE  StageOf(w)'
    BY DEF StageInv
  <2>1. StageOf(w) /\ OpInv(op[w], w)
    BY DEF AccountInv, StageInv, WorkInv
  <2>2. op[w].pc \in {"erase", "settle"} => op[w].a \in Accounts
    BY <2>1 DEF OpInv
  <2>3. QED
    BY <1>1, <1>2, <2>1, <2>2 DEF StageOf, Dimmed
<1>4. NewInv'
  BY <1>2 DEF AccountInv, NewInv
<1>5. TxInv'
  <2>1. DOMAIN tx \subseteq Accounts
    BY DEF TypeOK
  <2>2. QED
    BY <1>2, <2>1 DEF AccountInv, TxInv, Dimmed
<1>6. FinalInv' /\ GoneInv'
  BY <1>1, <1>2 DEF AccountInv, FinalInv, GoneInv, Dimmed
<1>7. QED
  BY <1>3, <1>4, <1>5, <1>6 DEF AccountInv

LEMMA InitAccounts ==
    ASSUME Init
    PROVE  AccountInv
<1>1. /\ \A w \in Workers : op[w].pc = "idle"
      /\ \A a \in Accounts : row[a].status = "none"
                             /\ client[a].state = "absent"
      /\ DOMAIN tx = {} /\ gateway = "present" /\ Requests \subseteq Workers
  BY IdleTypes DEF Init, NoRow, NoClient
<1>2. StageInv
  BY <1>1 DEF StageInv, StageOf
<1>3. NewInv /\ TxInv /\ FinalInv /\ GoneInv
  BY <1>1
     DEF NewInv, TxInv, FinalInv, GoneInv, Final, Terminal
<1>4. QED
  BY <1>2, <1>3 DEF AccountInv

LEMMA Accounted == Spec => [](TypeOK /\ WorkInv /\ AccountInv)
<1>1. Init => TypeOK /\ WorkInv /\ AccountInv
  BY InitKnows, InitAccounts
<1>2. TypeOK /\ WorkInv /\ AccountInv /\ [Next]_vars
      => (TypeOK /\ WorkInv /\ AccountInv)'
  <2> SUFFICES ASSUME TypeOK, WorkInv, AccountInv, [Next]_vars
               PROVE  (TypeOK /\ WorkInv /\ AccountInv)'
    OBVIOUS
  <2>1. (TypeOK /\ WorkInv)'
    BY NextKnows
  <2>2. AccountInv'
    BY StepForms, CriticalKeeps, ArrivalKeeps, ReleaseKeeps, OutsideForm,
       OutsideKeeps
  <2>3. QED
    BY <2>1, <2>2
<1>3. QED
  BY <1>1, <1>2, PTL DEF Spec

\* Once the gateway's row is gone, Keycloak holds no client of its accounts: a
\* Create looks the gateway up under the lock that the deletion still holds
\* (plugins/serviceAccounts/service.go CleanupGateway and Create).
THEOREM GoneGatewayIsClean == Spec => []GatewayGoneLeavesNoClient
<1>1. AccountInv => GatewayGoneLeavesNoClient
  BY DEF AccountInv, GoneInv, NoClientLeft, GatewayGoneLeavesNoClient
<1>2. QED
  BY <1>1, Accounted, PTL

(***************************************************************************)
(* The refinement of Credential.                                           *)
(***************************************************************************)

\* A row on its way out never comes back, and its client stays off once off.
LEMMA OverStays ==
    ASSUME TypeOK, WorkInv, AccountInv, [Next]_vars, NEW a \in Accounts,
           row[a].status \in Over
    PROVE  /\ row'[a].status \in Over
           /\ client[a].state # "enabled" => client'[a].state # "enabled"
<1>1. ASSUME NEW w \in Workers, Critical(w)
      PROVE  /\ row'[a].status \in Over
             /\ client[a].state # "enabled" => client'[a].state # "enabled"
  <2>1. Effect(w)
    BY <1>1, CriticalEffect
  <2>2. client[a].state # "enabled" => client'[a].state # "enabled"
    BY <2>1, OverStaysDark
  <2>3. CASE row' = row
    BY <2>2, <2>3
  <2>4. CASE row' # row
    <3>1. PICK b \in Accounts, r \in Row :
            Proper(w, b, r) /\ row' = [row EXCEPT ![b] = r]
      BY <2>1, <2>4 DEF Effect, Writes
    <3>2. row'[a].status \in Over
      BY <3>1 DEF Proper, TypeOK
    <3>3. QED
      BY <2>2, <3>2
  <2>5. QED
    BY <2>3, <2>4
<1>2. ASSUME NEW w \in Workers, Arrival(w)
      PROVE  row' = row /\ client' = client
  BY <1>2 DEF Arrival, Arrives
<1>3. ASSUME NEW w \in Workers, Finish(w) \/ Crash(w)
      PROVE  row'[a].status \in Over /\ client' = client
  BY <1>3, ReleaseRows, ReleaseForm DEF Releases, AccountInv, TxInv
<1>4. ASSUME Outside, Dimmed
      PROVE  row' = row /\ (client[a].state # "enabled"
                            => client'[a].state # "enabled")
  BY <1>4 DEF Outside, Dimmed
<1>5. QED
  BY <1>1, <1>2, <1>3, <1>4, StepForms, OutsideForm

LEMMA CredentialStep ==
    ASSUME TypeOK, WorkInv, AccountInv, AccountInv', [Next]_vars
    PROVE  Credentials!Next
<1>1. Withdrawn \subseteq Withdrawn'
  <2> SUFFICES ASSUME NEW a \in Accounts, a \in Withdrawn
               PROVE  a \in Withdrawn'
    BY DEF Withdrawn
  <2>1. row[a].status \in Over /\ client[a].state # "enabled"
    BY DEF Withdrawn, Usable, Over, Final, AccountInv, FinalInv
  <2>2. row'[a].status \in Over /\ client'[a].state # "enabled"
    BY <2>1, OverStays
  <2>3. QED
    BY <2>2 DEF Withdrawn, Usable, Over, Final
<1>2. Usable' \cap Withdrawn' = {}
  BY DEF Usable, Withdrawn, AccountInv, FinalInv, Final
<1>3. Usable' \subseteq Accounts /\ Withdrawn' \subseteq Accounts
  BY DEF Usable, Withdrawn
<1>4. QED
  BY <1>1, <1>2, <1>3 DEF Credentials!Next

LEMMA CredentialInit ==
    ASSUME Init
    PROVE  Credentials!Init
<1>1. \A a \in Accounts : row[a].status = "none"
                          /\ client[a].state = "absent"
  BY DEF Init, NoRow, NoClient
<1>2. QED
  BY <1>1 DEF Credentials!Init, Usable, Withdrawn, Terminal, Ending

\* No sweep, retry, role change or cleanup brings a withdrawn credential back:
\* every behaviour of the service is one of Credential.  What is stale when it
\* is used, the sweep's row and the request's access, is checked again under
\* the lock or by the compare-and-set (plugins/serviceAccounts/service.go
\* lockedAccount, dao.go ConditionalUpdate).
THEOREM WithdrawalIsFinal == Spec => CredentialSpec
<1>1. Init => Credentials!Init
  BY CredentialInit
<1>2. /\ TypeOK /\ WorkInv /\ AccountInv
      /\ (TypeOK /\ WorkInv /\ AccountInv)' /\ [Next]_vars
      => Credentials!Next
  BY CredentialStep
<1>3. QED
  BY <1>1, <1>2, Accounted, PTL
     DEF Spec, CredentialSpec, Credentials!Spec
=============================================================================
