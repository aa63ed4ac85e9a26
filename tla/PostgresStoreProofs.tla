------------------------- MODULE PostgresStoreProofs -------------------------
(* Theorems about PostgresStore: what the row locks protect. *)
EXTENDS PostgresStore, RunStoreProofs

-----------------------------------------------------------------------------
(* The inductive invariant *)

TxRow ==
    [op : {"none", "create", "claim", "checkpoint", "finish", "interrupt", "decide", "transition",
           "event", "prepare", "renew", "requeue", "expire"},
     todo : Seq(Lockable), run : Run \cup {Nobody}, int : Interrupt \cup {Nobody}, token : Nat,
     ver : Nat, target : State \cup Decisions \cup Status \cup {"none"},
     row : RunRow \cup {NoRow}, seq : Nat, rows : SUBSET (Run \cup Interrupt)]

ClaimRow == [run : Run \cup {Nobody}, token : Nat, version : Nat, sequence : Nat, failing : BOOLEAN]

PgTyped ==
    /\ StoreTypeOK
    /\ lock \in [Lockable -> Conn \cup {Nobody}]
    /\ tx \in [Conn -> TxRow]
    /\ copy \in [Worker -> ClaimRow]
    /\ invoked \in [Run -> Nat]

Holding(c) == {l \in Lockable : lock[l] = c}

\* The transaction has read the run and its last event, and nobody has changed
\* them since.
ReadsHold(c) == tx[c].row = runs[tx[c].run] /\ tx[c].seq = events[tx[c].run] + 1

\* The transaction is about the claim in its worker's memory.
OwnClaim(c) ==
    /\ c[1] = "main"
    /\ tx[c].run \in Run
    /\ tx[c].run = copy[c[2]].run
    /\ tx[c].token = copy[c[2]].token

\* The lease that _required_lease has seen, but for its deadline.
LeaseSeen(c) ==
    LET x == leases[tx[c].run] IN x.active /\ x.holder = c[2] /\ x.token = tx[c].token

CreateTx(c) ==
    LET t == tx[c] IN
    /\ t.op = "create" /\ t.run \in Run /\ ~Exists(t.run)
    /\ t.todo = <<>> /\ Holding(c) = {TheRun(t.run)}
    /\ t.seq = events[t.run] + 1

ClaimTx(c) ==
    LET t == tx[c] IN
    /\ t.op = "claim" /\ t.run \in Run /\ c[1] = "main"
    /\ ReadsHold(c) /\ t.row.status = "QUEUED"
    /\ \/ t.todo = <<TheLease(t.run)>> /\ Holding(c) = {TheRun(t.run)}
       \/ /\ t.todo = <<>> /\ Holding(c) = {TheRun(t.run), TheLease(t.run)}
          /\ t.token = leases[t.run].token + 1

\* commit_checkpoint and finish_claim lock the lease first.
LeaseFirstTx(c) ==
    LET t == tx[c] IN
    /\ t.op \in {"checkpoint", "finish"} /\ OwnClaim(c)
    /\ t.op = "checkpoint" => t.target \in State
    /\ t.op = "finish" => t.target \in {"SUCCEEDED", "FAILED"}
    /\ \/ t.todo = <<TheLease(t.run), TheRun(t.run)>> /\ Holding(c) = {}
       \/ t.todo = <<TheRun(t.run)>> /\ Holding(c) = {TheLease(t.run)} /\ LeaseSeen(c)
       \/ /\ t.todo = <<>> /\ Holding(c) = {TheLease(t.run), TheRun(t.run)}
          /\ LeaseSeen(c) /\ ReadsHold(c)
          /\ t.op = "checkpoint" => t.row.status = "RUNNING" /\ FollowsLast(c[2], t.run)
          /\ t.op = "finish" => CanTransition(t.row.status, t.target)

\* create_interrupt locks the run first; it presents the version of the claim.
InterruptTx(c) ==
    LET t == tx[c] IN
    /\ t.op = "interrupt" /\ OwnClaim(c) /\ t.ver = copy[c[2]].version /\ t.int \in Interrupt
    /\ t.target = "WAITING"
    /\ \/ t.todo = <<TheRun(t.run), TheLease(t.run)>> /\ Holding(c) = {}
       \/ /\ \/ t.todo = <<TheLease(t.run)>> /\ Holding(c) = {TheRun(t.run)}
             \/ t.todo = <<>> /\ Holding(c) = {TheRun(t.run), TheLease(t.run)}
          /\ ReadsHold(c) /\ t.row.status = "RUNNING" /\ t.row.version = t.ver

DecideTx(c) ==
    LET t == tx[c] IN
    /\ t.op = "decide" /\ t.run \in Run /\ t.int \in Interrupt /\ interrupts[t.int].run = t.run
    /\ t.target \in Decisions
    /\ \/ t.todo = <<TheInterrupt(t.int), TheRun(t.run)>> /\ Holding(c) = {}
       \/ t.todo = <<TheRun(t.run)>> /\ Holding(c) = {TheInterrupt(t.int)}
       \/ /\ t.todo = <<>> /\ Holding(c) = {TheInterrupt(t.int), TheRun(t.run)}
          /\ ReadsHold(c) /\ CanTransition(t.row.status, "QUEUED")

\* The targets with which transition_run is called.
ControlMove(s, t) ==
    /\ CanTransition(s, t)
    /\ \/ t = "CANCELLED"
       \/ t = "QUEUED" /\ s = "NEEDS_REVIEW"
       \/ t = "NEEDS_REVIEW" /\ s = "RUNNING"

\* The row was read without a lock; the version tells whether it is still the same.
TransitionTx(c) ==
    LET t == tx[c] IN
    /\ t.op = "transition" /\ t.run \in Run /\ Exists(t.run) /\ t.row \in RunRow
    /\ ControlMove(t.row.status, t.target)
    /\ \/ /\ t.todo = <<TheRun(t.run)>> /\ Holding(c) = {}
          /\ t.row.version = t.ver /\ t.ver <= runs[t.run].version
          /\ t.ver = runs[t.run].version => t.row = runs[t.run]
       \/ t.todo = <<>> /\ Holding(c) = {TheRun(t.run)} /\ ReadsHold(c)

AppendTx(c) ==
    LET t == tx[c] IN
    /\ t.op \in {"event", "prepare"} /\ t.run \in Run /\ Exists(t.run)
    /\ \/ t.todo = <<TheRun(t.run)>> /\ Holding(c) = {}
       \/ /\ t.todo = <<>> /\ Holding(c) = {TheRun(t.run)}
          /\ t.op = "event" => t.seq = events[t.run] + 1
          /\ t.op = "prepare" => t.seq = invoked[t.run] + 1

RenewTx(c) ==
    LET t == tx[c] IN
    /\ t.op = "renew" /\ t.run \in Run
    /\ \/ t.todo = <<TheLease(t.run)>> /\ Holding(c) = {}
       \/ t.todo = <<>> /\ Holding(c) = {TheLease(t.run)}

SweepTx(c) ==
    LET t == tx[c] IN
    /\ t.op \in {"requeue", "expire"} /\ t.run = Nobody /\ t.todo = <<>>
    /\ t.op = "requeue" =>
          /\ t.rows \subseteq Run
          /\ \A r \in t.rows : TheLease(r) \in Holding(c) /\ TheRun(r) \in Holding(c)
    /\ t.op = "expire" =>
          /\ t.rows \subseteq Interrupt
          /\ \A i \in t.rows : interrupts[i].run \in Run /\ TheRun(interrupts[i].run) \in Holding(c)

TxInv(c) ==
    \/ tx[c] = NoTx /\ Holding(c) = {}
    \/ CreateTx(c) \/ ClaimTx(c) \/ LeaseFirstTx(c) \/ InterruptTx(c) \/ DecideTx(c)
    \/ TransitionTx(c) \/ AppendTx(c) \/ RenewTx(c) \/ SweepTx(c)

\* A worker's claim is as old as its version: while the version is the row's,
\* the token is the lease's, and the worker its holder.
CopyInv(w) ==
    LET k == copy[w] IN
    k.run # Nobody =>
        /\ Exists(k.run)
        /\ k.token > 0 /\ k.token <= leases[k.run].token /\ k.version <= runs[k.run].version
        /\ k.version = runs[k.run].version => k.token = leases[k.run].token
        /\ k.token = leases[k.run].token => leases[k.run].holder = w

\* Leases and interrupts are those of existing runs, only an insert locks the row
\* of a run that does not exist, and nobody holds a run that waits.
RowsInv ==
    /\ \A r \in Run : leases[r].active => Exists(r)
    /\ \A i \in Interrupt : interrupts[i].run # Nobody => Exists(interrupts[i].run)
    /\ \A r \in Run : lock[TheRun(r)] # Nobody /\ ~Exists(r) => tx[lock[TheRun(r)]].op = "create"
    /\ \A r \in Run : runs[r].status = "WAITING" => ~leases[r].active

PgInv ==
    /\ PgTyped
    /\ \A c \in Conn : TxInv(c)
    /\ \A w \in Worker : CopyInv(w)
    /\ RowsInv
-----------------------------------------------------------------------------
(* Names of rows and connections *)

LEMMA RowNames ==
    ASSUME NEW r \in Run, NEW q \in Run, NEW i \in Interrupt, NEW j \in Interrupt
    PROVE  /\ TheRun(r) \in Lockable /\ TheLease(r) \in Lockable /\ TheInterrupt(i) \in Lockable
           /\ TheRun(r)[1] = "run" /\ TheLease(r)[1] = "lease" /\ TheInterrupt(i)[1] = "interrupt"
           /\ TheRun(r) = TheRun(q) => r = q
           /\ TheLease(r) = TheLease(q) => r = q
           /\ TheRun(r) # TheLease(q) /\ TheRun(r) # TheInterrupt(i) /\ TheLease(r) # TheInterrupt(i)
  BY DEF TheRun, TheLease, TheInterrupt, Lockable

LEMMA RunNames ==
    ASSUME NEW r \in Run, NEW q \in Run
    PROVE  /\ TheRun(r) \in Lockable /\ TheLease(r) \in Lockable
           /\ TheRun(r)[1] = "run" /\ TheLease(r)[1] = "lease"
           /\ TheRun(r) = TheRun(q) => r = q
           /\ TheLease(r) = TheLease(q) => r = q
           /\ TheRun(r) # TheLease(q)
  BY DEF TheRun, TheLease, Lockable

LEMMA ConnectionNames ==
    ASSUME NEW w \in Worker
    PROVE  /\ <<"main", w>> \in Conn /\ <<"beat", w>> \in Conn
           /\ <<"main", w>>[1] = "main" /\ <<"main", w>>[2] = w
           /\ <<"beat", w>>[1] = "beat" /\ <<"beat", w>>[2] = w
  BY DEF Conn

LEMMA ApiNames ==
    ASSUME NEW a \in Api
    PROVE  <<"api", a>> \in Conn /\ <<"api", a>>[1] = "api"
  BY DEF Conn

LEMMA MainConnections ==
    ASSUME NEW c \in Conn, c[1] = "main"
    PROVE  c[2] \in Worker /\ c = <<"main", c[2]>>
  BY DEF Conn

\* A queue of row locks.
LEMMA Queues ==
    ASSUME NEW a \in Lockable, NEW b \in Lockable
    PROVE  /\ <<a, b>> # <<>> /\ Head(<<a, b>>) = a /\ Tail(<<a, b>>) = <<b>>
           /\ <<a>> # <<>> /\ Head(<<a>>) = a /\ Tail(<<a>>) = <<>>
           /\ <<a, b>> \in Seq(Lockable) /\ <<a>> \in Seq(Lockable) /\ <<>> \in Seq(Lockable)
  OBVIOUS

-----------------------------------------------------------------------------
(* What other connections cannot disturb *)

\* A step of the connections in K: rows change only under their locks.
Frame(K) ==
    /\ \A d \in Conn \ K : tx'[d] = tx[d]
    /\ \A d \in Conn \ K : \A l \in Lockable : lock'[l] = d <=> lock[l] = d
    /\ \A r \in Run : lock[TheRun(r)] \notin K =>
          /\ runs'[r] = runs[r] /\ events'[r] = events[r]
          /\ invoked'[r] = invoked[r] /\ checkpoints'[r] = checkpoints[r]
    /\ \A r \in Run : lock[TheLease(r)] \notin K =>
          /\ leases'[r].active = leases[r].active /\ leases'[r].holder = leases[r].holder
          /\ leases'[r].token = leases[r].token
    /\ \A r \in Run : \/ runs'[r] = runs[r]
                      \/ ~Exists(r) /\ runs'[r].version = runs[r].version /\ Exists(r)'
                      \/ runs'[r].version = runs[r].version + 1 /\ Exists(r)'
    /\ \A i \in Interrupt : interrupts[i].run # Nobody => interrupts'[i].run = interrupts[i].run
    /\ \A w \in Worker : <<"main", w>> \notin K => copy'[w] = copy[w]

LEMMA OthersKeepLocks ==
    ASSUME NEW K, Frame(K), NEW d \in Conn \ K
    PROVE  Holding(d)' = Holding(d)
  BY DEF Frame, Holding

\* What d reads under its locks stays.
LEMMA OthersKeepRows ==
    ASSUME PgTyped, NEW K, Frame(K), NEW d \in Conn \ K
    PROVE  /\ tx'[d] = tx[d] /\ Holding(d)' = Holding(d)
           /\ \A r \in Run : TheRun(r) \in Holding(d) =>
                 /\ runs'[r] = runs[r] /\ events'[r] = events[r]
                 /\ invoked'[r] = invoked[r] /\ checkpoints'[r] = checkpoints[r]
           /\ \A r \in Run : TheLease(r) \in Holding(d) =>
                 /\ leases'[r].active = leases[r].active /\ leases'[r].holder = leases[r].holder
                 /\ leases'[r].token = leases[r].token
           /\ d[1] = "main" => d[2] \in Worker /\ copy'[d[2]] = copy[d[2]]
<1>1. tx'[d] = tx[d] /\ Holding(d)' = Holding(d)
  BY OthersKeepLocks DEF Frame
<1>2. \A l \in Holding(d) : lock[l] \notin K
  BY DEF Holding
<1>3. ASSUME d[1] = "main" PROVE d[2] \in Worker /\ copy'[d[2]] = copy[d[2]]
  BY <1>3, MainConnections DEF Frame
<1> QED
  BY <1>1, <1>2, <1>3 DEF Frame

LEMMA OthersKeepTx ==
    ASSUME PgTyped, NEW K, Frame(K), NEW d \in Conn \ K, TxInv(d)
    PROVE  TxInv(d)'
<1> DEFINE t == tx[d]
<1>0. /\ tx'[d] = tx[d] /\ Holding(d)' = Holding(d)
      /\ \A r \in Run : TheRun(r) \in Holding(d) =>
            /\ runs'[r] = runs[r] /\ events'[r] = events[r]
            /\ invoked'[r] = invoked[r] /\ checkpoints'[r] = checkpoints[r]
      /\ \A r \in Run : TheLease(r) \in Holding(d) =>
            /\ leases'[r].active = leases[r].active /\ leases'[r].holder = leases[r].holder
            /\ leases'[r].token = leases[r].token
      /\ d[1] = "main" => d[2] \in Worker /\ copy'[d[2]] = copy[d[2]]
  BY OthersKeepRows
<1>e. \A r \in Run : Exists(r) => Exists(r)'
  BY DEF Frame, Exists
<1>1. CASE tx[d] = NoTx /\ Holding(d) = {}
  BY <1>0, <1>1 DEF TxInv
<1>2. CASE CreateTx(d)
  <2>1. CreateTx(d)'
    BY <1>0, <1>2 DEF CreateTx, Exists
  <2> QED
    BY <2>1 DEF TxInv
<1>3. CASE ClaimTx(d)
  <2>1. ClaimTx(d)'
    BY <1>0, <1>3 DEF ClaimTx, ReadsHold
  <2> QED
    BY <2>1 DEF TxInv
<1>4. CASE LeaseFirstTx(d)
  <2>1. OwnClaim(d)'
    BY <1>0, <1>4 DEF LeaseFirstTx, OwnClaim
  <2>2. LeaseFirstTx(d)'
    BY <1>0, <1>4, <2>1 DEF LeaseFirstTx, OwnClaim, ReadsHold, LeaseSeen, FollowsLast
  <2> QED
    BY <2>2 DEF TxInv
<1>5. CASE InterruptTx(d)
  <2>1. InterruptTx(d)'
    BY <1>0, <1>5 DEF InterruptTx, OwnClaim, ReadsHold
  <2> QED
    BY <2>1 DEF TxInv
<1>6. CASE DecideTx(d)
  <2>1. interrupts'[t.int].run = t.run
    BY <1>6, NobodyIsNoId DEF DecideTx, Frame
  <2>2. DecideTx(d)'
    BY <1>0, <1>6, <2>1 DEF DecideTx, ReadsHold
  <2> QED
    BY <2>2 DEF TxInv
<1>7. CASE TransitionTx(d)
  <2>1. t.run \in Run /\ runs[t.run].version \in Nat /\ t.row.version \in Nat
    BY <1>7 DEF TransitionTx, PgTyped, StoreTypeOK, RunRow
  <2>2. /\ t.row.version = t.ver /\ t.ver <= runs[t.run].version
        /\ t.ver = runs[t.run].version => t.row = runs[t.run]
        => /\ t.ver <= runs'[t.run].version
           /\ t.ver = runs'[t.run].version => t.row = runs'[t.run]
    BY <1>7, <2>1 DEF TransitionTx, Frame
  <2>3. TransitionTx(d)'
    BY <1>0, <1>e, <1>7, <2>2 DEF TransitionTx, ReadsHold
  <2> QED
    BY <2>3 DEF TxInv
<1>8. CASE AppendTx(d)
  <2>1. AppendTx(d)'
    BY <1>0, <1>e, <1>8 DEF AppendTx
  <2> QED
    BY <2>1 DEF TxInv
<1>9. CASE RenewTx(d)
  <2>1. RenewTx(d)'
    BY <1>0, <1>9 DEF RenewTx
  <2> QED
    BY <2>1 DEF TxInv
<1>10. CASE SweepTx(d)
  <2>1. t.op = "expire" => \A i \in t.rows : interrupts'[i].run = interrupts[i].run
    BY <1>10, NobodyIsNoId DEF SweepTx, Frame
  <2>2. SweepTx(d)'
    BY <1>0, <1>10, <2>1 DEF SweepTx
  <2> QED
    BY <2>2 DEF TxInv
<1> QED
  BY <1>1, <1>2, <1>3, <1>4, <1>5, <1>6, <1>7, <1>8, <1>9, <1>10 DEF TxInv

\* Tokens and holders change only by a new claim, which raises the version.
LeaseMoves(r) ==
    \/ leases'[r].token = leases[r].token /\ leases'[r].holder = leases[r].holder
    \/ leases'[r].token = leases[r].token + 1 /\ runs'[r].version = runs[r].version + 1

LEMMA OthersKeepClaim ==
    ASSUME PgTyped, NEW K, Frame(K), NEW w \in Worker, copy'[w] = copy[w], CopyInv(w),
           \A r \in Run : LeaseMoves(r)
    PROVE  CopyInv(w)'
<1> SUFFICES ASSUME copy[w].run # Nobody PROVE CopyInv(w)'
  BY DEF CopyInv
<1>2. PICK r \in Run : r = copy[w].run
  BY DEF PgTyped, ClaimRow
<1>3. /\ copy[w].token \in Nat /\ copy[w].version \in Nat /\ leases[r].token \in Nat
      /\ runs[r].version \in Nat
  BY DEF PgTyped, StoreTypeOK, ClaimRow, RunRow, LeaseRow
<1>4. /\ Exists(r)
      /\ copy[w].token > 0 /\ copy[w].token <= leases[r].token /\ copy[w].version <= runs[r].version
      /\ copy[w].version = runs[r].version => copy[w].token = leases[r].token
      /\ copy[w].token = leases[r].token => leases[r].holder = w
  BY <1>2 DEF CopyInv
<1>5. Exists(r)' /\ (runs'[r] = runs[r] \/ runs'[r].version = runs[r].version + 1)
  BY <1>4 DEF Frame, Exists
<1>6. /\ copy[w].token <= leases'[r].token /\ copy[w].version <= runs'[r].version
      /\ copy[w].version = runs'[r].version => copy[w].token = leases'[r].token
      /\ copy[w].token = leases'[r].token => leases'[r].holder = w
  BY <1>3, <1>4, <1>5 DEF LeaseMoves
<1> QED
  BY <1>2, <1>4, <1>5, <1>6 DEF CopyInv

\* The invariant, connection by connection.
LEMMA FrameStep ==
    ASSUME PgInv, PgTyped', NEW K, Frame(K), RowsInv',
           \A c \in Conn : c \in K => TxInv(c)',
           \A w \in Worker : <<"main", w>> \in K => copy'[w] = copy[w] \/ CopyInv(w)',
           \A r \in Run : LeaseMoves(r)
    PROVE  PgInv'
<1>1. \A c \in Conn : TxInv(c)'
  BY OthersKeepTx DEF PgInv
<1>2. \A w \in Worker : CopyInv(w)'
  BY OthersKeepClaim DEF PgInv, Frame
<1> QED
  BY <1>1, <1>2 DEF PgInv

-----------------------------------------------------------------------------
(* Steps that leave the tables alone *)

LEMMA NoTxFields ==
    /\ NoTx \in TxRow
    /\ NoTx.op = "none" /\ NoTx.todo = <<>> /\ NoTx.run = Nobody /\ NoTx.rows = {}
<1>1. <<>> \in Seq(Lockable)
  OBVIOUS
<1> QED
  BY <1>1 DEF NoTx, TxRow

LEMMA IdleHoldsNothing ==
    ASSUME NEW c \in Conn, TxInv(c), tx[c].op = "none"
    PROVE  tx[c] = NoTx /\ Holding(c) = {}
  BY DEF TxInv, CreateTx, ClaimTx, LeaseFirstTx, InterruptTx, DecideTx, TransitionTx, AppendTx,
         RenewTx, SweepTx

LEMMA SameTables ==
    ASSUME PgInv, UNCHANGED <<storeVars, invoked>>,
           \A r \in Run : lock'[TheRun(r)] # Nobody /\ ~Exists(r) =>
               tx'[lock'[TheRun(r)]].op = "create"
    PROVE  RowsInv' /\ \A r \in Run : LeaseMoves(r)
  BY DEF PgInv, RowsInv, LeaseMoves, storeVars, Exists

\* A transaction of c opens as t and has the free rows S locked at once.
LEMMA OpenStep ==
    ASSUME PgInv, NEW c \in Conn, NEW t \in TxRow, NEW S \in SUBSET Lockable,
           tx[c] = NoTx, tx' = [tx EXCEPT ![c] = t], UNCHANGED <<storeVars, invoked>>,
           \A l \in S : lock[l] = Nobody,
           lock' = [l \in Lockable |-> IF l \in S THEN c ELSE lock[l]],
           \A r \in Run : TheRun(r) \in S => Exists(r) \/ t.op = "create",
           copy' \in [Worker -> ClaimRow],
           \A w \in Worker : copy'[w] = copy[w] \/ (<<"main", w>> = c /\ CopyInv(w)'),
           tx'[c] = t /\ Holding(c)' = S => TxInv(c)'
    PROVE  PgInv'
<1>0. PgTyped /\ TxInv(c) /\ RowsInv
  BY DEF PgInv
<1>1. Holding(c) = {}
  BY <1>0, NoTxFields, IdleHoldsNothing
<1>2. PgTyped'
  BY <1>0 DEF PgTyped, StoreTypeOK, storeVars
<1>3. tx'[c] = t /\ Holding(c)' = S
  <2>1. tx'[c] = t
    BY <1>0 DEF PgTyped
  <2>2. Holding(c)' = S
    BY <1>1, NobodyIsNoConnection DEF Holding
  <2> QED
    BY <2>1, <2>2
<1>4. TxInv(c)'
  BY <1>3
<1>5. Frame({c})
  <2>1. \A d \in Conn \ {c} : tx'[d] = tx[d]
    BY <1>0 DEF PgTyped
  <2>2. \A d \in Conn \ {c} : \A l \in Lockable : lock'[l] = d <=> lock[l] = d
    BY NobodyIsNoConnection
  <2>3. \A w \in Worker : <<"main", w>> \notin {c} => copy'[w] = copy[w]
    OBVIOUS
  <2> QED
    BY <2>1, <2>2, <2>3 DEF Frame, storeVars
<1>6. ASSUME NEW r \in Run, lock'[TheRun(r)] # Nobody, ~Exists(r)
      PROVE  tx'[lock'[TheRun(r)]].op = "create"
  <2>1. TheRun(r) \in Lockable
    BY RunNames
  <2>2. CASE TheRun(r) \in S
    BY <1>3, <1>6, <2>1, <2>2
  <2>3. CASE TheRun(r) \notin S
    <3>1. lock'[TheRun(r)] = lock[TheRun(r)] /\ lock[TheRun(r)] # c /\ lock[TheRun(r)] \in Conn
      BY <1>0, <1>1, <1>6, <2>1, <2>3 DEF Holding, PgTyped
    <3> QED
      BY <1>0, <1>6, <3>1 DEF RowsInv, PgTyped
  <2> QED
    BY <2>2, <2>3
<1>7. RowsInv' /\ \A r \in Run : LeaseMoves(r)
  BY <1>6, SameTables
<1>8. \A w \in Worker : <<"main", w>> \in {c} => CopyInv(w)'
  <2> SUFFICES ASSUME NEW w \in Worker PROVE CopyInv(w)'
    OBVIOUS
  <2>1. CASE copy'[w] = copy[w]
    BY <2>1 DEF PgInv, CopyInv, storeVars, Exists
  <2> QED
    BY <2>1
<1> QED
  BY <1>2, <1>4, <1>5, <1>7, <1>8, FrameStep

\* Transactions in K end without a change: everything they have locked is free.
LEMMA CloseStep ==
    ASSUME PgInv, NEW K \in SUBSET Conn, UNCHANGED <<storeVars, invoked>>,
           tx' = [d \in Conn |-> IF d \in K THEN NoTx ELSE tx[d]],
           lock' = [l \in Lockable |-> IF lock[l] \in K THEN Nobody ELSE lock[l]],
           copy' \in [Worker -> ClaimRow],
           \A w \in Worker : copy'[w] = copy[w] \/ (<<"main", w>> \in K /\ CopyInv(w)')
    PROVE  PgInv'
<1>0. PgTyped /\ RowsInv
  BY DEF PgInv
<1>1. PgTyped'
  BY <1>0, NoTxFields DEF PgTyped, StoreTypeOK, storeVars
<1>2. Frame(K)
  <2>1. \A d \in Conn \ K : tx'[d] = tx[d]
    OBVIOUS
  <2>2. \A d \in Conn \ K : \A l \in Lockable : lock'[l] = d <=> lock[l] = d
    BY NobodyIsNoConnection
  <2>3. \A w \in Worker : <<"main", w>> \notin K => copy'[w] = copy[w]
    OBVIOUS
  <2> QED
    BY <2>1, <2>2, <2>3 DEF Frame, storeVars
<1>3. \A c \in Conn : c \in K => TxInv(c)'
  <2> SUFFICES ASSUME NEW c \in Conn, c \in K PROVE tx'[c] = NoTx /\ Holding(c)' = {}
    BY DEF TxInv
  <2> QED
    BY NobodyIsNoConnection DEF Holding
<1>4. ASSUME NEW r \in Run, lock'[TheRun(r)] # Nobody, ~Exists(r)
      PROVE  tx'[lock'[TheRun(r)]].op = "create"
  <2>1. TheRun(r) \in Lockable
    BY RunNames
  <2>2. lock'[TheRun(r)] = lock[TheRun(r)] /\ lock[TheRun(r)] \in Conn /\ lock[TheRun(r)] \notin K
    BY <1>0, <1>4, <2>1 DEF PgTyped
  <2> QED
    BY <1>0, <1>4, <2>2 DEF RowsInv
<1>5. RowsInv' /\ \A r \in Run : LeaseMoves(r)
  BY <1>4, SameTables
<1>6. \A w \in Worker : <<"main", w>> \in K => CopyInv(w)'
  <2> SUFFICES ASSUME NEW w \in Worker PROVE CopyInv(w)'
    OBVIOUS
  <2>1. CASE copy'[w] = copy[w]
    BY <2>1 DEF PgInv, CopyInv, storeVars, Exists
  <2> QED
    BY <2>1
<1> QED
  BY <1>1, <1>2, <1>3, <1>5, <1>6, FrameStep

\* A claim that the worker is about to fail, or has given up, is as good as before.
LEMMA FailingClaim ==
    ASSUME PgInv, NEW w \in Worker, UNCHANGED storeVars,
           \/ copy' = [copy EXCEPT ![w] = NoClaim]
           \/ copy' = [copy EXCEPT ![w].failing = TRUE]
    PROVE  /\ copy' \in [Worker -> ClaimRow]
           /\ CopyInv(w)' /\ \A v \in Worker : v # w => copy'[v] = copy[v]
<1>0. copy \in [Worker -> ClaimRow] /\ CopyInv(w)
  BY DEF PgInv, PgTyped
<1>1. CASE copy' = [copy EXCEPT ![w] = NoClaim]
  <2>1. NoClaim \in ClaimRow /\ NoClaim.run = Nobody
    BY DEF NoClaim, ClaimRow
  <2>2. copy'[w] = NoClaim
    BY <1>0, <1>1
  <2> QED
    BY <1>0, <1>1, <2>1, <2>2 DEF CopyInv
<1>2. CASE copy' = [copy EXCEPT ![w].failing = TRUE]
  <2>1. copy'[w] = [copy[w] EXCEPT !.failing = TRUE]
    BY <1>0, <1>2
  <2>2. /\ copy'[w] \in ClaimRow /\ copy'[w].run = copy[w].run /\ copy'[w].token = copy[w].token
        /\ copy'[w].version = copy[w].version
    BY ZenonT(60), <1>0, <2>1 DEF ClaimRow
  <2>3. CopyInv(w)'
    BY <1>0, <2>2 DEF CopyInv, storeVars, Exists
  <2> QED
    BY <1>0, <1>2, <2>2, <2>3
<1> QED
  BY <1>1, <1>2

LEMMA RollbackInv ==
    ASSUME PgInv, NEW c \in Conn, Rollback(c)
    PROVE  PgInv'
<1>0. PgTyped
  BY DEF PgInv
<1>1. UNCHANGED <<storeVars, invoked>> /\ copy' = AfterRollback(c) /\ lock' = Unlocked(c)
      /\ tx' = [tx EXCEPT ![c] = NoTx]
  BY DEF Rollback
<1>2. tx' = [d \in Conn |-> IF d \in {c} THEN NoTx ELSE tx[d]]
  BY <1>0, <1>1 DEF PgTyped
<1>3. lock' = [l \in Lockable |-> IF lock[l] \in {c} THEN Nobody ELSE lock[l]]
  BY <1>1 DEF Unlocked
<1>4. copy' \in [Worker -> ClaimRow]
      /\ \A w \in Worker : copy'[w] = copy[w] \/ (<<"main", w>> \in {c} /\ CopyInv(w)')
  <2>1. CASE c[1] # "main" \/ copy[c[2]].run = Nobody
    <3>1. copy' = copy
      BY <1>1, <2>1 DEF AfterRollback
    <3> QED
      BY <1>0, <3>1 DEF PgTyped
  <2>2. CASE ~(c[1] # "main" \/ copy[c[2]].run = Nobody)
    <3>1. c[2] \in Worker /\ c = <<"main", c[2]>>
      BY <2>2, MainConnections
    <3>2. \/ copy' = [copy EXCEPT ![c[2]] = NoClaim]
          \/ copy' = [copy EXCEPT ![c[2]].failing = TRUE]
      <4>1. CASE copy[c[2]].failing
        BY <1>1, <2>2, <4>1 DEF AfterRollback
      <4>2. CASE ~copy[c[2]].failing
        BY <1>1, <2>2, <4>2 DEF AfterRollback
      <4> QED
        BY <4>1, <4>2
    <3> QED
      BY <1>1, <3>1, <3>2, FailingClaim
  <2> QED
    BY <2>1, <2>2
<1> QED
  BY <1>1, <1>2, <1>3, <1>4, CloseStep

LEMMA KilledInv ==
    ASSUME PgInv, NEW w \in Worker, Killed(w)
    PROVE  PgInv'
<1> DEFINE K == {<<"main", w>>, <<"beat", w>>}
<1>0. PgTyped /\ K \in SUBSET Conn
  BY ConnectionNames DEF PgInv
<1>1. UNCHANGED <<storeVars, invoked>> /\ copy' = [copy EXCEPT ![w] = NoClaim]
      /\ lock' = [l \in Lockable |-> IF lock[l] \in K THEN Nobody ELSE lock[l]]
      /\ tx' = [tx EXCEPT ![<<"main", w>>] = NoTx, ![<<"beat", w>>] = NoTx]
  BY DEF Killed
<1>2. tx' = [d \in Conn |-> IF d \in K THEN NoTx ELSE tx[d]]
  BY <1>0, <1>1 DEF PgTyped
<1>3. copy' \in [Worker -> ClaimRow]
      /\ \A v \in Worker : copy'[v] = copy[v] \/ (<<"main", v>> \in K /\ CopyInv(v)')
  BY <1>1, FailingClaim
<1> QED
  BY <1>0, <1>1, <1>2, <1>3, CloseStep

-----------------------------------------------------------------------------
(* Transactions begin *)

LEMMA RequestRecord ==
    ASSUME NEW op, NEW r, NEW token, NEW ver, NEW target
    PROVE  LET t == Request(op, r, token, ver, target) IN
           /\ t.op = op /\ t.todo = LockOrder(op, r, Nobody) /\ t.run = r /\ t.int = Nobody
           /\ t.token = token /\ t.ver = ver /\ t.target = target /\ t.row = NoRow
  BY DEF Request, NoTx

LEMMA LockOrders ==
    ASSUME NEW r, NEW i
    PROVE  /\ LockOrder("checkpoint", r, i) = <<TheLease(r), TheRun(r)>>
           /\ LockOrder("finish", r, i) = <<TheLease(r), TheRun(r)>>
           /\ LockOrder("renew", r, i) = <<TheLease(r)>>
           /\ LockOrder("interrupt", r, i) = <<TheRun(r), TheLease(r)>>
           /\ LockOrder("decide", r, i) = <<TheInterrupt(i), TheRun(r)>>
           /\ LockOrder("event", r, i) = <<TheRun(r)>>
           /\ LockOrder("prepare", r, i) = <<TheRun(r)>>
           /\ LockOrder("transition", r, i) = <<TheRun(r)>>
  BY DEF LockOrder

LEMMA RequestType ==
    ASSUME NEW op \in {"checkpoint", "finish", "interrupt", "decide", "transition", "event",
                       "prepare", "renew"},
           NEW r \in Run, NEW token \in Nat, NEW ver \in Nat,
           NEW target \in State \cup Decisions \cup Status \cup {"none"},
           LockOrder(op, r, Nobody) \in Seq(Lockable)
    PROVE  Request(op, r, token, ver, target) \in TxRow
<1> DEFINE todo == LockOrder(op, r, Nobody)
<1>1. todo \in Seq(Lockable) /\ NoTx \in TxRow
  BY NoTxFields
<1>2. Request(op, r, token, ver, target) =
        [NoTx EXCEPT !.op = op, !.todo = todo, !.run = r, !.token = token, !.ver = ver,
                     !.target = target]
  BY DEF Request
<1> HIDE DEF todo
<1> QED
  BY ZenonT(60), <1>1, <1>2 DEF TxRow

\* A transaction that takes no lock when it begins.
LEMMA BeginsUnlocked ==
    ASSUME PgInv, NEW c \in Conn, NEW t \in TxRow, tx[c] = NoTx, tx' = [tx EXCEPT ![c] = t],
           UNCHANGED <<storeVars, invoked>>, UNCHANGED lock, copy' \in [Worker -> ClaimRow],
           \A w \in Worker : copy'[w] = copy[w] \/ (<<"main", w>> = c /\ CopyInv(w)'),
           tx'[c] = t /\ Holding(c)' = {} => TxInv(c)'
    PROVE  PgInv'
<1>1. PICK S \in SUBSET Lockable : S = {}
  OBVIOUS
<1>2. lock' = [l \in Lockable |-> IF l \in S THEN c ELSE lock[l]]
  BY <1>1 DEF PgInv, PgTyped
<1>3. /\ \A l \in S : lock[l] = Nobody
      /\ \A r \in Run : TheRun(r) \in S => Exists(r) \/ t.op = "create"
      /\ tx'[c] = t /\ Holding(c)' = S => TxInv(c)'
  BY <1>1
<1> HIDE <1>1
<1> QED
  BY <1>2, <1>3, OpenStep

LEMMA BeginsAlone ==
    ASSUME PgInv, NEW c \in Conn, NEW t \in TxRow, Begin(c, t), UNCHANGED lock,
           tx'[c] = t /\ Holding(c)' = {} => TxInv(c)'
    PROVE  PgInv'
<1>1. /\ tx[c] = NoTx /\ tx' = [tx EXCEPT ![c] = t] /\ UNCHANGED <<storeVars, invoked>>
      /\ copy' = copy
  BY DEF Begin
<1>2. copy' \in [Worker -> ClaimRow]
  BY <1>1 DEF PgInv, PgTyped
<1> QED
  BY <1>1, <1>2, BeginsUnlocked

LEMMA BeginsLocked ==
    ASSUME PgInv, NEW c \in Conn, NEW t \in TxRow, NEW S \in SUBSET Lockable, BeginLocked(c, t, S),
           \A l \in S : lock[l] = Nobody,
           \A r \in Run : TheRun(r) \in S => Exists(r) \/ t.op = "create",
           tx'[c] = t /\ Holding(c)' = S => TxInv(c)'
    PROVE  PgInv'
<1>1. /\ tx[c] = NoTx /\ tx' = [tx EXCEPT ![c] = t] /\ UNCHANGED <<storeVars, invoked>>
      /\ copy' = copy
      /\ lock' = [l \in Lockable |-> IF l \in S THEN c ELSE lock[l]]
  BY DEF BeginLocked, Begin
<1>2. copy' \in [Worker -> ClaimRow]
  BY <1>1 DEF PgInv, PgTyped
<1> QED
  BY <1>1, <1>2, OpenStep

\* The claim in a worker's memory.
LEMMA ClaimFields ==
    ASSUME PgInv, NEW w \in Worker, copy[w].run # Nobody
    PROVE  /\ copy[w].run \in Run /\ Exists(copy[w].run) /\ copy[w].token \in Nat
           /\ copy[w].version \in Nat /\ copy[w].sequence \in Nat
  BY DEF PgInv, PgTyped, ClaimRow, CopyInv

LEMMA StepRequestInv ==
    ASSUME PgInv, NEW w \in Worker, copy[w].run # Nobody, NEW t \in StepRequests(w),
           tx'[<<"main", w>>] = t, Holding(<<"main", w>>)' = {}, copy' = copy, UNCHANGED storeVars
    PROVE  TxInv(<<"main", w>>)'
<1> DEFINE c == <<"main", w>>
           k == copy[w]
<1>0. /\ k.run \in Run /\ Exists(k.run) /\ k.token \in Nat /\ k.version \in Nat
      /\ c[1] = "main" /\ c[2] = w
  BY ClaimFields, ConnectionNames
<1>1. ASSUME NEW st \in State, t = Request("checkpoint", k.run, k.token, k.version, st)
      PROVE  LeaseFirstTx(c)'
  <2>1. /\ t.op = "checkpoint" /\ t.todo = <<TheLease(k.run), TheRun(k.run)>> /\ t.run = k.run
        /\ t.token = k.token /\ t.target = st
    BY <1>1, RequestRecord, LockOrders
  <2> QED
    BY <1>0, <2>1 DEF LeaseFirstTx, OwnClaim
<1>2. ASSUME t = Request("finish", k.run, k.token, k.version, "SUCCEEDED")
      PROVE  LeaseFirstTx(c)'
  <2>1. /\ t.op = "finish" /\ t.todo = <<TheLease(k.run), TheRun(k.run)>> /\ t.run = k.run
        /\ t.token = k.token /\ t.target = "SUCCEEDED"
    BY <1>2, RequestRecord, LockOrders
  <2> QED
    BY <1>0, <2>1 DEF LeaseFirstTx, OwnClaim
<1>3. ASSUME NEW i \in Interrupt,
             t = [Request("interrupt", k.run, k.token, k.version, "WAITING") EXCEPT !.int = i]
      PROVE  InterruptTx(c)'
  <2>1. /\ t.op = "interrupt" /\ t.todo = <<TheRun(k.run), TheLease(k.run)>> /\ t.run = k.run
        /\ t.token = k.token /\ t.target = "WAITING" /\ t.int = i /\ t.ver = k.version
    BY <1>3, RequestRecord, LockOrders
  <2> QED
    BY <1>0, <2>1 DEF InterruptTx, OwnClaim
<1>4. ASSUME NEW op \in {"event", "prepare"}, t = Request(op, k.run, k.token, k.version, "none")
      PROVE  AppendTx(c)'
  <2>1. t.op = op /\ t.todo = <<TheRun(k.run)>> /\ t.run = k.run
    BY <1>4, RequestRecord, LockOrders
  <2> QED
    BY <1>0, <2>1 DEF AppendTx, Exists, storeVars
<1> QED
  BY <1>1, <1>2, <1>3, <1>4 DEF StepRequests, TxInv

LEMMA StepRequestType ==
    ASSUME PgInv, NEW w \in Worker, copy[w].run # Nobody, NEW t \in StepRequests(w)
    PROVE  t \in TxRow
<1> DEFINE k == copy[w]
<1>0. /\ k.run \in Run /\ k.token \in Nat /\ k.version \in Nat
  BY ClaimFields
<1>a. /\ TheRun(k.run) \in Lockable /\ TheLease(k.run) \in Lockable
      /\ <<TheLease(k.run), TheRun(k.run)>> \in Seq(Lockable)
      /\ <<TheRun(k.run), TheLease(k.run)>> \in Seq(Lockable) /\ <<TheRun(k.run)>> \in Seq(Lockable)
  BY <1>0, RunNames
<1>b. NoRow \in RunRow \cup {NoRow} /\ {} \in SUBSET (Run \cup Interrupt)
  OBVIOUS
<1>1. ASSUME NEW st \in State, t = Request("checkpoint", k.run, k.token, k.version, st)
      PROVE  t \in TxRow
  BY <1>0, <1>a, <1>b, <1>1, RequestType, LockOrders
<1>2. ASSUME t = Request("finish", k.run, k.token, k.version, "SUCCEEDED")
      PROVE  t \in TxRow
  BY <1>0, <1>a, <1>b, <1>2, RequestType, LockOrders DEF Status, Terminal
<1>3. ASSUME NEW i \in Interrupt,
             t = [Request("interrupt", k.run, k.token, k.version, "WAITING") EXCEPT !.int = i]
      PROVE  t \in TxRow
  <2>1. Request("interrupt", k.run, k.token, k.version, "WAITING") \in TxRow
    BY <1>0, <1>a, RequestType, LockOrders DEF Status, Active
  <2> QED
    BY <1>3, <2>1 DEF TxRow
<1>4. ASSUME NEW op \in {"event", "prepare"}, t = Request(op, k.run, k.token, k.version, "none")
      PROVE  t \in TxRow
  BY <1>0, <1>a, <1>b, <1>4, RequestType, LockOrders
<1> QED
  BY <1>1, <1>2, <1>3, <1>4 DEF StepRequests

LEMMA BeginStepInv ==
    ASSUME PgInv, NEW w \in Worker, BeginStep(w)
    PROVE  PgInv'
<1>1. copy[w].run # Nobody /\ UNCHANGED lock
  BY DEF BeginStep
<1>2. PICK t \in StepRequests(w) : Begin(<<"main", w>>, t)
  BY DEF BeginStep
<1>3. t \in TxRow
  BY <1>1, StepRequestType
<1>4. copy' = copy /\ UNCHANGED storeVars
  BY <1>2 DEF Begin
<1>5. tx'[<<"main", w>>] = t /\ Holding(<<"main", w>>)' = {} => TxInv(<<"main", w>>)'
  BY <1>1, <1>4, StepRequestInv
<1> QED
  BY <1>1, <1>2, <1>3, <1>5, ConnectionNames, BeginsAlone

LEMMA BeginFailInv ==
    ASSUME PgInv, NEW w \in Worker, BeginFail(w)
    PROVE  PgInv'
<1> DEFINE c == <<"main", w>>
           r == copy[w].run
<1>0. r # Nobody /\ tx[c] = NoTx /\ lock' = lock
  BY DEF BeginFail
<1>1. r \in Run /\ copy[w].token \in Nat /\ c \in Conn /\ c[1] = "main" /\ c[2] = w
      /\ runs[r].version \in Nat
  BY <1>0, ClaimFields, ConnectionNames DEF PgInv, PgTyped, StoreTypeOK, RunRow
<1>3. CASE runs[r].status \in Terminal
  <2>1. copy' = [copy EXCEPT ![w] = NoClaim] /\ UNCHANGED <<storeVars, invoked, tx>>
    BY <1>3 DEF BeginFail
  <2>2. tx' = [tx EXCEPT ![c] = NoTx]
    BY <1>0, <1>1, <2>1 DEF PgInv, PgTyped
  <2>3. copy' \in [Worker -> ClaimRow]
        /\ \A v \in Worker : copy'[v] = copy[v] \/ (<<"main", v>> = c /\ CopyInv(v)')
    BY <2>1, FailingClaim
  <2>4. tx'[c] = NoTx /\ Holding(c)' = {} => TxInv(c)'
    BY DEF TxInv
  <2> QED
    BY <1>0, <1>1, <2>1, <2>2, <2>3, <2>4, NoTxFields, BeginsUnlocked
<1>4. CASE runs[r].status \notin Terminal
  <2> DEFINE t == Request("finish", r, copy[w].token, runs[r].version, "FAILED")
  <2>1. copy' = [copy EXCEPT ![w].failing = TRUE] /\ UNCHANGED <<storeVars, invoked>>
        /\ tx' = [tx EXCEPT ![c] = t]
    BY <1>4 DEF BeginFail
  <2>2. /\ t.op = "finish" /\ t.todo = <<TheLease(r), TheRun(r)>> /\ t.run = r
        /\ t.token = copy[w].token /\ t.target = "FAILED"
    BY RequestRecord, LockOrders
  <2>3. t \in TxRow
    <3>1. <<TheLease(r), TheRun(r)>> \in Seq(Lockable)
      BY <1>1, RunNames
    <3>2. NoRow \in RunRow \cup {NoRow} /\ {} \in SUBSET (Run \cup Interrupt)
      OBVIOUS
    <3> QED
      BY <1>1, <3>1, <3>2, RequestType, LockOrders DEF Status, Terminal
  <2> HIDE DEF t
  <2>4. copy' \in [Worker -> ClaimRow]
        /\ \A v \in Worker : copy'[v] = copy[v] \/ (<<"main", v>> = c /\ CopyInv(v)')
    BY <2>1, FailingClaim
  <2>5. copy'[w].run = r /\ copy'[w].token = copy[w].token
    BY <2>1 DEF PgInv, PgTyped, ClaimRow
  <2>6. ASSUME tx'[c] = t, Holding(c)' = {} PROVE TxInv(c)'
    <3>1. LeaseFirstTx(c)'
      BY <1>1, <2>2, <2>5, <2>6 DEF LeaseFirstTx, OwnClaim
    <3> QED
      BY <3>1 DEF TxInv
  <2> QED
    BY <1>0, <1>1, <2>1, <2>3, <2>4, <2>6, BeginsUnlocked
<1> QED
  BY <1>3, <1>4

LEMMA BeginRenewInv ==
    ASSUME PgInv, NEW w \in Worker, BeginRenew(w)
    PROVE  PgInv'
<1> DEFINE c == <<"beat", w>>
           r == copy[w].run
           t == Request("renew", r, copy[w].token, 0, "none")
<1>0. r # Nobody /\ Begin(c, t) /\ UNCHANGED lock
  BY DEF BeginRenew
<1>1. r \in Run /\ copy[w].token \in Nat /\ c \in Conn
  BY <1>0, ClaimFields, ConnectionNames
<1>2. t.op = "renew" /\ t.todo = <<TheLease(r)>> /\ t.run = r
  BY RequestRecord, LockOrders
<1>3. t \in TxRow
  <2>1. <<TheLease(r)>> \in Seq(Lockable)
    BY <1>1, RunNames
  <2>2. NoRow \in RunRow \cup {NoRow} /\ {} \in SUBSET (Run \cup Interrupt)
    OBVIOUS
  <2> QED
    BY <1>1, <2>1, <2>2, RequestType, LockOrders
<1> HIDE DEF t
<1>4. ASSUME tx'[c] = t, Holding(c)' = {} PROVE TxInv(c)'
  <2>1. RenewTx(c)'
    BY <1>1, <1>2, <1>4 DEF RenewTx
  <2> QED
    BY <2>1 DEF TxInv
<1> QED
  BY <1>0, <1>1, <1>3, <1>4, BeginsAlone

LEMMA BeginTransitionInv ==
    ASSUME PgInv, NEW c \in Conn, NEW r \in Run, NEW target, BeginTransition(c, r, target),
           ControlMove(runs[r].status, target)
    PROVE  PgInv'
<1> DEFINE t == [Request("transition", r, 0, runs[r].version, target) EXCEPT !.row = runs[r]]
<1>0. Begin(c, t) /\ UNCHANGED lock
  BY DEF BeginTransition
<1>1. runs[r] \in RunRow /\ runs[r].version \in Nat /\ target \in Status /\ Exists(r)
  BY TransitionsLeaveActive DEF PgInv, PgTyped, StoreTypeOK, RunRow, ControlMove, CanTransition,
                                Exists
<1>2. t.op = "transition" /\ t.todo = <<TheRun(r)>> /\ t.run = r /\ t.row = runs[r]
      /\ t.ver = runs[r].version /\ t.target = target
  BY RequestRecord, LockOrders
<1>3. t \in TxRow
  <2>1. <<TheRun(r)>> \in Seq(Lockable)
    BY <1>1, RunNames
  <2>2. Request("transition", r, 0, runs[r].version, target) \in TxRow
    BY <1>1, <2>1, RequestType, LockOrders
  <2> QED
    BY <1>1, <2>2 DEF TxRow
<1> HIDE DEF t
<1>4. ASSUME tx'[c] = t, Holding(c)' = {} PROVE TxInv(c)'
  <2>1. UNCHANGED runs
    BY <1>0 DEF Begin, storeVars
  <2>2. TransitionTx(c)'
    BY <1>1, <1>2, <1>4, <2>1 DEF TransitionTx, Exists
  <2> QED
    BY <2>2 DEF TxInv
<1> QED
  BY <1>0, <1>3, <1>4, BeginsAlone

LEMMA BeginDecideInv ==
    ASSUME PgInv, NEW c \in Conn, NEW i \in Interrupt, NEW d \in Decisions, BeginDecide(c, i, d)
    PROVE  PgInv'
<1> DEFINE r == interrupts[i].run
           t == [Request("decide", r, 0, runs[r].version, d) EXCEPT
                    !.int = i, !.todo = LockOrder("decide", r, i)]
<1>0. r # Nobody /\ Begin(c, t) /\ UNCHANGED lock
  BY DEF BeginDecide
<1>1. r \in Run /\ runs[r].version \in Nat
  BY <1>0 DEF PgInv, PgTyped, StoreTypeOK, RunRow, InterruptRow
<1>2. t.op = "decide" /\ t.todo = <<TheInterrupt(i), TheRun(r)>> /\ t.run = r /\ t.int = i
      /\ t.target = d
  BY RequestRecord, LockOrders
<1>3. t \in TxRow
  <2>1. <<TheInterrupt(i), TheRun(r)>> \in Seq(Lockable)
    BY <1>1, RowNames
  <2>2. LockOrder("decide", r, i) = <<TheInterrupt(i), TheRun(r)>>
    BY LockOrders
  <2>3. t = [[NoTx EXCEPT !.op = "decide", !.todo = LockOrder("decide", r, Nobody), !.run = r,
                          !.token = 0, !.ver = runs[r].version, !.target = d] EXCEPT
                !.int = i, !.todo = LockOrder("decide", r, i)]
    BY DEF Request
  <2> HIDE DEF t
  <2> QED
    BY <1>1, <2>1, <2>2, <2>3 DEF NoTx, TxRow
<1> HIDE DEF t
<1>4. ASSUME tx'[c] = t, Holding(c)' = {} PROVE TxInv(c)'
  <2>1. UNCHANGED interrupts
    BY <1>0 DEF Begin, storeVars
  <2>2. DecideTx(c)'
    BY <1>1, <1>2, <1>4, <2>1 DEF DecideTx
  <2> QED
    BY <2>2 DEF TxInv
<1> QED
  BY <1>0, <1>3, <1>4, BeginsAlone

LEMMA BeginClaimInv ==
    ASSUME PgInv, NEW w \in Worker, NEW r \in Run, BeginClaim(w, r)
    PROVE  PgInv'
<1> DEFINE c == <<"main", w>>
           t == [NoTx EXCEPT !.op = "claim", !.run = r, !.row = runs[r],
                             !.todo = <<TheLease(r)>>, !.seq = events[r] + 1]
<1>0. runs[r].status = "QUEUED" /\ lock[TheRun(r)] = Nobody /\ BeginLocked(c, t, {TheRun(r)})
  BY DEF BeginClaim
<1>1. runs[r] \in RunRow /\ events[r] + 1 \in Nat /\ c \in Conn /\ c[1] = "main"
  <2>1. c \in Conn /\ c[1] = "main"
    BY ConnectionNames
  <2> QED
    BY <2>1 DEF PgInv, PgTyped, StoreTypeOK
<1>2. t.op = "claim" /\ t.run = r /\ t.row = runs[r] /\ t.todo = <<TheLease(r)>>
      /\ t.seq = events[r] + 1
  BY DEF NoTx
<1>3. t \in TxRow
  <2>1. <<TheLease(r)>> \in Seq(Lockable)
    BY RunNames
  <2> QED
    BY <1>1, <2>1 DEF NoTx, TxRow
<1> HIDE DEF t
<1>4. ASSUME tx'[c] = t, Holding(c)' = {TheRun(r)} PROVE TxInv(c)'
  <2>1. UNCHANGED <<runs, events>>
    BY <1>0 DEF BeginLocked, Begin, storeVars
  <2>2. ClaimTx(c)'
    BY <1>0, <1>1, <1>2, <1>4, <2>1 DEF ClaimTx, ReadsHold
  <2> QED
    BY <2>2 DEF TxInv
<1>5. {TheRun(r)} \in SUBSET Lockable /\ \A l \in {TheRun(r)} : lock[l] = Nobody
  BY <1>0, RunNames
<1>6. \A q \in Run : TheRun(q) \in {TheRun(r)} => Exists(q) \/ t.op = "create"
  BY <1>0, RunNames DEF Exists
<1> QED
  BY <1>0, <1>1, <1>3, <1>4, <1>5, <1>6, BeginsLocked

\* The row of a run that does not exist is locked only by the insert of the run,
\* and MayInsert waits for that.
LEMMA BeginCreateInv ==
    ASSUME PgInv, NEW c \in Conn, NEW r \in Run, BeginCreate(c, r)
    PROVE  PgInv'
<1> DEFINE t == [NoTx EXCEPT !.op = "create", !.run = r, !.seq = events[r] + 1]
<1>0. ~Exists(r) /\ MayInsert(c, r) /\ BeginLocked(c, t, {TheRun(r)}) /\ tx[c] = NoTx
  BY DEF BeginCreate, BeginLocked, Begin
<1>1. events[r] + 1 \in Nat /\ TheRun(r) \in Lockable
  BY RunNames DEF PgInv, PgTyped, StoreTypeOK
<1>2. t.op = "create" /\ t.run = r /\ t.todo = <<>> /\ t.seq = events[r] + 1
  BY DEF NoTx
<1>3. t \in TxRow
  <2>1. <<>> \in Seq(Lockable)
    OBVIOUS
  <2> QED
    BY <1>1, <2>1 DEF NoTx, TxRow
<1> HIDE DEF t
<1>4. lock[TheRun(r)] = Nobody
  <2> SUFFICES ASSUME lock[TheRun(r)] # Nobody PROVE FALSE
    OBVIOUS
  <2>1. PICK d \in Conn : d = lock[TheRun(r)]
    BY <1>1 DEF PgInv, PgTyped
  <2>2. tx[d].op = "create"
    BY <1>0, <2>1 DEF PgInv, RowsInv
  <2>3. d # c
    BY <1>0, <2>2, NoTxFields
  <2>4. CreateTx(d)
    BY <2>2, NoTxFields DEF PgInv, TxInv, CreateTx, ClaimTx, LeaseFirstTx, InterruptTx, DecideTx,
                TransitionTx, AppendTx, RenewTx, SweepTx
  <2>5. TheRun(r) \in Holding(d)
    BY <1>1, <2>1 DEF Holding
  <2>6. tx[d].run = r
    BY <2>4, <2>5, RunNames DEF CreateTx
  <2> QED
    BY <1>0, <2>2, <2>3, <2>6 DEF MayInsert
<1>5. ASSUME tx'[c] = t, Holding(c)' = {TheRun(r)} PROVE TxInv(c)'
  <2>1. UNCHANGED <<runs, events>>
    BY <1>0 DEF BeginLocked, Begin, storeVars
  <2>2. CreateTx(c)'
    BY <1>0, <1>2, <1>5, <2>1 DEF CreateTx, Exists
  <2> QED
    BY <2>2 DEF TxInv
<1>6. {TheRun(r)} \in SUBSET Lockable /\ \A l \in {TheRun(r)} : lock[l] = Nobody
  BY <1>1, <1>4
<1>7. \A q \in Run : TheRun(q) \in {TheRun(r)} => Exists(q) \/ t.op = "create"
  BY <1>2
<1> QED
  BY <1>0, <1>3, <1>5, <1>6, <1>7, BeginsLocked

LEMMA BeginRequeueInv ==
    ASSUME PgInv, NEW w \in Worker, BeginRequeue(w)
    PROVE  PgInv'
<1> DEFINE c == <<"main", w>>
           X == {r \in Run : Lapsed(r)}
           Rows(r) == <<TheLease(r), TheRun(r)>>
           P == {Rows(r) : r \in X}
           S == SweepLocks(P)
           t == [NoTx EXCEPT !.op = "requeue", !.rows = {r \in X : BothFree(Rows(r))}]
<1>0. BeginLocked(c, t, S) /\ c \in Conn
  BY ConnectionNames DEF BeginRequeue
<1>1. t.op = "requeue" /\ t.run = Nobody /\ t.todo = <<>> /\ t.rows = {r \in X : BothFree(Rows(r))}
  BY DEF NoTx
<1>2. t \in TxRow
  <2>1. <<>> \in Seq(Lockable) /\ {r \in X : BothFree(Rows(r))} \in SUBSET (Run \cup Interrupt)
    OBVIOUS
  <2> QED
    BY <2>1 DEF NoTx, TxRow
<1> HIDE DEF t
<1>3. \A r \in X : /\ Rows(r)[1] = TheLease(r) /\ Rows(r)[2] = TheRun(r)
                   /\ TheLease(r) \in Lockable /\ TheRun(r) \in Lockable
  BY RunNames
<1>4. \A l \in S : /\ lock[l] = Nobody
                   /\ \E r \in X : l = TheLease(r) \/ l = TheRun(r)
  BY <1>3 DEF SweepLocks, BothFree, Free
<1>5. \A r \in t.rows : TheLease(r) \in S /\ TheRun(r) \in S
  BY <1>1, <1>3 DEF SweepLocks, BothFree, Free
<1> HIDE DEF S
<1>6. S \in SUBSET Lockable
  BY <1>3, <1>4
<1>7. \A q \in Run : TheRun(q) \in S => Exists(q)
  <2> SUFFICES ASSUME NEW q \in Run, TheRun(q) \in S PROVE Exists(q)
    OBVIOUS
  <2>1. PICK r \in X : TheRun(q) = TheLease(r) \/ TheRun(q) = TheRun(r)
    BY <1>4
  <2>2. q = r
    BY <2>1, RunNames
  <2> QED
    BY <2>2 DEF Lapsed, PgInv, RowsInv
<1>8. ASSUME tx'[c] = t, Holding(c)' = S PROVE TxInv(c)'
  <2>1. SweepTx(c)'
    BY <1>1, <1>5, <1>8 DEF SweepTx
  <2> QED
    BY <2>1 DEF TxInv
<1> QED
  BY <1>0, <1>2, <1>4, <1>6, <1>7, <1>8, BeginsLocked

LEMMA BeginExpireInv ==
    ASSUME PgInv, NEW w \in Worker, BeginExpire(w)
    PROVE  PgInv'
<1> DEFINE c == <<"main", w>>
           X == {i \in Interrupt : Overdue(i)}
           Rows(i) == <<TheInterrupt(i), TheRun(interrupts[i].run)>>
           P == {Rows(i) : i \in X}
           S == SweepLocks(P)
           t == [NoTx EXCEPT !.op = "expire", !.rows = {i \in X : BothFree(Rows(i))}]
<1>0. BeginLocked(c, t, S) /\ c \in Conn /\ UNCHANGED interrupts
  BY ConnectionNames DEF BeginExpire, BeginLocked, Begin, storeVars
<1>1. t.op = "expire" /\ t.run = Nobody /\ t.todo = <<>> /\ t.rows = {i \in X : BothFree(Rows(i))}
  BY DEF NoTx
<1>2. t \in TxRow
  <2>1. <<>> \in Seq(Lockable) /\ {i \in X : BothFree(Rows(i))} \in SUBSET (Run \cup Interrupt)
    OBVIOUS
  <2> QED
    BY <2>1 DEF NoTx, TxRow
<1> HIDE DEF t
<1>3. \A i \in X : interrupts[i].run \in Run /\ Exists(interrupts[i].run)
  BY DEF Overdue, PgInv, PgTyped, StoreTypeOK, InterruptRow, RowsInv
<1>4. \A i \in X : /\ Rows(i)[1] = TheInterrupt(i) /\ Rows(i)[2] = TheRun(interrupts[i].run)
                   /\ TheInterrupt(i) \in Lockable /\ TheRun(interrupts[i].run) \in Lockable
  BY <1>3, RowNames
<1>5. \A l \in S : /\ lock[l] = Nobody
                   /\ \E i \in X : l = TheInterrupt(i) \/ l = TheRun(interrupts[i].run)
  BY <1>4 DEF SweepLocks, BothFree, Free
<1>6. \A i \in t.rows : TheRun(interrupts[i].run) \in S
  BY ZenonT(60), <1>1, <1>4 DEF SweepLocks, BothFree, Free
<1> HIDE DEF S
<1>7. S \in SUBSET Lockable
  BY <1>4, <1>5
<1>8. \A q \in Run : TheRun(q) \in S => Exists(q)
  <2> SUFFICES ASSUME NEW q \in Run, TheRun(q) \in S PROVE Exists(q)
    OBVIOUS
  <2>1. PICK i \in X : TheRun(q) = TheInterrupt(i) \/ TheRun(q) = TheRun(interrupts[i].run)
    BY <1>5
  <2>2. q = interrupts[i].run
    BY <1>3, <2>1, RowNames
  <2> QED
    BY <1>3, <2>2
<1>9. ASSUME tx'[c] = t, Holding(c)' = S PROVE TxInv(c)'
  <2>1. SweepTx(c)'
    BY <1>0, <1>1, <1>3, <1>6, <1>9 DEF SweepTx
  <2> QED
    BY <2>1 DEF TxInv
<1> QED
  BY <1>0, <1>2, <1>5, <1>7, <1>8, <1>9, BeginsLocked

-----------------------------------------------------------------------------
(* Transactions lock one more row *)

LEMMA GrantStep ==
    ASSUME PgInv, NEW c \in Conn, NEW l \in Lockable, lock[l] = Nobody,
           lock' = [lock EXCEPT ![l] = c], NEW u \in TxRow, tx' = [tx EXCEPT ![c] = u],
           UNCHANGED <<storeVars, copy, invoked>>, u.op = tx[c].op,
           \A r \in Run : l = TheRun(r) => Exists(r),
           tx'[c] = u /\ Holding(c)' = Holding(c) \cup {l} => TxInv(c)'
    PROVE  PgInv'
<1>0. PgTyped /\ RowsInv
  BY DEF PgInv
<1>1. PgTyped'
  BY <1>0 DEF PgTyped, StoreTypeOK, storeVars
<1>2. tx'[c] = u /\ Holding(c)' = Holding(c) \cup {l}
  BY <1>0 DEF PgTyped, Holding
<1>3. TxInv(c)'
  BY <1>2
<1>4. Frame({c})
  <2>1. \A d \in Conn \ {c} : tx'[d] = tx[d]
    BY <1>0 DEF PgTyped
  <2>2. \A d \in Conn \ {c} : \A m \in Lockable : lock'[m] = d <=> lock[m] = d
    BY <1>0, NobodyIsNoConnection DEF PgTyped
  <2> QED
    BY <2>1, <2>2 DEF Frame, storeVars
<1>5. ASSUME NEW r \in Run, lock'[TheRun(r)] # Nobody, ~Exists(r)
      PROVE  tx'[lock'[TheRun(r)]].op = "create"
  <2>1. TheRun(r) \in Lockable /\ TheRun(r) # l
    BY <1>5, RunNames
  <2>2. lock'[TheRun(r)] = lock[TheRun(r)] /\ lock[TheRun(r)] \in Conn
    BY <1>0, <1>5, <2>1 DEF PgTyped
  <2>3. tx[lock[TheRun(r)]].op = "create"
    BY <1>0, <1>5, <2>2 DEF RowsInv
  <2>4. tx'[lock[TheRun(r)]].op = tx[lock[TheRun(r)]].op
    BY <1>0, <1>2, <2>2 DEF PgTyped
  <2> QED
    BY <2>2, <2>3, <2>4
<1>6. RowsInv' /\ \A r \in Run : LeaseMoves(r)
  BY <1>5, SameTables
<1>7. \A w \in Worker : CopyInv(w)'
  BY DEF PgInv, CopyInv, storeVars, Exists
<1> QED
  BY <1>1, <1>3, <1>4, <1>6, <1>7, FrameStep

\* What a transaction is after it has locked the run.
LEMMA RunRemembered ==
    ASSUME PgTyped, NEW c \in Conn, NEW r \in Run, tx[c].run = r
    PROVE  LET u == [Remember(c, TheRun(r)) EXCEPT !.todo = Tail(@)]
               t == tx[c]
           IN  /\ u.op = t.op /\ u.run = r /\ u.todo = Tail(t.todo) /\ u.int = t.int
               /\ u.token = t.token /\ u.ver = t.ver /\ u.target = t.target
               /\ t.op \in {"transition", "prepare"} => u.row = t.row
               /\ t.op \notin {"transition", "prepare"} => u.row = runs[r]
               /\ t.op = "prepare" => u.seq = invoked[r] + 1
               /\ t.op # "prepare" => u.seq = events[r] + 1
               /\ t.todo # <<>> => u \in TxRow
<1> DEFINE t == tx[c]
           x == IF t.op \in {"transition", "prepare"} THEN t.row ELSE runs[r]
           n == (IF t.op = "prepare" THEN invoked[r] ELSE events[r]) + 1
           u == [Remember(c, TheRun(r)) EXCEPT !.todo = Tail(@)]
<1>0. t \in TxRow /\ x \in RunRow \cup {NoRow} /\ n \in Nat
  BY DEF PgTyped, TxRow, StoreTypeOK
<1>1. Remember(c, TheRun(r)) = [t EXCEPT !.row = x, !.seq = n]
  <2>1. Remember(c, TheRun(r)) = [t EXCEPT
             !.row = IF t.op \in {"transition", "prepare"} THEN @ ELSE runs[t.run],
             !.seq = (IF t.op = "prepare" THEN invoked[t.run] ELSE events[t.run]) + 1]
    BY RunNames DEF Remember
  <2> QED
    BY <2>1
<1> HIDE DEF x, n
<1>2. u = [t EXCEPT !.row = x, !.seq = n, !.todo = Tail(t.todo)]
  BY <1>0, <1>1 DEF TxRow
<1> HIDE DEF u
<1>3. t.todo # <<>> => Tail(t.todo) \in Seq(Lockable)
  BY <1>0 DEF TxRow
<1>4. /\ u.op = t.op /\ u.run = r /\ u.todo = Tail(t.todo) /\ u.int = t.int
      /\ u.token = t.token /\ u.ver = t.ver /\ u.target = t.target
      /\ u.row = x /\ u.seq = n
  BY <1>0, <1>2 DEF TxRow
<1>5. t.todo # <<>> => u \in TxRow
  BY <1>0, <1>2, <1>3 DEF TxRow
<1>6. /\ t.op \in {"transition", "prepare"} => x = t.row
      /\ t.op \notin {"transition", "prepare"} => x = runs[r]
      /\ t.op = "prepare" => n = invoked[r] + 1
      /\ t.op # "prepare" => n = events[r] + 1
  BY DEF x, n
<1> QED
  BY <1>4, <1>5, <1>6 DEF u

\* ... and after it has locked another row.
LEMMA OtherRemembered ==
    ASSUME PgTyped, NEW c \in Conn, NEW l \in Lockable, l[1] # "run", tx[c].todo # <<>>
    PROVE  LET u == [Remember(c, l) EXCEPT !.todo = Tail(@)]
               t == tx[c]
           IN  /\ u.op = t.op /\ u.run = t.run /\ u.todo = Tail(t.todo) /\ u.int = t.int
               /\ u.ver = t.ver /\ u.target = t.target /\ u.row = t.row /\ u.seq = t.seq
               /\ l[1] = "lease" /\ t.op = "claim" => u.token = leases[t.run].token + 1
               /\ ~(l[1] = "lease" /\ t.op = "claim") => u.token = t.token
               /\ (t.op = "claim" => t.run \in Run) => u \in TxRow
<1> DEFINE t == tx[c]
           n == IF l[1] = "lease" /\ t.op = "claim" THEN leases[t.run].token + 1 ELSE t.token
           u == [Remember(c, l) EXCEPT !.todo = Tail(@)]
<1>0. t \in TxRow /\ Tail(t.todo) \in Seq(Lockable)
  BY DEF PgTyped, TxRow
<1>1. u = [t EXCEPT !.token = n, !.todo = Tail(t.todo)]
  <2>1. CASE l[1] = "lease" /\ t.op = "claim"
    <3>1. Remember(c, l) = [t EXCEPT !.token = leases[t.run].token + 1]
      BY <2>1 DEF Remember
    <3> QED
      BY <1>0, <2>1, <3>1 DEF TxRow
  <2>2. CASE ~(l[1] = "lease" /\ t.op = "claim")
    <3>1. Remember(c, l) = t
      BY <2>2 DEF Remember
    <3>2. n = t.token
      BY <2>2
    <3> QED
      BY <1>0, <3>1, <3>2 DEF TxRow
  <2> QED
    BY <2>1, <2>2
<1>2. (t.op = "claim" => t.run \in Run) => n \in Nat
  BY <1>0 DEF PgTyped, StoreTypeOK, LeaseRow, TxRow
<1>n. /\ l[1] = "lease" /\ t.op = "claim" => n = leases[t.run].token + 1
      /\ ~(l[1] = "lease" /\ t.op = "claim") => n = t.token
  OBVIOUS
<1> HIDE DEF u, n
<1>3. /\ u.op = t.op /\ u.run = t.run /\ u.todo = Tail(t.todo) /\ u.int = t.int
      /\ u.ver = t.ver /\ u.target = t.target /\ u.row = t.row /\ u.seq = t.seq /\ u.token = n
  BY <1>0, <1>1 DEF TxRow
<1>4. n \in Nat => u \in TxRow
  BY <1>0, <1>1 DEF TxRow
<1> QED
  BY <1>2, <1>n, <1>3, <1>4 DEF u

\* A granted row was free: no transaction locks a row twice.
LEMMA GrantedWasFree ==
    ASSUME PgTyped, NEW c \in Conn, NEW l \in Lockable, Grantable(c, l), l \notin Holding(c)
    PROVE  lock[l] = Nobody
  BY DEF Grantable, Holding

\* The run's lock is granted to c, and what it has read passes.
LEMMA RunGranted ==
    ASSUME PgInv, NEW c \in Conn, NEW r \in Run, tx[c].run = r, tx[c].todo # <<>>,
           Head(tx[c].todo) = TheRun(r), Grantable(c, TheRun(r)), Passes(c, TheRun(r)), Exists(r),
           lock' = [lock EXCEPT ![TheRun(r)] = c],
           NEW u, u = [Remember(c, TheRun(r)) EXCEPT !.todo = Tail(@)],
           tx' = [tx EXCEPT ![c] = u],
           UNCHANGED <<storeVars, copy, invoked>>, TheRun(r) \notin Holding(c),
           RunPasses(c, r) /\ tx'[c] = u /\ Holding(c)' = Holding(c) \cup {TheRun(r)} => TxInv(c)'
    PROVE  PgInv'
<1>1. PgTyped /\ TheRun(r) \in Lockable
  BY RunNames DEF PgInv
<1>2. lock[TheRun(r)] = Nobody
  BY <1>1, GrantedWasFree
<1>3. u \in TxRow /\ u.op = tx[c].op
  BY <1>1, RunRemembered
<1>4. RunPasses(c, r)
  BY RunNames DEF Passes
<1>5. \A q \in Run : TheRun(r) = TheRun(q) => Exists(q)
  BY RunNames
<1> QED
  BY <1>1, <1>2, <1>3, <1>4, <1>5, GrantStep

\* The same for a lease or an interrupt.
LEMMA OtherGranted ==
    ASSUME PgInv, NEW c \in Conn, NEW l \in Lockable, l[1] # "run", tx[c].todo # <<>>,
           Head(tx[c].todo) = l, Grantable(c, l),
           tx[c].op = "claim" => tx[c].run \in Run,
           lock' = [lock EXCEPT ![l] = c],
           NEW u, u = [Remember(c, l) EXCEPT !.todo = Tail(@)],
           tx' = [tx EXCEPT ![c] = u],
           UNCHANGED <<storeVars, copy, invoked>>, l \notin Holding(c),
           tx'[c] = u /\ Holding(c)' = Holding(c) \cup {l} => TxInv(c)'
    PROVE  PgInv'
<1>1. PgTyped
  BY DEF PgInv
<1>2. lock[l] = Nobody
  BY <1>1, GrantedWasFree
<1>3. u \in TxRow /\ u.op = tx[c].op
  BY <1>1, OtherRemembered
<1>4. \A q \in Run : l # TheRun(q)
  BY RunNames
<1> QED
  BY <1>2, <1>3, <1>4, GrantStep

\* A transaction of c that has locked l and remembers what it read.
GrantedTo(c, l) ==
    /\ tx[c].todo # <<>> /\ l = Head(tx[c].todo) /\ Grantable(c, l) /\ Passes(c, l)
    /\ lock' = [lock EXCEPT ![l] = c]
    /\ tx' = [tx EXCEPT ![c] = [Remember(c, l) EXCEPT !.todo = Tail(@)]]
    /\ UNCHANGED <<storeVars, copy, invoked>>

LEMMA ClaimGrant ==
    ASSUME PgInv, NEW c \in Conn, ClaimTx(c), tx[c].todo # <<>>, GrantedTo(c, Head(tx[c].todo))
    PROVE  PgInv'
<1> DEFINE r == tx[c].run
           l == TheLease(r)
           u == [Remember(c, l) EXCEPT !.todo = Tail(@)]
<1>0. /\ r \in Run /\ l \in Lockable /\ l[1] = "lease" /\ l # TheRun(r)
      /\ Tail(<<l>>) = <<>> /\ Head(<<l>>) = l
  BY RunNames, Queues DEF ClaimTx
<1>1. tx[c].todo = <<l>> /\ Holding(c) = {TheRun(r)} /\ GrantedTo(c, l)
  BY <1>0 DEF ClaimTx
<1>2. /\ u.op = "claim" /\ u.run = r /\ u.todo = <<>> /\ u.row = tx[c].row /\ u.seq = tx[c].seq
      /\ u.token = leases[r].token + 1
  BY <1>0, <1>1, OtherRemembered DEF ClaimTx, PgInv
<1>3. /\ Grantable(c, l) /\ lock' = [lock EXCEPT ![l] = c] /\ tx' = [tx EXCEPT ![c] = u]
      /\ UNCHANGED <<storeVars, copy, invoked>>
  BY <1>1 DEF GrantedTo
<1> HIDE DEF u
<1>4. ASSUME tx'[c] = u, Holding(c)' = Holding(c) \cup {l} PROVE TxInv(c)'
  <2>1. Holding(c)' = {TheRun(r), l}
    BY <1>1, <1>4
  <2>2. ClaimTx(c)'
    BY <1>0, <1>2, <1>3, <1>4, <2>1 DEF ClaimTx, ReadsHold, storeVars
  <2> QED
    BY <2>2 DEF TxInv
<1> QED
  BY <1>0, <1>1, <1>3, <1>4, OtherGranted DEF ClaimTx, u

LEMMA LeaseFirstGrant ==
    ASSUME PgInv, NEW c \in Conn, LeaseFirstTx(c), tx[c].todo # <<>>,
           GrantedTo(c, Head(tx[c].todo))
    PROVE  PgInv'
<1> DEFINE r == tx[c].run
           l == TheLease(r)
           m == TheRun(r)
<1>0. /\ r \in Run /\ l \in Lockable /\ l[1] = "lease" /\ m \in Lockable /\ l # m
      /\ m[1] = "run"
      /\ Tail(<<l, m>>) = <<m>> /\ Head(<<l, m>>) = l /\ Tail(<<m>>) = <<>> /\ Head(<<m>>) = m
      /\ <<m>> # <<>>
  BY RunNames, Queues DEF LeaseFirstTx, OwnClaim
<1>t. PgTyped /\ c[1] = "main" /\ c[2] \in Worker /\ tx[c].op \in {"checkpoint", "finish"}
      /\ tx[c].run = copy[c[2]].run /\ Exists(r)
  <2>1. c[1] = "main" /\ tx[c].op \in {"checkpoint", "finish"} /\ tx[c].run = copy[c[2]].run
    BY DEF LeaseFirstTx, OwnClaim
  <2>2. c[2] \in Worker
    BY <2>1, MainConnections
  <2>3. CopyInv(c[2]) /\ r # Nobody
    BY <1>0, <2>2, NobodyIsNoId DEF PgInv
  <2> QED
    BY <2>1, <2>2, <2>3 DEF PgInv, CopyInv
<1>1. CASE tx[c].todo = <<l, m>>
  <2> DEFINE u == [Remember(c, l) EXCEPT !.todo = Tail(@)]
  <2>1. Holding(c) = {} /\ GrantedTo(c, l) /\ Head(tx[c].todo) = l
    BY <1>0, <1>1 DEF LeaseFirstTx
  <2>2. /\ u.op = tx[c].op /\ u.run = r /\ u.todo = <<m>> /\ u.token = tx[c].token
        /\ u.target = tx[c].target
    BY <1>0, <1>1, <1>t, OtherRemembered
  <2>3. /\ Grantable(c, l) /\ lock' = [lock EXCEPT ![l] = c] /\ tx' = [tx EXCEPT ![c] = u]
        /\ UNCHANGED <<storeVars, copy, invoked>> /\ Passes(c, l)
    BY <2>1 DEF GrantedTo
  <2>4. LeaseSeen(c)
    BY <1>0, <1>t, <2>3 DEF Passes, RequiredLease, LeaseSeen
  <2> HIDE DEF u
  <2>5. ASSUME tx'[c] = u, Holding(c)' = Holding(c) \cup {l} PROVE TxInv(c)'
    <3>1. Holding(c)' = {l}
      BY <2>1, <2>5
    <3>2. LeaseSeen(c)' /\ OwnClaim(c)'
      BY <2>2, <2>3, <2>4, <2>5 DEF LeaseSeen, OwnClaim, LeaseFirstTx, storeVars
    <3>3. LeaseFirstTx(c)'
      BY <2>2, <2>5, <3>1, <3>2 DEF LeaseFirstTx
    <3> QED
      BY <3>3 DEF TxInv
  <2> QED
    BY <1>0, <1>1, <1>t, <2>1, <2>3, <2>5, OtherGranted DEF u
<1>2. CASE tx[c].todo = <<m>>
  <2> DEFINE u == [Remember(c, m) EXCEPT !.todo = Tail(@)]
  <2>1. Holding(c) = {l} /\ LeaseSeen(c) /\ GrantedTo(c, m) /\ Head(tx[c].todo) = m
    BY <1>0, <1>2 DEF LeaseFirstTx
  <2>2. /\ u.op = tx[c].op /\ u.run = r /\ u.todo = <<>> /\ u.token = tx[c].token
        /\ u.target = tx[c].target /\ u.row = runs[r] /\ u.seq = events[r] + 1
    BY ZenonT(60), <1>0, <1>2, <1>t, RunRemembered
  <2>3. /\ Grantable(c, m) /\ lock' = [lock EXCEPT ![m] = c] /\ tx' = [tx EXCEPT ![c] = u]
        /\ UNCHANGED <<storeVars, copy, invoked>> /\ Passes(c, m)
    BY <2>1 DEF GrantedTo
  <2> HIDE DEF u
  <2>5. ASSUME RunPasses(c, r), tx'[c] = u, Holding(c)' = Holding(c) \cup {m} PROVE TxInv(c)'
    <3>1. Holding(c)' = {l, m}
      BY <2>1, <2>5
    <3>2. LeaseSeen(c)' /\ OwnClaim(c)' /\ ReadsHold(c)'
      BY <2>1, <2>2, <2>3, <2>5 DEF LeaseSeen, OwnClaim, ReadsHold, LeaseFirstTx, storeVars
    <3>3. /\ u.op = "checkpoint" => u.row.status = "RUNNING" /\ FollowsLast(c[2], r)
          /\ u.op = "finish" => CanTransition(u.row.status, u.target)
      BY <2>2, <2>5 DEF RunPasses
    <3>4. LeaseFirstTx(c)'
      BY <2>2, <2>3, <2>5, <3>1, <3>2, <3>3 DEF LeaseFirstTx, FollowsLast, storeVars
    <3> QED
      BY <3>4 DEF TxInv
  <2> QED
    BY <1>0, <1>2, <1>t, <2>1, <2>3, <2>5, RunGranted DEF u
<1> QED
  BY <1>1, <1>2 DEF LeaseFirstTx

LEMMA InterruptGrant ==
    ASSUME PgInv, NEW c \in Conn, InterruptTx(c), tx[c].todo # <<>>,
           GrantedTo(c, Head(tx[c].todo))
    PROVE  PgInv'
<1> DEFINE r == tx[c].run
           l == TheLease(r)
           m == TheRun(r)
<1>0. /\ r \in Run /\ l \in Lockable /\ l[1] = "lease" /\ m \in Lockable /\ l # m
      /\ m[1] = "run"
      /\ Tail(<<m, l>>) = <<l>> /\ Head(<<m, l>>) = m /\ Tail(<<l>>) = <<>> /\ Head(<<l>>) = l
      /\ <<l>> # <<>>
  BY RunNames, Queues DEF InterruptTx, OwnClaim
<1>t. PgTyped /\ c[1] = "main" /\ c[2] \in Worker /\ tx[c].op = "interrupt"
      /\ tx[c].run = copy[c[2]].run /\ Exists(r)
  <2>1. c[1] = "main" /\ tx[c].op = "interrupt" /\ tx[c].run = copy[c[2]].run
    BY DEF InterruptTx, OwnClaim
  <2>2. c[2] \in Worker
    BY <2>1, MainConnections
  <2>3. CopyInv(c[2]) /\ r # Nobody
    BY <1>0, <2>2, NobodyIsNoId DEF PgInv
  <2> QED
    BY <2>1, <2>2, <2>3 DEF PgInv, CopyInv
<1>1. CASE tx[c].todo = <<m, l>>
  <2> DEFINE u == [Remember(c, m) EXCEPT !.todo = Tail(@)]
  <2>1. Holding(c) = {} /\ GrantedTo(c, m) /\ Head(tx[c].todo) = m
    BY <1>0, <1>1 DEF InterruptTx
  <2>2. /\ u.op = tx[c].op /\ u.run = r /\ u.todo = <<l>> /\ u.token = tx[c].token
        /\ u.target = tx[c].target /\ u.row = runs[r] /\ u.seq = events[r] + 1
        /\ u.int = tx[c].int /\ u.ver = tx[c].ver
    BY ZenonT(60), <1>0, <1>1, <1>t, RunRemembered
  <2>3. /\ Grantable(c, m) /\ lock' = [lock EXCEPT ![m] = c] /\ tx' = [tx EXCEPT ![c] = u]
        /\ UNCHANGED <<storeVars, copy, invoked>> /\ Passes(c, m)
    BY <2>1 DEF GrantedTo
  <2> HIDE DEF u
  <2>5. ASSUME RunPasses(c, r), tx'[c] = u, Holding(c)' = Holding(c) \cup {m} PROVE TxInv(c)'
    <3>1. Holding(c)' = {m}
      BY <2>1, <2>5
    <3>2. OwnClaim(c)' /\ ReadsHold(c)'
      BY <2>1, <2>2, <2>3, <2>5 DEF OwnClaim, ReadsHold, InterruptTx, storeVars
    <3>3. u.row.status = "RUNNING" /\ u.row.version = u.ver
      BY <1>t, <2>2, <2>5 DEF RunPasses, InterruptTx, CanTransition
    <3>4. InterruptTx(c)'
      BY <2>2, <2>3, <2>5, <3>1, <3>2, <3>3 DEF InterruptTx
    <3> QED
      BY <3>4 DEF TxInv
  <2> QED
    BY <1>0, <1>1, <1>t, <2>1, <2>3, <2>5, RunGranted DEF u
<1>2. CASE tx[c].todo = <<l>>
  <2> DEFINE u == [Remember(c, l) EXCEPT !.todo = Tail(@)]
  <2>1. Holding(c) = {m} /\ GrantedTo(c, l) /\ Head(tx[c].todo) = l
    BY <1>0, <1>2 DEF InterruptTx
  <2>2. /\ u.op = tx[c].op /\ u.run = r /\ u.todo = <<>> /\ u.token = tx[c].token
        /\ u.target = tx[c].target /\ u.row = tx[c].row /\ u.seq = tx[c].seq
        /\ u.int = tx[c].int /\ u.ver = tx[c].ver
    BY <1>0, <1>2, <1>t, OtherRemembered
  <2>3. /\ Grantable(c, l) /\ lock' = [lock EXCEPT ![l] = c] /\ tx' = [tx EXCEPT ![c] = u]
        /\ UNCHANGED <<storeVars, copy, invoked>>
    BY <2>1 DEF GrantedTo
  <2> HIDE DEF u
  <2>5. ASSUME tx'[c] = u, Holding(c)' = Holding(c) \cup {l} PROVE TxInv(c)'
    <3>1. Holding(c)' = {m, l}
      BY <2>1, <2>5
    <3>2. OwnClaim(c)' /\ ReadsHold(c)' /\ u.row.status = "RUNNING" /\ u.row.version = u.ver
      BY <1>0, <1>2, <2>1, <2>2, <2>3, <2>5 DEF OwnClaim, ReadsHold, InterruptTx, storeVars
    <3>4. InterruptTx(c)'
      BY <2>2, <2>3, <2>5, <3>1, <3>2 DEF InterruptTx
    <3> QED
      BY <3>4 DEF TxInv
  <2> QED
    BY <1>0, <1>2, <1>t, <2>1, <2>3, <2>5, OtherGranted DEF u
<1> QED
  BY <1>1, <1>2 DEF InterruptTx

LEMMA DecideGrant ==
    ASSUME PgInv, NEW c \in Conn, DecideTx(c), tx[c].todo # <<>>,
           GrantedTo(c, Head(tx[c].todo))
    PROVE  PgInv'
<1> DEFINE r == tx[c].run
           l == TheInterrupt(tx[c].int)
           m == TheRun(r)
<1>0. /\ r \in Run /\ tx[c].int \in Interrupt /\ l \in Lockable /\ l[1] = "interrupt"
      /\ m \in Lockable /\ l # m /\ m[1] = "run"
      /\ Tail(<<l, m>>) = <<m>> /\ Head(<<l, m>>) = l /\ Tail(<<m>>) = <<>> /\ Head(<<m>>) = m
      /\ <<m>> # <<>>
  BY RowNames, Queues DEF DecideTx
<1>t. PgTyped /\ tx[c].op = "decide" /\ Exists(r) /\ interrupts[tx[c].int].run = r
      /\ tx[c].target \in Decisions
  BY <1>0, NobodyIsNoId DEF DecideTx, PgInv, RowsInv
<1>1. CASE tx[c].todo = <<l, m>>
  <2> DEFINE u == [Remember(c, l) EXCEPT !.todo = Tail(@)]
  <2>1. Holding(c) = {} /\ GrantedTo(c, l) /\ Head(tx[c].todo) = l
    BY <1>0, <1>1 DEF DecideTx
  <2>2. /\ u.op = tx[c].op /\ u.run = r /\ u.todo = <<m>> /\ u.int = tx[c].int
        /\ u.target = tx[c].target
    BY <1>0, <1>1, <1>t, OtherRemembered
  <2>3. /\ Grantable(c, l) /\ lock' = [lock EXCEPT ![l] = c] /\ tx' = [tx EXCEPT ![c] = u]
        /\ UNCHANGED <<storeVars, copy, invoked>>
    BY <2>1 DEF GrantedTo
  <2> HIDE DEF u
  <2>5. ASSUME tx'[c] = u, Holding(c)' = Holding(c) \cup {l} PROVE TxInv(c)'
    <3>1. Holding(c)' = {l}
      BY <2>1, <2>5
    <3>3. DecideTx(c)'
      BY <1>0, <1>t, <2>2, <2>3, <2>5, <3>1 DEF DecideTx, storeVars
    <3> QED
      BY <3>3 DEF TxInv
  <2> QED
    BY <1>0, <1>1, <1>t, <2>1, <2>3, <2>5, OtherGranted DEF u
<1>2. CASE tx[c].todo = <<m>>
  <2> DEFINE u == [Remember(c, m) EXCEPT !.todo = Tail(@)]
  <2>1. Holding(c) = {l} /\ GrantedTo(c, m) /\ Head(tx[c].todo) = m
    BY <1>0, <1>2 DEF DecideTx
  <2>2. /\ u.op = tx[c].op /\ u.run = r /\ u.todo = <<>> /\ u.int = tx[c].int
        /\ u.target = tx[c].target /\ u.row = runs[r] /\ u.seq = events[r] + 1
    BY <1>0, <1>2, <1>t, RunRemembered
  <2>3. /\ Grantable(c, m) /\ lock' = [lock EXCEPT ![m] = c] /\ tx' = [tx EXCEPT ![c] = u]
        /\ UNCHANGED <<storeVars, copy, invoked>> /\ Passes(c, m)
    BY <2>1 DEF GrantedTo
  <2> HIDE DEF u
  <2>5. ASSUME RunPasses(c, r), tx'[c] = u, Holding(c)' = Holding(c) \cup {m} PROVE TxInv(c)'
    <3>1. Holding(c)' = {l, m}
      BY <2>1, <2>5
    <3>2. ReadsHold(c)' /\ CanTransition(u.row.status, "QUEUED")
      BY <1>t, <2>2, <2>3, <2>5 DEF ReadsHold, RunPasses, storeVars
    <3>3. DecideTx(c)'
      BY <1>0, <1>t, <2>2, <2>3, <2>5, <3>1, <3>2 DEF DecideTx, storeVars
    <3> QED
      BY <3>3 DEF TxInv
  <2> QED
    BY <1>0, <1>2, <1>t, <2>1, <2>3, <2>5, RunGranted DEF u
<1> QED
  BY <1>1, <1>2 DEF DecideTx

LEMMA RunOnlyGrant ==
    ASSUME PgInv, NEW c \in Conn, TransitionTx(c) \/ AppendTx(c), tx[c].todo # <<>>,
           GrantedTo(c, Head(tx[c].todo))
    PROVE  PgInv'
<1> DEFINE r == tx[c].run
           m == TheRun(r)
           u == [Remember(c, m) EXCEPT !.todo = Tail(@)]
<1>0. /\ r \in Run /\ m \in Lockable /\ m[1] = "run" /\ Tail(<<m>>) = <<>> /\ Head(<<m>>) = m
  BY RunNames, Queues DEF TransitionTx, AppendTx
<1>t. PgTyped /\ tx[c].op \in {"transition", "event", "prepare"} /\ Exists(r)
  BY DEF TransitionTx, AppendTx, PgInv
<1>1. tx[c].todo = <<m>> /\ Holding(c) = {} /\ GrantedTo(c, m) /\ Head(tx[c].todo) = m
  BY <1>0 DEF TransitionTx, AppendTx
<1>2. /\ u.op = tx[c].op /\ u.run = r /\ u.todo = <<>> /\ u.target = tx[c].target
      /\ tx[c].op = "transition" => u.row = tx[c].row
      /\ tx[c].op = "prepare" => u.seq = invoked[r] + 1
      /\ tx[c].op # "prepare" => u.seq = events[r] + 1
  <2>1. /\ u.op = tx[c].op /\ u.run = r /\ u.todo = Tail(tx[c].todo) /\ u.target = tx[c].target
        /\ tx[c].op \in {"transition", "prepare"} => u.row = tx[c].row
        /\ tx[c].op = "prepare" => u.seq = invoked[r] + 1
        /\ tx[c].op # "prepare" => u.seq = events[r] + 1
    BY ZenonT(60), <1>0, <1>t, RunRemembered
  <2> QED
    BY <1>0, <1>1, <2>1
<1>3. /\ Grantable(c, m) /\ lock' = [lock EXCEPT ![m] = c] /\ tx' = [tx EXCEPT ![c] = u]
      /\ UNCHANGED <<storeVars, copy, invoked>> /\ Passes(c, m)
  BY <1>1 DEF GrantedTo
<1> HIDE DEF u
<1>4. ASSUME RunPasses(c, r), tx'[c] = u, Holding(c)' = Holding(c) \cup {m} PROVE TxInv(c)'
  <2>1. Holding(c)' = {m} /\ UNCHANGED <<runs, events, invoked>> /\ Exists(r)'
    BY <1>1, <1>2, <1>3, <1>4, <1>t DEF storeVars, Exists
  <2>2. CASE TransitionTx(c)
    <3>1. tx[c].row = runs[r]
      BY <1>4, <1>1, <2>2 DEF RunPasses, TransitionTx
    <3>2. ReadsHold(c)'
      BY <1>2, <1>4, <2>1, <2>2, <3>1 DEF ReadsHold, TransitionTx
    <3>3. TransitionTx(c)'
      BY <1>2, <1>4, <2>1, <2>2, <3>2 DEF TransitionTx
    <3> QED
      BY <3>3 DEF TxInv
  <2>3. CASE AppendTx(c)
    <3>1. AppendTx(c)'
      BY <1>2, <1>4, <2>1, <2>3 DEF AppendTx
    <3> QED
      BY <3>1 DEF TxInv
  <2> QED
    BY <2>2, <2>3
<1> QED
  BY <1>0, <1>1, <1>t, <1>3, <1>4, RunGranted DEF u

LEMMA RenewGrant ==
    ASSUME PgInv, NEW c \in Conn, RenewTx(c), tx[c].todo # <<>>, GrantedTo(c, Head(tx[c].todo))
    PROVE  PgInv'
<1> DEFINE r == tx[c].run
           l == TheLease(r)
           u == [Remember(c, l) EXCEPT !.todo = Tail(@)]
<1>0. /\ r \in Run /\ l \in Lockable /\ l[1] = "lease" /\ Tail(<<l>>) = <<>> /\ Head(<<l>>) = l
      /\ PgTyped /\ tx[c].op = "renew"
  BY RunNames, Queues DEF RenewTx, PgInv
<1>1. tx[c].todo = <<l>> /\ Holding(c) = {} /\ GrantedTo(c, l)
  BY <1>0 DEF RenewTx
<1>2. u.op = "renew" /\ u.run = r /\ u.todo = <<>>
  BY <1>0, <1>1, OtherRemembered
<1>3. /\ Grantable(c, l) /\ lock' = [lock EXCEPT ![l] = c] /\ tx' = [tx EXCEPT ![c] = u]
      /\ UNCHANGED <<storeVars, copy, invoked>>
  BY <1>1 DEF GrantedTo
<1> HIDE DEF u
<1>4. ASSUME tx'[c] = u, Holding(c)' = Holding(c) \cup {l} PROVE TxInv(c)'
  <2>1. Holding(c)' = {l}
    BY <1>1, <1>4
  <2>2. RenewTx(c)'
    BY <1>0, <1>2, <1>4, <2>1 DEF RenewTx
  <2> QED
    BY <2>2 DEF TxInv
<1> QED
  BY <1>0, <1>1, <1>3, <1>4, OtherGranted DEF u

LEMMA AcquireInv ==
    ASSUME PgInv, NEW c \in Conn, Acquire(c)
    PROVE  PgInv'
<1>1. CASE Passes(c, Head(tx[c].todo))
  <2>1. tx[c].todo # <<>> /\ GrantedTo(c, Head(tx[c].todo))
    BY <1>1 DEF Acquire, GrantedTo
  <2>2. \/ ClaimTx(c) \/ LeaseFirstTx(c) \/ InterruptTx(c) \/ DecideTx(c)
        \/ TransitionTx(c) \/ AppendTx(c) \/ RenewTx(c)
    BY <2>1, NoTxFields DEF PgInv, TxInv, CreateTx, SweepTx
  <2> QED
    BY <2>1, <2>2, ClaimGrant, LeaseFirstGrant, InterruptGrant, DecideGrant, RunOnlyGrant,
       RenewGrant
<1>2. CASE ~Passes(c, Head(tx[c].todo))
  BY <1>2, RollbackInv DEF Acquire
<1> QED
  BY <1>1, <1>2

-----------------------------------------------------------------------------
(* Transactions commit *)

\* A transaction of c writes only rows that it has locked, and leaves the tables
\* as RowsInv wants them.
WritesUnderLocks(c) ==
    /\ \A r \in Run : TheRun(r) \notin Holding(c) =>
           /\ runs'[r] = runs[r] /\ events'[r] = events[r]
           /\ invoked'[r] = invoked[r] /\ checkpoints'[r] = checkpoints[r]
    /\ \A r \in Run : TheLease(r) \notin Holding(c) =>
           /\ leases'[r].active = leases[r].active /\ leases'[r].holder = leases[r].holder
           /\ leases'[r].token = leases[r].token
    /\ \A r \in Run : \/ runs'[r] = runs[r]
                      \/ ~Exists(r) /\ runs'[r].version = runs[r].version /\ Exists(r)'
                      \/ runs'[r].version = runs[r].version + 1 /\ Exists(r)'
    /\ \A i \in Interrupt : interrupts[i].run # Nobody => interrupts'[i].run = interrupts[i].run
    /\ \A w \in Worker : copy'[w] = copy[w] \/ (<<"main", w>> = c /\ CopyInv(w)')
    /\ \A r \in Run : LeaseMoves(r)
    /\ \A r \in Run : leases'[r].active => Exists(r)'
    /\ \A i \in Interrupt : interrupts'[i].run # Nobody =>
           runs'[interrupts'[i].run].status # "ABSENT"
    /\ \A r \in Run : runs'[r].status = "WAITING" => ~leases'[r].active

LEMMA CommitStepInv ==
    ASSUME PgInv, NEW c \in Conn, End(c), StoreTypeOK', copy' \in [Worker -> ClaimRow],
           invoked' \in [Run -> Nat], WritesUnderLocks(c)
    PROVE  PgInv'
<1> USE DEF WritesUnderLocks
<1>0. PgTyped /\ RowsInv
  BY DEF PgInv
<1>1. tx' = [tx EXCEPT ![c] = NoTx] /\ lock' = [l \in Lockable |-> IF lock[l] = c THEN Nobody ELSE lock[l]]
  BY DEF End, Unlocked
<1>2. PgTyped'
  BY <1>0, <1>1, NoTxFields DEF PgTyped
<1>3. Frame({c})
  <2>1. \A d \in Conn \ {c} : tx'[d] = tx[d]
    BY <1>0, <1>1 DEF PgTyped
  <2>2. \A d \in Conn \ {c} : \A l \in Lockable : lock'[l] = d <=> lock[l] = d
    BY <1>1, NobodyIsNoConnection
  <2>3. \A r \in Run : /\ lock[TheRun(r)] \notin {c} => TheRun(r) \notin Holding(c)
                       /\ lock[TheLease(r)] \notin {c} => TheLease(r) \notin Holding(c)
    BY RunNames DEF Holding
  <2>4. \A w \in Worker : <<"main", w>> \notin {c} => copy'[w] = copy[w]
    OBVIOUS
  <2> QED
    BY <2>1, <2>2, <2>3, <2>4 DEF Frame
<1>4. tx'[c] = NoTx /\ Holding(c)' = {}
  BY <1>0, <1>1, NobodyIsNoConnection DEF PgTyped, Holding
<1>5. ASSUME NEW r \in Run, lock'[TheRun(r)] # Nobody, ~Exists(r)'
      PROVE  tx'[lock'[TheRun(r)]].op = "create"
  <2>1. TheRun(r) \in Lockable
    BY RunNames
  <2>2. lock'[TheRun(r)] = lock[TheRun(r)] /\ lock[TheRun(r)] \in Conn \ {c}
    BY <1>0, <1>1, <1>5, <2>1 DEF PgTyped
  <2>3. ~Exists(r)
    BY <1>5 DEF Exists
  <2>4. tx[lock[TheRun(r)]].op = "create"
    BY <1>0, <1>5, <2>2, <2>3 DEF RowsInv
  <2> QED
    BY <1>0, <1>1, <2>2, <2>4 DEF PgTyped
<1>6. RowsInv'
  BY <1>5 DEF RowsInv, Exists
<1>7. \A d \in Conn : d \in {c} => TxInv(d)'
  BY <1>4 DEF TxInv
<1>8. \A w \in Worker : <<"main", w>> \in {c} => copy'[w] = copy[w] \/ CopyInv(w)'
  OBVIOUS
<1> QED
  BY <1>2, <1>3, <1>6, <1>7, <1>8, FrameStep

\* What every step does to a run: events and invocations are numbered without
\* gaps, a change of the row writes an event and raises the version, and the
\* status moves as the life cycle allows.
Orderly(r) ==
    /\ events'[r] \in {events[r], events[r] + 1}
    /\ invoked'[r] \in {invoked[r], invoked[r] + 1}
    /\ runs'[r] # runs[r] => events'[r] = events[r] + 1
    /\ Exists(r) /\ runs'[r] # runs[r] => runs'[r].version = runs[r].version + 1
    /\ RowMoves(r)

LEMMA QuietIsOrderly ==
    ASSUME UNCHANGED <<storeVars, invoked>>, NEW r \in Run
    PROVE  Orderly(r)
  BY DEF Orderly, RowMoves, LegalMove, storeVars

\* A commit that writes the row of one run.
WritesOneRun(c, r, row, x, k) ==
    /\ End(c) /\ TheRun(r) \in Holding(c)
    /\ row \in RunRow /\ runs' = [runs EXCEPT ![r] = row]
    /\ x \in LeaseRow /\ leases' = [leases EXCEPT ![r] = x]
    /\ k \in CheckpointRow /\ checkpoints' = [checkpoints EXCEPT ![r] = k]
    /\ interrupts' \in [Interrupt -> InterruptRow]
    /\ \A i \in Interrupt : interrupts[i].run # Nobody => interrupts'[i].run = interrupts[i].run
    /\ \A i \in Interrupt : interrupts'[i].run \in {interrupts[i].run, r}
    /\ events' = [events EXCEPT ![r] = events[r] + 1] /\ invoked' = invoked
    /\ row.status # "ABSENT"
    /\ row.version = runs[r].version + 1 \/ (~Exists(r) /\ row.version = runs[r].version)
    /\ x = leases[r] \/ TheLease(r) \in Holding(c)
    /\ LeaseMoves(r) /\ RowMoves(r) /\ (row.status = "WAITING" => ~x.active)
    /\ copy' \in [Worker -> ClaimRow]
    /\ \A w \in Worker : copy'[w] = copy[w] \/ (<<"main", w>> = c /\ CopyInv(w)')

LEMMA OneRunCommit ==
    ASSUME PgInv, NEW c \in Conn, NEW r \in Run, NEW row, NEW x, NEW k, WritesOneRun(c, r, row, x, k)
    PROVE  PgInv' /\ \A q \in Run : Orderly(q)
<1> USE DEF WritesOneRun
<1>0. PgTyped /\ StoreTypeOK /\ RowsInv
  BY DEF PgInv, PgTyped
<1>1. StoreTypeOK' /\ invoked' \in [Run -> Nat]
  BY <1>0 DEF StoreTypeOK, PgTyped
<1>2. /\ runs'[r] = row /\ leases'[r] = x /\ checkpoints'[r] = k /\ events'[r] = events[r] + 1
      /\ \A q \in Run : q # r => /\ runs'[q] = runs[q] /\ leases'[q] = leases[q]
                                 /\ checkpoints'[q] = checkpoints[q] /\ events'[q] = events[q]
  BY <1>0 DEF StoreTypeOK
<1>3. \A q \in Run : TheRun(q) \notin Holding(c) =>
          /\ runs'[q] = runs[q] /\ events'[q] = events[q]
          /\ invoked'[q] = invoked[q] /\ checkpoints'[q] = checkpoints[q]
  BY <1>2
<1>4. \A q \in Run : TheLease(q) \notin Holding(c) =>
          /\ leases'[q].active = leases[q].active /\ leases'[q].holder = leases[q].holder
          /\ leases'[q].token = leases[q].token
  BY <1>2
<1>5. \A q \in Run : \/ runs'[q] = runs[q]
                     \/ ~Exists(q) /\ runs'[q].version = runs[q].version /\ Exists(q)'
                     \/ runs'[q].version = runs[q].version + 1 /\ Exists(q)'
  BY <1>2 DEF Exists
<1>6. \A q \in Run : LeaseMoves(q)
  BY <1>2 DEF LeaseMoves
<1>7. /\ \A q \in Run : leases'[q].active => Exists(q)'
      /\ \A i \in Interrupt : interrupts'[i].run # Nobody => runs'[interrupts'[i].run].status # "ABSENT"
      /\ \A q \in Run : runs'[q].status = "WAITING" => ~leases'[q].active
  <2>1. \A i \in Interrupt : interrupts[i].run \in Run \cup {Nobody}
    BY <1>0 DEF StoreTypeOK, InterruptRow
  <2> QED
    BY <1>0, <1>2, <2>1 DEF RowsInv, Exists
<1>8. PgInv'
  <2>1. WritesUnderLocks(c)
    BY <1>3, <1>4, <1>5, <1>6, <1>7 DEF WritesUnderLocks
  <2> QED
    BY <1>1, <2>1, CommitStepInv
<1>9. ASSUME NEW q \in Run PROVE Orderly(q)
  <2>1. CASE q = r
    BY <1>2, <2>1 DEF Orderly
  <2>2. CASE q # r
    BY <1>2, <2>2 DEF Orderly, RowMoves, LegalMove
  <2> QED
    BY <2>1, <2>2
<1> QED
  BY <1>8, <1>9

\* The kind of a transaction tells what it holds and knows.
LEMMA TxKinds ==
    ASSUME NEW c \in Conn, TxInv(c)
    PROVE  /\ tx[c].op = "create" => CreateTx(c)
           /\ tx[c].op = "claim" => ClaimTx(c)
           /\ tx[c].op \in {"checkpoint", "finish"} => LeaseFirstTx(c)
           /\ tx[c].op = "interrupt" => InterruptTx(c)
           /\ tx[c].op = "decide" => DecideTx(c)
           /\ tx[c].op = "transition" => TransitionTx(c)
           /\ tx[c].op \in {"event", "prepare"} => AppendTx(c)
           /\ tx[c].op = "renew" => RenewTx(c)
           /\ tx[c].op \in {"requeue", "expire"} => SweepTx(c)
  BY NoTxFields DEF TxInv, CreateTx, ClaimTx, LeaseFirstTx, InterruptTx, DecideTx, TransitionTx,
                    AppendTx, RenewTx, SweepTx

\* Locks still to be taken are not held yet, so a queue of one or two is not empty.
LEMMA NoQueue ==
    ASSUME NEW a, NEW b
    PROVE  <<a>> # <<>> /\ <<a, b>> # <<>>
  OBVIOUS

LEMMA CommitCreateInv ==
    ASSUME PgInv, NEW c \in Conn, CommitCreate(c)
    PROVE  PgInv' /\ \A q \in Run : Orderly(q)
<1> DEFINE r == tx[c].run
           row == Inserted(runs[r])
<1>0. PgTyped /\ StoreTypeOK /\ End(c)
  BY DEF PgInv, PgTyped, CommitCreate
<1>1. r \in Run /\ ~Exists(r) /\ TheRun(r) \in Holding(c) /\ tx[c].seq = events[r] + 1
  BY TxKinds DEF PgInv, CommitCreate, Commits, CreateTx
<1>2. runs' = [runs EXCEPT ![r] = row] /\ events' = [events EXCEPT ![r] = events[r] + 1]
      /\ UNCHANGED <<leases, checkpoints, interrupts, copy, invoked>>
  BY <1>1 DEF CommitCreate, WithRow, WithEvent
<1>3. /\ row \in RunRow /\ row.status = "QUEUED" /\ row.version = runs[r].version
  BY <1>0, <1>1, InsertedRow DEF StoreTypeOK
<1>4. /\ leases' = [leases EXCEPT ![r] = leases[r]] /\ leases[r] \in LeaseRow
      /\ checkpoints' = [checkpoints EXCEPT ![r] = checkpoints[r]] /\ checkpoints[r] \in CheckpointRow
      /\ interrupts' \in [Interrupt -> InterruptRow] /\ copy' \in [Worker -> ClaimRow]
  BY <1>0, <1>1, <1>2 DEF StoreTypeOK, PgTyped
<1> HIDE DEF row
<1>5. runs'[r] = row
  BY <1>0, <1>1, <1>2 DEF StoreTypeOK
<1>6. LeaseMoves(r) /\ RowMoves(r)
  BY <1>1, <1>2, <1>3, <1>5 DEF LeaseMoves, RowMoves, LegalMove, Exists, Lifecycle!Submitted
<1>z. WritesOneRun(c, r, row, leases[r], checkpoints[r])
  BY <1>0, <1>1, <1>2, <1>3, <1>4, <1>6 DEF WritesOneRun
<1> QED
  BY <1>1, <1>z, OneRunCommit

LEMMA CommitTransitionInv ==
    ASSUME PgInv, NEW c \in Conn, CommitTransition(c)
    PROVE  PgInv' /\ \A q \in Run : Orderly(q)
<1> DEFINE r == tx[c].run
           target == tx[c].target
           row == Moved(runs[r], target)
<1>0. PgTyped /\ StoreTypeOK /\ End(c)
  BY DEF PgInv, PgTyped, CommitTransition
<1>1. /\ r \in Run /\ TheRun(r) \in Holding(c) /\ tx[c].seq = events[r] + 1 /\ tx[c].row = runs[r]
      /\ ControlMove(runs[r].status, target)
  BY TxKinds, NoQueue DEF PgInv, CommitTransition, Commits, TransitionTx, ReadsHold
<1>2. runs' = [runs EXCEPT ![r] = row] /\ events' = [events EXCEPT ![r] = events[r] + 1]
      /\ UNCHANGED <<leases, checkpoints, interrupts, copy, invoked>>
  BY <1>1 DEF CommitTransition, WithRow, WithEvent
<1>t. target \in Status /\ target \notin {"ABSENT", "WAITING"}
  BY <1>1 DEF ControlMove, Status, Active, Terminal
<1>3. /\ row \in RunRow /\ row.status = target /\ row.version = runs[r].version + 1
  BY <1>0, <1>1, <1>t, MovedRow DEF StoreTypeOK
<1>4. /\ leases' = [leases EXCEPT ![r] = leases[r]] /\ leases[r] \in LeaseRow
      /\ checkpoints' = [checkpoints EXCEPT ![r] = checkpoints[r]] /\ checkpoints[r] \in CheckpointRow
      /\ interrupts' \in [Interrupt -> InterruptRow] /\ copy' \in [Worker -> ClaimRow]
  BY <1>0, <1>1, <1>2 DEF StoreTypeOK, PgTyped
<1> HIDE DEF row
<1>5. runs'[r] = row
  BY <1>0, <1>1, <1>2 DEF StoreTypeOK
<1>6. LeaseMoves(r)
  BY <1>2 DEF LeaseMoves
<1>7. RowMoves(r)
  BY <1>1, <1>2, <1>3, <1>5 DEF RowMoves, LegalMove, ControlMove, CanTransition,
         Lifecycle!Released, Lifecycle!Stopped, Lifecycle!Ended, Lifecycle!Live
<1>z. WritesOneRun(c, r, row, leases[r], checkpoints[r])
  BY <1>0, <1>1, <1>2, <1>3, <1>t, <1>4, <1>6, <1>7 DEF WritesOneRun
<1> QED
  BY <1>1, <1>z, OneRunCommit

LEMMA CommitDecideInv ==
    ASSUME PgInv, NEW c \in Conn, CommitDecide(c)
    PROVE  PgInv' /\ \A q \in Run : Orderly(q)
<1> DEFINE r == tx[c].run
           i == tx[c].int
           row == Moved(runs[r], "QUEUED")
           asked == Decided(interrupts[i], tx[c].target)
<1>0. PgTyped /\ StoreTypeOK /\ End(c)
  BY DEF PgInv, PgTyped, CommitDecide
<1>1. /\ r \in Run /\ TheRun(r) \in Holding(c) /\ tx[c].seq = events[r] + 1 /\ tx[c].row = runs[r]
      /\ CanTransition(runs[r].status, "QUEUED") /\ i \in Interrupt /\ tx[c].target \in Decisions
  BY TxKinds, NoQueue DEF PgInv, CommitDecide, Commits, DecideTx, ReadsHold
<1>2. runs' = [runs EXCEPT ![r] = row] /\ events' = [events EXCEPT ![r] = events[r] + 1]
      /\ interrupts' = [interrupts EXCEPT ![i] = asked]
      /\ UNCHANGED <<leases, checkpoints, copy, invoked>>
  BY <1>1 DEF CommitDecide, WithRow, WithEvent
<1>3. /\ row \in RunRow /\ row.status = "QUEUED" /\ row.version = runs[r].version + 1
  BY <1>0, <1>1, MovedRow DEF StoreTypeOK, Status, Active
<1>a. asked \in InterruptRow /\ asked.run = interrupts[i].run
  BY <1>0, <1>1, DecidedRow DEF StoreTypeOK
<1> HIDE DEF row, asked
<1>4. /\ leases' = [leases EXCEPT ![r] = leases[r]] /\ leases[r] \in LeaseRow
      /\ checkpoints' = [checkpoints EXCEPT ![r] = checkpoints[r]] /\ checkpoints[r] \in CheckpointRow
      /\ interrupts' \in [Interrupt -> InterruptRow] /\ copy' \in [Worker -> ClaimRow]
  BY <1>0, <1>1, <1>2, <1>a DEF StoreTypeOK, PgTyped
<1>5. runs'[r] = row /\ \A j \in Interrupt : interrupts'[j].run = interrupts[j].run
  BY <1>0, <1>1, <1>2, <1>a DEF StoreTypeOK
<1>6. LeaseMoves(r)
  BY <1>2 DEF LeaseMoves
<1>7. RowMoves(r)
  BY <1>1, <1>2, <1>3, <1>5 DEF RowMoves, LegalMove, CanTransition, Lifecycle!Released,
         Lifecycle!Live
<1>8. /\ \A j \in Interrupt : interrupts[j].run # Nobody => interrupts'[j].run = interrupts[j].run
      /\ \A j \in Interrupt : interrupts'[j].run \in {interrupts[j].run, r}
      /\ \A w \in Worker : copy'[w] = copy[w]
      /\ row.status # "ABSENT" /\ row.status # "WAITING"
  BY <1>2, <1>3, <1>5
<1>z. WritesOneRun(c, r, row, leases[r], checkpoints[r])
  BY <1>0, <1>1, <1>2, <1>3, <1>4, <1>6, <1>7, <1>8 DEF WritesOneRun
<1> QED
  BY <1>1, <1>z, OneRunCommit

LEMMA CommitClaimInv ==
    ASSUME PgInv, NEW c \in Conn, CommitClaim(c)
    PROVE  PgInv' /\ \A q \in Run : Orderly(q)
<1> DEFINE r == tx[c].run
           w == c[2]
           row == Moved(runs[r], "RUNNING")
           x == [active |-> TRUE, holder |-> w, token |-> tx[c].token, ttl |-> LeaseTicks]
           k == [run |-> r, token |-> tx[c].token, version |-> runs[r].version + 1,
                 sequence |-> checkpoints[r].sequence, failing |-> FALSE]
<1>0. PgTyped /\ StoreTypeOK /\ End(c)
  BY DEF PgInv, PgTyped, CommitClaim
<1>1. /\ r \in Run /\ TheRun(r) \in Holding(c) /\ TheLease(r) \in Holding(c)
      /\ tx[c].seq = events[r] + 1 /\ tx[c].row = runs[r] /\ runs[r].status = "QUEUED"
      /\ tx[c].token = leases[r].token + 1 /\ c[1] = "main"
  BY TxKinds, NoQueue DEF PgInv, CommitClaim, Commits, ClaimTx, ReadsHold
<1>w. w \in Worker /\ c = <<"main", w>>
  BY <1>1, MainConnections
<1>2. /\ runs' = [runs EXCEPT ![r] = row] /\ events' = [events EXCEPT ![r] = events[r] + 1]
      /\ leases' = [leases EXCEPT ![r] = x] /\ copy' = [copy EXCEPT ![w] = k]
      /\ UNCHANGED <<checkpoints, interrupts, invoked>>
  BY <1>1 DEF CommitClaim, WithRow, WithEvent
<1>3. row \in RunRow /\ row.status = "RUNNING" /\ row.version = runs[r].version + 1
  BY <1>0, <1>1, MovedRow DEF StoreTypeOK, Status, Active
<1>n. leases[r].token \in Nat /\ runs[r].version \in Nat /\ checkpoints[r].sequence \in Nat
  BY <1>0, <1>1 DEF StoreTypeOK, RunRow, LeaseRow, CheckpointRow
<1>4. x \in LeaseRow /\ x.active /\ x.holder = w /\ x.token = leases[r].token + 1
  BY <1>1, <1>w, <1>n, TicksPositive DEF LeaseRow
<1>5. k \in ClaimRow /\ k.run = r /\ k.token = leases[r].token + 1 /\ k.version = runs[r].version + 1
  BY <1>1, <1>n DEF ClaimRow
<1> HIDE DEF row, x, k
<1>6. /\ checkpoints' = [checkpoints EXCEPT ![r] = checkpoints[r]] /\ checkpoints[r] \in CheckpointRow
      /\ interrupts' \in [Interrupt -> InterruptRow] /\ copy' \in [Worker -> ClaimRow]
  BY <1>0, <1>1, <1>2, <1>5 DEF StoreTypeOK, PgTyped
<1>7. runs'[r] = row /\ leases'[r] = x /\ copy'[w] = k
      /\ \A v \in Worker : v # w => copy'[v] = copy[v]
  BY <1>0, <1>1, <1>w, <1>2 DEF StoreTypeOK, PgTyped
<1>8. LeaseMoves(r)
  BY <1>3, <1>4, <1>7 DEF LeaseMoves
<1>9. RowMoves(r)
  BY <1>1, <1>3, <1>4, <1>7 DEF RowMoves
<1>10. CopyInv(w)'
  <2>1. /\ runs'[r].status # "ABSENT" /\ k.token > 0 /\ k.token = leases'[r].token
        /\ k.version = runs'[r].version /\ leases'[r].holder = w
    BY <1>3, <1>4, <1>5, <1>7, <1>n
  <2>2. leases'[r].token \in Nat /\ runs'[r].version \in Nat
    BY <1>3, <1>4, <1>7, <1>n
  <2> QED
    BY <1>5, <1>7, <2>1, <2>2 DEF CopyInv, Exists
<1>11. /\ \A j \in Interrupt : interrupts[j].run # Nobody => interrupts'[j].run = interrupts[j].run
       /\ \A j \in Interrupt : interrupts'[j].run \in {interrupts[j].run, r}
       /\ \A v \in Worker : copy'[v] = copy[v] \/ (<<"main", v>> = c /\ CopyInv(v)')
       /\ row.status # "ABSENT" /\ row.status # "WAITING"
  BY <1>w, <1>2, <1>3, <1>7, <1>10
<1>z. WritesOneRun(c, r, row, x, checkpoints[r])
  BY <1>0, <1>1, <1>2, <1>3, <1>4, <1>6, <1>8, <1>9, <1>11 DEF WritesOneRun
<1> QED
  BY <1>1, <1>z, OneRunCommit

LEMMA CommitStepKeepsInv ==
    ASSUME PgInv, NEW c \in Conn, CommitStep(c)
    PROVE  PgInv' /\ \A q \in Run : Orderly(q)
<1> DEFINE r == tx[c].run
           w == c[2]
           s == copy[w].sequence + 1
           row == Advanced(runs[r], tx[c].target, Done)
           z == [sequence |-> s, state |-> tx[c].target, next |-> Done]
<1>0. PgTyped /\ StoreTypeOK /\ End(c)
  BY DEF PgInv, PgTyped, CommitStep
<1>1. /\ r \in Run /\ TheRun(r) \in Holding(c) /\ TheLease(r) \in Holding(c)
      /\ tx[c].seq = events[r] + 1 /\ tx[c].row = runs[r] /\ runs[r].status = "RUNNING"
      /\ tx[c].target \in State /\ c[1] = "main"
      /\ r = copy[w].run /\ tx[c].token = copy[w].token
      /\ leases[r].active /\ leases[r].holder = w /\ leases[r].token = tx[c].token
  <2>1. tx[c].op = "checkpoint" /\ tx[c].todo = <<>> /\ LeaseFirstTx(c)
    BY TxKinds DEF PgInv, CommitStep, Commits
  <2>2. OwnClaim(c) /\ LeaseSeen(c) /\ ReadsHold(c) /\ tx[c].target \in State
        /\ tx[c].row.status = "RUNNING" /\ Holding(c) = {TheLease(r), TheRun(r)}
    BY <2>1, NoQueue DEF LeaseFirstTx
  <2> QED
    BY <2>2 DEF ReadsHold, OwnClaim, LeaseSeen
<1>w. w \in Worker /\ c = <<"main", w>>
  BY <1>1, MainConnections
<1>k. copy[w] \in ClaimRow /\ CopyInv(w) /\ s \in Nat
  BY <1>0, <1>w DEF PgInv, PgTyped, ClaimRow
<1>2. /\ runs' = [runs EXCEPT ![r] = row] /\ events' = [events EXCEPT ![r] = events[r] + 1]
      /\ checkpoints' = [checkpoints EXCEPT ![r] = z]
      /\ copy' = [copy EXCEPT ![w].version = runs[r].version + 1, ![w].sequence = s]
      /\ UNCHANGED <<leases, interrupts, invoked>>
  BY <1>1 DEF CommitStep, WithRow, WithEvent, WithCheckpoint
<1>3. row \in RunRow /\ row.status = "RUNNING" /\ row.version = runs[r].version + 1
  BY <1>0, <1>1, AdvancedRow DEF StoreTypeOK
<1>n. leases[r].token \in Nat /\ runs[r].version \in Nat /\ runs[r].version + 1 \in Nat
  BY <1>0, <1>1 DEF StoreTypeOK, RunRow, LeaseRow
<1>4. z \in CheckpointRow
  BY <1>1, <1>k DEF CheckpointRow
<1> HIDE DEF row, z, s
<1>5. copy'[w] = [copy[w] EXCEPT !.version = runs[r].version + 1, !.sequence = s]
  BY <1>0, <1>w, <1>2 DEF PgTyped
<1>6. /\ copy'[w] \in ClaimRow /\ copy'[w].run = r /\ copy'[w].token = leases[r].token
      /\ copy'[w].version = runs[r].version + 1
  BY ZenonT(60), <1>1, <1>k, <1>n, <1>5 DEF ClaimRow
<1>7. /\ leases' = [leases EXCEPT ![r] = leases[r]] /\ leases[r] \in LeaseRow
      /\ interrupts' \in [Interrupt -> InterruptRow] /\ copy' \in [Worker -> ClaimRow]
      /\ runs'[r] = row /\ \A v \in Worker : v # w => copy'[v] = copy[v]
  <2>1. \A v \in Worker : v # w => copy'[v] = copy[v]
    BY <1>0, <1>w, <1>2 DEF PgTyped
  <2>2. copy' \in [Worker -> ClaimRow]
    <3>1. copy' = [v \in Worker |-> copy'[v]]
      BY <1>0, <1>2 DEF PgTyped
    <3>2. \A v \in Worker : copy'[v] \in ClaimRow
      BY <1>0, <1>6, <2>1 DEF PgTyped
    <3> QED
      BY <3>1, <3>2
  <2> QED
    BY <1>0, <1>1, <1>2, <2>1, <2>2 DEF StoreTypeOK
<1>8. LeaseMoves(r) /\ RowMoves(r)
  BY <1>1, <1>2, <1>3, <1>7 DEF LeaseMoves, RowMoves, LegalMove
<1>9. CopyInv(w)'
  <2>1. copy[w].token > 0
    BY <1>1, <1>k, NobodyIsNoId DEF CopyInv
  <2>2. runs'[r].status # "ABSENT" /\ copy'[w].version = runs'[r].version
        /\ leases'[r] = leases[r]
    BY <1>2, <1>3, <1>6, <1>7
  <2>3. runs'[r].version \in Nat
    BY <1>3, <1>7, <1>n
  <2> QED
    BY <1>1, <1>6, <1>n, <2>1, <2>2, <2>3 DEF CopyInv, Exists
<1>10. /\ \A j \in Interrupt : interrupts[j].run # Nobody => interrupts'[j].run = interrupts[j].run
       /\ \A j \in Interrupt : interrupts'[j].run \in {interrupts[j].run, r}
       /\ \A v \in Worker : copy'[v] = copy[v] \/ (<<"main", v>> = c /\ CopyInv(v)')
       /\ row.status # "ABSENT" /\ row.status # "WAITING"
  BY <1>w, <1>2, <1>3, <1>7, <1>9
<1>z. WritesOneRun(c, r, row, leases[r], z)
  BY <1>0, <1>1, <1>2, <1>3, <1>4, <1>7, <1>8, <1>10 DEF WritesOneRun
<1> QED
  BY <1>1, <1>z, OneRunCommit

\* A worker that is done with its claim.
LEMMA ClaimDropped ==
    ASSUME PgTyped, NEW w \in Worker, copy' = [copy EXCEPT ![w] = NoClaim]
    PROVE  /\ copy' \in [Worker -> ClaimRow]
           /\ CopyInv(w)' /\ \A v \in Worker : v # w => copy'[v] = copy[v]
<1>1. NoClaim \in ClaimRow /\ NoClaim.run = Nobody
  BY DEF NoClaim, ClaimRow
<1>2. copy'[w] = NoClaim
  BY DEF PgTyped
<1> QED
  BY <1>1, <1>2 DEF CopyInv, PgTyped

LEMMA CommitFinishInv ==
    ASSUME PgInv, NEW c \in Conn, CommitFinish(c)
    PROVE  PgInv' /\ \A q \in Run : Orderly(q)
<1> DEFINE r == tx[c].run
           w == c[2]
           target == tx[c].target
           row == Moved(runs[r], target)
           x == Deactivated(leases[r])
<1>0. PgTyped /\ StoreTypeOK /\ End(c) /\ RowsInv
  BY DEF PgInv, PgTyped, CommitFinish
<1>1. /\ r \in Run /\ TheRun(r) \in Holding(c) /\ TheLease(r) \in Holding(c)
      /\ tx[c].seq = events[r] + 1 /\ tx[c].row = runs[r]
      /\ CanTransition(runs[r].status, target) /\ target \in {"SUCCEEDED", "FAILED"}
      /\ c[1] = "main" /\ leases[r].active
  <2>1. tx[c].op = "finish" /\ tx[c].todo = <<>> /\ LeaseFirstTx(c)
    BY TxKinds DEF PgInv, CommitFinish, Commits
  <2>2. OwnClaim(c) /\ LeaseSeen(c) /\ ReadsHold(c) /\ target \in {"SUCCEEDED", "FAILED"}
        /\ CanTransition(tx[c].row.status, target) /\ Holding(c) = {TheLease(r), TheRun(r)}
    BY <2>1, NoQueue DEF LeaseFirstTx
  <2> QED
    BY <2>2 DEF ReadsHold, OwnClaim, LeaseSeen
<1>w. w \in Worker /\ c = <<"main", w>>
  BY <1>1, MainConnections
<1>2. /\ runs' = [runs EXCEPT ![r] = row] /\ events' = [events EXCEPT ![r] = events[r] + 1]
      /\ leases' = [leases EXCEPT ![r] = x] /\ copy' = [copy EXCEPT ![w] = NoClaim]
      /\ UNCHANGED <<checkpoints, interrupts, invoked>>
  BY <1>1 DEF CommitFinish, WithRow, WithEvent, Released
<1>3. row \in RunRow /\ row.status = target /\ row.version = runs[r].version + 1
  BY <1>0, <1>1, MovedRow DEF StoreTypeOK, Status, Terminal
<1>4. x \in LeaseRow /\ x.holder = leases[r].holder /\ x.token = leases[r].token
  BY <1>0, <1>1, DeactivatedRow DEF StoreTypeOK
<1> HIDE DEF row, x
<1>6. /\ checkpoints' = [checkpoints EXCEPT ![r] = checkpoints[r]] /\ checkpoints[r] \in CheckpointRow
      /\ interrupts' \in [Interrupt -> InterruptRow]
  BY <1>0, <1>1, <1>2 DEF StoreTypeOK
<1>7. runs'[r] = row /\ leases'[r] = x
  BY <1>0, <1>1, <1>2 DEF StoreTypeOK
<1>8. LeaseMoves(r)
  BY <1>4, <1>7 DEF LeaseMoves
<1>9. RowMoves(r)
  <2>1. runs[r].status # "WAITING"
    BY <1>0, <1>1 DEF RowsInv
  <2>2. LegalMove(runs[r].status, target)
    BY <1>1, <2>1 DEF LegalMove, CanTransition, Lifecycle!Ended
  <2> QED
    BY <1>3, <1>4, <1>7, <2>2 DEF RowMoves
<1>10. copy' \in [Worker -> ClaimRow]
       /\ \A v \in Worker : copy'[v] = copy[v] \/ (<<"main", v>> = c /\ CopyInv(v)')
  BY <1>0, <1>w, <1>2, ClaimDropped
<1>11. /\ \A j \in Interrupt : interrupts[j].run # Nobody => interrupts'[j].run = interrupts[j].run
       /\ \A j \in Interrupt : interrupts'[j].run \in {interrupts[j].run, r}
       /\ row.status # "ABSENT" /\ row.status # "WAITING"
  BY <1>1, <1>2, <1>3
<1>z. WritesOneRun(c, r, row, x, checkpoints[r])
  BY <1>0, <1>1, <1>2, <1>3, <1>4, <1>6, <1>8, <1>9, <1>10, <1>11 DEF WritesOneRun
<1> QED
  BY <1>1, <1>z, OneRunCommit

LEMMA CommitInterruptInv ==
    ASSUME PgInv, NEW c \in Conn, CommitInterrupt(c)
    PROVE  PgInv' /\ \A q \in Run : Orderly(q)
<1> DEFINE r == tx[c].run
           i == tx[c].int
           w == c[2]
           row == Moved(runs[r], "WAITING")
           x == Deactivated(leases[r])
<1>0. PgTyped /\ StoreTypeOK /\ End(c)
  BY DEF PgInv, PgTyped, CommitInterrupt
<1>1. /\ r \in Run /\ TheRun(r) \in Holding(c) /\ TheLease(r) \in Holding(c) /\ i \in Interrupt
      /\ tx[c].seq = events[r] + 1 /\ tx[c].row = runs[r] /\ runs[r].status = "RUNNING"
      /\ c[1] = "main"
  <2>1. tx[c].todo = <<>> /\ InterruptTx(c)
    BY TxKinds DEF PgInv, CommitInterrupt, Commits
  <2>2. OwnClaim(c) /\ ReadsHold(c) /\ i \in Interrupt
        /\ tx[c].row.status = "RUNNING" /\ Holding(c) = {TheRun(r), TheLease(r)}
    BY <2>1, NoQueue DEF InterruptTx
  <2> QED
    BY <2>2 DEF ReadsHold, OwnClaim
<1>w. w \in Worker /\ c = <<"main", w>>
  BY <1>1, MainConnections
<1>2. /\ runs' = [runs EXCEPT ![r] = row] /\ events' = [events EXCEPT ![r] = events[r] + 1]
      /\ leases' = [leases EXCEPT ![r] = x] /\ copy' = [copy EXCEPT ![w] = NoClaim]
      /\ UNCHANGED <<checkpoints, invoked>> /\ interrupts[i].run = Nobody
  BY <1>1 DEF CommitInterrupt, WithRow, WithEvent, Released
<1>i. PICK ttl \in {NoDeadline} \cup 1..IntTicks :
        interrupts' = [interrupts EXCEPT ![i] =
                          [run |-> r, key |-> <<Done, 0>>, decision |-> "none", ttl |-> ttl]]
  BY DEF CommitInterrupt
<1> DEFINE y == [run |-> r, key |-> <<Done, 0>>, decision |-> "none", ttl |-> ttl]
<1>y. y \in InterruptRow /\ y.run = r
  <2>1. <<Done, 0>> \in (Node \cup {Done}) \X Nat /\ ttl \in Nat \cup {NoDeadline}
    BY TicksPositive
  <2> QED
    BY <1>1, <2>1 DEF InterruptRow
<1>3. row \in RunRow /\ row.status = "WAITING" /\ row.version = runs[r].version + 1
  BY <1>0, <1>1, MovedRow DEF StoreTypeOK, Status, Active
<1>4. x \in LeaseRow /\ x.holder = leases[r].holder /\ x.token = leases[r].token /\ x.active = FALSE
  BY <1>0, <1>1, DeactivatedRow DEF StoreTypeOK
<1> HIDE DEF row, x, y
<1>6. /\ checkpoints' = [checkpoints EXCEPT ![r] = checkpoints[r]] /\ checkpoints[r] \in CheckpointRow
  BY <1>0, <1>1, <1>2 DEF StoreTypeOK
<1>7. runs'[r] = row /\ leases'[r] = x
  BY <1>0, <1>1, <1>2 DEF StoreTypeOK
<1>8. LeaseMoves(r)
  BY <1>4, <1>7 DEF LeaseMoves
<1>9. RowMoves(r)
  <2>2. LegalMove(runs[r].status, "WAITING")
    BY <1>1 DEF LegalMove, Lifecycle!Stopped
  <2> QED
    BY <1>3, <1>4, <1>7, <2>2 DEF RowMoves
<1>10. copy' \in [Worker -> ClaimRow]
       /\ \A v \in Worker : copy'[v] = copy[v] \/ (<<"main", v>> = c /\ CopyInv(v)')
  BY <1>0, <1>w, <1>2, ClaimDropped
<1>11. interrupts' = [interrupts EXCEPT ![i] = y] /\ interrupts \in [Interrupt -> InterruptRow]
  BY <1>0, <1>i DEF y, StoreTypeOK
<1>12. /\ interrupts' \in [Interrupt -> InterruptRow]
       /\ \A j \in Interrupt : interrupts[j].run # Nobody => interrupts'[j].run = interrupts[j].run
       /\ \A j \in Interrupt : interrupts'[j].run \in {interrupts[j].run, r}
  BY <1>1, <1>2, <1>y, <1>11
<1>13. row.status # "ABSENT" /\ ~x.active
  BY <1>3, <1>4
<1>z. WritesOneRun(c, r, row, x, checkpoints[r])
  BY <1>0, <1>1, <1>2, <1>3, <1>4, <1>6, <1>8, <1>9, <1>10, <1>12, <1>13 DEF WritesOneRun
<1> QED
  BY <1>1, <1>z, OneRunCommit

\* A commit that leaves the rows of runs, leases and interrupts as they are.
LEMMA LogCommit ==
    ASSUME PgInv, NEW c \in Conn, End(c), UNCHANGED <<runs, leases, checkpoints, interrupts, copy>>,
           events' \in [Run -> Nat], invoked' \in [Run -> Nat],
           \A r \in Run : TheRun(r) \notin Holding(c) =>
               events'[r] = events[r] /\ invoked'[r] = invoked[r],
           \A r \in Run : /\ events'[r] \in {events[r], events[r] + 1}
                          /\ invoked'[r] \in {invoked[r], invoked[r] + 1}
    PROVE  PgInv' /\ \A q \in Run : Orderly(q)
<1>0. PgTyped /\ StoreTypeOK /\ RowsInv
  BY DEF PgInv, PgTyped
<1>1. StoreTypeOK' /\ copy' \in [Worker -> ClaimRow]
  BY <1>0 DEF StoreTypeOK, PgTyped
<1>2. WritesUnderLocks(c)
  BY <1>0 DEF WritesUnderLocks, LeaseMoves, RowsInv, Exists
<1>3. PgInv'
  BY <1>1, <1>2, CommitStepInv
<1>4. \A q \in Run : Orderly(q)
  BY DEF Orderly, RowMoves, LegalMove
<1> QED
  BY <1>3, <1>4

LEMMA CommitEventInv ==
    ASSUME PgInv, NEW c \in Conn, CommitEvent(c)
    PROVE  PgInv' /\ \A q \in Run : Orderly(q)
<1> DEFINE r == tx[c].run
<1>0. PgTyped /\ StoreTypeOK /\ End(c)
  BY DEF PgInv, PgTyped, CommitEvent
<1>1. r \in Run /\ TheRun(r) \in Holding(c) /\ tx[c].seq = events[r] + 1
  BY TxKinds, NoQueue DEF PgInv, CommitEvent, Commits, AppendTx
<1>2. events' = [events EXCEPT ![r] = events[r] + 1]
      /\ UNCHANGED <<runs, leases, checkpoints, interrupts, copy, invoked>>
  BY <1>1 DEF CommitEvent, WithEvent
<1>3. events \in [Run -> Nat] /\ invoked \in [Run -> Nat]
  BY <1>0 DEF StoreTypeOK, PgTyped
<1>4. /\ events' \in [Run -> Nat] /\ invoked' \in [Run -> Nat]
      /\ \A q \in Run : TheRun(q) \notin Holding(c) =>
            events'[q] = events[q] /\ invoked'[q] = invoked[q]
      /\ \A q \in Run : /\ events'[q] \in {events[q], events[q] + 1}
                        /\ invoked'[q] \in {invoked[q], invoked[q] + 1}
  BY <1>1, <1>2, <1>3
<1> QED
  BY <1>0, <1>2, <1>4, LogCommit

LEMMA CommitPrepareInv ==
    ASSUME PgInv, NEW c \in Conn, CommitPrepare(c)
    PROVE  PgInv' /\ \A q \in Run : Orderly(q)
<1> DEFINE r == tx[c].run
<1>0. PgTyped /\ StoreTypeOK /\ End(c)
  BY DEF PgInv, PgTyped, CommitPrepare
<1>1. r \in Run /\ TheRun(r) \in Holding(c) /\ tx[c].seq = invoked[r] + 1
  BY TxKinds, NoQueue DEF PgInv, CommitPrepare, Commits, AppendTx
<1>2. invoked' = [invoked EXCEPT ![r] = invoked[r] + 1]
      /\ UNCHANGED <<runs, leases, checkpoints, interrupts, copy, events>>
  BY <1>1 DEF CommitPrepare, storeVars
<1>3. events \in [Run -> Nat] /\ invoked \in [Run -> Nat]
  BY <1>0 DEF StoreTypeOK, PgTyped
<1>4. /\ events' \in [Run -> Nat] /\ invoked' \in [Run -> Nat]
      /\ \A q \in Run : TheRun(q) \notin Holding(c) =>
            events'[q] = events[q] /\ invoked'[q] = invoked[q]
      /\ \A q \in Run : /\ events'[q] \in {events[q], events[q] + 1}
                        /\ invoked'[q] \in {invoked[q], invoked[q] + 1}
  BY <1>1, <1>2, <1>3
<1> QED
  BY <1>0, <1>2, <1>4, LogCommit

LEMMA CommitRenewInv ==
    ASSUME PgInv, NEW c \in Conn, CommitRenew(c)
    PROVE  PgInv' /\ \A q \in Run : Orderly(q)
<1> DEFINE r == tx[c].run
           x == Renewed(leases[r])
<1>0. PgTyped /\ StoreTypeOK /\ RowsInv /\ End(c)
  BY DEF PgInv, PgTyped, CommitRenew
<1>1. r \in Run
  BY TxKinds DEF PgInv, CommitRenew, Commits, RenewTx
<1>2. leases' = [leases EXCEPT ![r] = x]
      /\ UNCHANGED <<runs, checkpoints, interrupts, events, copy, invoked>>
  BY <1>1 DEF CommitRenew
<1>3. /\ x \in LeaseRow /\ x.active = leases[r].active /\ x.holder = leases[r].holder
      /\ x.token = leases[r].token
  BY <1>0, <1>1, RenewedRow DEF StoreTypeOK
<1> HIDE DEF x
<1>4. \A q \in Run : /\ leases'[q].active = leases[q].active /\ leases'[q].holder = leases[q].holder
                     /\ leases'[q].token = leases[q].token
  BY <1>0, <1>1, <1>2, <1>3 DEF StoreTypeOK
<1>5. StoreTypeOK' /\ copy' \in [Worker -> ClaimRow] /\ invoked' \in [Run -> Nat]
  BY <1>0, <1>1, <1>2, <1>3 DEF StoreTypeOK, PgTyped
<1>6. WritesUnderLocks(c)
  BY <1>0, <1>2, <1>4 DEF WritesUnderLocks, LeaseMoves, RowsInv, Exists
<1>7. PgInv'
  BY <1>0, <1>5, <1>6, CommitStepInv
<1>8. \A q \in Run : Orderly(q)
  BY <1>2, <1>4 DEF Orderly, RowMoves, LegalMove
<1> QED
  BY <1>7, <1>8

LEMMA CommitRequeueInv ==
    ASSUME PgInv, NEW c \in Conn, CommitRequeue(c)
    PROVE  PgInv' /\ \A q \in Run : Orderly(q)
<1> DEFINE S == tx[c].rows
<1>0. PgTyped /\ StoreTypeOK /\ RowsInv /\ End(c)
  BY DEF PgInv, PgTyped, CommitRequeue
<1>1. S \in SUBSET Run /\ \A r \in S : TheLease(r) \in Holding(c) /\ TheRun(r) \in Holding(c)
  BY TxKinds DEF PgInv, CommitRequeue, Commits, SweepTx
<1>2. /\ runs' = [r \in Run |-> IF r \in S /\ runs[r].status = "RUNNING"
                                THEN Moved(runs[r], "QUEUED") ELSE runs[r]]
      /\ leases' = [r \in Run |-> IF r \in S THEN Deactivated(leases[r]) ELSE leases[r]]
      /\ events' = [r \in Run |-> IF r \in S /\ runs[r].status = "RUNNING"
                                  THEN events[r] + 1 ELSE events[r]]
      /\ UNCHANGED <<checkpoints, interrupts, copy, invoked>>
  BY DEF CommitRequeue
<1> HIDE DEF S
<1>3. ASSUME NEW r \in Run
      PROVE  /\ runs'[r] \in RunRow /\ leases'[r] \in LeaseRow /\ events'[r] \in Nat
             /\ \/ runs'[r] = runs[r] /\ events'[r] = events[r]
                \/ /\ r \in S /\ runs[r].status = "RUNNING" /\ runs'[r].status = "QUEUED"
                   /\ runs'[r].version = runs[r].version + 1 /\ events'[r] = events[r] + 1
             /\ leases'[r].holder = leases[r].holder /\ leases'[r].token = leases[r].token
             /\ leases'[r].active => leases[r].active
             /\ r \notin S => leases'[r] = leases[r]
  <2>1. runs[r] \in RunRow /\ leases[r] \in LeaseRow /\ events[r] \in Nat
    BY <1>0 DEF StoreTypeOK
  <2>2. /\ Moved(runs[r], "QUEUED") \in RunRow /\ Moved(runs[r], "QUEUED").status = "QUEUED"
        /\ Moved(runs[r], "QUEUED").version = runs[r].version + 1
    BY <2>1, MovedRow DEF Status, Active
  <2>3. /\ Deactivated(leases[r]) \in LeaseRow /\ Deactivated(leases[r]).active = FALSE
        /\ Deactivated(leases[r]).holder = leases[r].holder
        /\ Deactivated(leases[r]).token = leases[r].token
    BY <2>1, DeactivatedRow
  <2>4. /\ r \in S /\ runs[r].status = "RUNNING" =>
              runs'[r] = Moved(runs[r], "QUEUED") /\ events'[r] = events[r] + 1
        /\ ~(r \in S /\ runs[r].status = "RUNNING") => runs'[r] = runs[r] /\ events'[r] = events[r]
        /\ r \in S => leases'[r] = Deactivated(leases[r])
        /\ r \notin S => leases'[r] = leases[r]
    BY <1>2
  <2> QED
    BY <2>1, <2>2, <2>3, <2>4
<1>4. StoreTypeOK' /\ copy' \in [Worker -> ClaimRow] /\ invoked' \in [Run -> Nat]
  <2>1. runs' \in [Run -> RunRow] /\ leases' \in [Run -> LeaseRow] /\ events' \in [Run -> Nat]
    BY <1>2, <1>3
  <2> QED
    BY <1>0, <1>2, <2>1 DEF StoreTypeOK, PgTyped
<1>5. WritesUnderLocks(c)
  <2>1. \A r \in Run : \/ runs'[r] = runs[r]
                       \/ runs'[r].version = runs[r].version + 1 /\ Exists(r)'
    BY <1>3 DEF Exists
  <2>2. \A r \in Run : leases'[r].active => Exists(r)'
    BY <1>0, <1>3 DEF RowsInv, Exists
  <2>3. \A i \in Interrupt : interrupts'[i].run # Nobody =>
            runs'[interrupts'[i].run].status # "ABSENT"
    <3> SUFFICES ASSUME NEW i \in Interrupt, interrupts[i].run # Nobody
                 PROVE  runs'[interrupts[i].run].status # "ABSENT"
      BY <1>2
    <3>1. interrupts[i].run \in Run /\ Exists(interrupts[i].run)
      BY <1>0 DEF StoreTypeOK, InterruptRow, RowsInv
    <3> QED
      BY <1>3, <3>1 DEF Exists
  <2>4. \A r \in Run : runs'[r].status = "WAITING" => ~leases'[r].active
    BY <1>0, <1>3 DEF RowsInv
  <2>5. \A r \in Run : LeaseMoves(r)
    BY <1>3 DEF LeaseMoves
  <2>6. \A r \in Run : TheRun(r) \notin Holding(c) =>
            /\ runs'[r] = runs[r] /\ events'[r] = events[r]
            /\ invoked'[r] = invoked[r] /\ checkpoints'[r] = checkpoints[r]
    BY <1>1, <1>2, <1>3
  <2>7. \A r \in Run : TheLease(r) \notin Holding(c) =>
           /\ leases'[r].active = leases[r].active /\ leases'[r].holder = leases[r].holder
           /\ leases'[r].token = leases[r].token
    BY <1>1, <1>3
  <2> QED
    BY <1>2, <2>1, <2>2, <2>3, <2>4, <2>5, <2>6, <2>7 DEF WritesUnderLocks
<1>6. PgInv'
  BY <1>0, <1>4, <1>5, CommitStepInv
<1>7. ASSUME NEW q \in Run PROVE Orderly(q)
  <2>1. RowMoves(q)
    BY <1>3 DEF RowMoves, LegalMove, Lifecycle!Released, Lifecycle!Live
  <2> QED
    BY <1>2, <1>3, <2>1 DEF Orderly
<1> QED
  BY <1>6, <1>7

LEMMA CommitExpireInv ==
    ASSUME PgInv, NEW c \in Conn, CommitExpire(c)
    PROVE  PgInv' /\ \A q \in Run : Orderly(q)
<1> DEFINE S == tx[c].rows
           Out(r) == runs[r].status = "WAITING" /\ \E i \in S : interrupts[i].run = r
<1>0. PgTyped /\ StoreTypeOK /\ RowsInv /\ End(c)
  BY DEF PgInv, PgTyped, CommitExpire
<1>1. S \in SUBSET Interrupt /\ \A i \in S : TheRun(interrupts[i].run) \in Holding(c)
  BY TxKinds DEF PgInv, CommitExpire, Commits, SweepTx
<1>2. /\ interrupts' = [i \in Interrupt |-> IF i \in S THEN Decided(interrupts[i], "reject")
                                            ELSE interrupts[i]]
      /\ runs' = [r \in Run |-> IF Out(r) THEN Moved(runs[r], "TIMED_OUT") ELSE runs[r]]
      /\ events' = [r \in Run |-> IF Out(r) THEN events[r] + 1 ELSE events[r]]
      /\ UNCHANGED <<leases, checkpoints, copy, invoked>>
  BY DEF CommitExpire
<1>o. \A r \in Run : Out(r) => runs[r].status = "WAITING" /\ TheRun(r) \in Holding(c)
  BY <1>1
<1> HIDE DEF S, Out
<1>3. ASSUME NEW r \in Run
      PROVE  /\ runs'[r] \in RunRow /\ events'[r] \in Nat
             /\ \/ runs'[r] = runs[r] /\ events'[r] = events[r]
                \/ /\ Out(r) /\ runs[r].status = "WAITING" /\ runs'[r].status = "TIMED_OUT"
                   /\ runs'[r].version = runs[r].version + 1 /\ events'[r] = events[r] + 1
  <2>1. runs[r] \in RunRow /\ events[r] \in Nat
    BY <1>0 DEF StoreTypeOK
  <2>2. /\ Moved(runs[r], "TIMED_OUT") \in RunRow /\ Moved(runs[r], "TIMED_OUT").status = "TIMED_OUT"
        /\ Moved(runs[r], "TIMED_OUT").version = runs[r].version + 1
    BY <2>1, MovedRow DEF Status, Terminal
  <2>3. /\ Out(r) => runs'[r] = Moved(runs[r], "TIMED_OUT") /\ events'[r] = events[r] + 1
        /\ ~Out(r) => runs'[r] = runs[r] /\ events'[r] = events[r]
    BY <1>2
  <2> QED
    BY <1>o, <2>1, <2>2, <2>3
<1>i. ASSUME NEW i \in Interrupt
      PROVE  interrupts'[i] \in InterruptRow /\ interrupts'[i].run = interrupts[i].run
  <2>1. interrupts[i] \in InterruptRow
    BY <1>0 DEF StoreTypeOK
  <2>2. Decided(interrupts[i], "reject") \in InterruptRow
        /\ Decided(interrupts[i], "reject").run = interrupts[i].run
    BY <2>1, DecidedRow, DecisionKinds
  <2> QED
    BY <1>2, <2>1, <2>2
<1>4. StoreTypeOK' /\ copy' \in [Worker -> ClaimRow] /\ invoked' \in [Run -> Nat]
  <2>1. runs' \in [Run -> RunRow] /\ events' \in [Run -> Nat]
        /\ interrupts' \in [Interrupt -> InterruptRow]
    BY <1>2, <1>3, <1>i
  <2> QED
    BY <1>0, <1>2, <2>1 DEF StoreTypeOK, PgTyped
<1>5. WritesUnderLocks(c)
  <2>1. \A r \in Run : \/ runs'[r] = runs[r]
                       \/ runs'[r].version = runs[r].version + 1 /\ Exists(r)'
    BY <1>3 DEF Exists
  <2>2. \A r \in Run : leases'[r].active => Exists(r)'
    BY <1>0, <1>2, <1>3 DEF RowsInv, Exists
  <2>3. \A i \in Interrupt : interrupts'[i].run # Nobody =>
            runs'[interrupts'[i].run].status # "ABSENT"
    <3> SUFFICES ASSUME NEW i \in Interrupt, interrupts[i].run # Nobody
                 PROVE  runs'[interrupts[i].run].status # "ABSENT"
      BY <1>i
    <3>1. interrupts[i].run \in Run /\ Exists(interrupts[i].run)
      BY <1>0 DEF StoreTypeOK, InterruptRow, RowsInv
    <3> QED
      BY <1>3, <3>1 DEF Exists
  <2>4. \A r \in Run : runs'[r].status = "WAITING" => ~leases'[r].active
    BY <1>0, <1>2, <1>3 DEF RowsInv
  <2>5. \A r \in Run : LeaseMoves(r)
    BY <1>2 DEF LeaseMoves
  <2>6. \A r \in Run : TheRun(r) \notin Holding(c) =>
            /\ runs'[r] = runs[r] /\ events'[r] = events[r]
            /\ invoked'[r] = invoked[r] /\ checkpoints'[r] = checkpoints[r]
    BY <1>o, <1>2, <1>3
  <2> QED
    BY <1>2, <1>i, <2>1, <2>2, <2>3, <2>4, <2>5, <2>6 DEF WritesUnderLocks
<1>6. PgInv'
  BY <1>0, <1>4, <1>5, CommitStepInv
<1>7. ASSUME NEW q \in Run PROVE Orderly(q)
  <2>1. RowMoves(q)
    BY <1>2, <1>3 DEF RowMoves, LegalMove, Lifecycle!Ended
  <2> QED
    BY <1>2, <1>3, <2>1 DEF Orderly
<1> QED
  BY <1>6, <1>7

LEMMA CommitInv ==
    ASSUME PgInv, NEW c \in Conn, Commit(c)
    PROVE  PgInv' /\ \A q \in Run : Orderly(q)
  BY CommitCreateInv, CommitClaimInv, CommitStepKeepsInv, CommitFinishInv, CommitInterruptInv,
     CommitDecideInv, CommitTransitionInv, CommitRenewInv, CommitEventInv, CommitPrepareInv,
     CommitRequeueInv, CommitExpireInv DEF Commit

-----------------------------------------------------------------------------
(* The invariant holds *)

\* The clock only ages leases and interrupts.
LEMMA TickInv ==
    ASSUME PgInv, StoreTick, UNCHANGED pgVars
    PROVE  PgInv' /\ \A q \in Run : Orderly(q)
<1>0. PgTyped /\ StoreTypeOK /\ RowsInv
  BY DEF PgInv, PgTyped
<1>1. UNCHANGED <<runs, checkpoints, events, lock, tx, copy, invoked>>
  BY DEF StoreTick, pgVars
<1>2. ASSUME NEW r \in Run
      PROVE  /\ leases'[r] \in LeaseRow /\ leases'[r].active = leases[r].active
             /\ leases'[r].holder = leases[r].holder /\ leases'[r].token = leases[r].token
  <2>1. leases[r] \in LeaseRow
    BY <1>0 DEF StoreTypeOK
  <2>2. leases'[r] = leases[r] \/ leases'[r] = Aged(leases[r])
    BY DEF StoreTick, TickedLeases
  <2> QED
    BY <2>1, <2>2, AgedLease
<1>3. ASSUME NEW i \in Interrupt
      PROVE  interrupts'[i] \in InterruptRow /\ interrupts'[i].run = interrupts[i].run
  <2>1. interrupts[i] \in InterruptRow
    BY <1>0 DEF StoreTypeOK
  <2>2. interrupts'[i] = interrupts[i] \/ interrupts'[i] = Aged(interrupts[i])
    BY DEF StoreTick, TickedInterrupts
  <2> QED
    BY <2>1, <2>2, AgedInterrupt
<1>4. PgTyped'
  <2>1. leases' \in [Run -> LeaseRow] /\ interrupts' \in [Interrupt -> InterruptRow]
    BY <1>2, <1>3 DEF StoreTick, TickedLeases, TickedInterrupts
  <2> QED
    BY <1>0, <1>1, <2>1 DEF PgTyped, StoreTypeOK
<1>5. PICK K : K = {}
  OBVIOUS
<1>6. Frame(K)
  BY <1>1, <1>2, <1>3 DEF Frame
<1>7. RowsInv'
  BY <1>0, <1>1, <1>2, <1>3 DEF RowsInv, Exists
<1>8. \A r \in Run : LeaseMoves(r)
  BY <1>2 DEF LeaseMoves
<1>9. PgInv'
  <2>1. (\A c \in Conn : c \in K => TxInv(c)')
        /\ \A w \in Worker : <<"main", w>> \in K => copy'[w] = copy[w] \/ CopyInv(w)'
    BY <1>5
  <2> QED
    BY <1>4, <1>6, <1>7, <1>8, <2>1, FrameStep
<1>10. \A q \in Run : Orderly(q)
  BY <1>1, <1>2 DEF Orderly, RowMoves, LegalMove
<1> QED
  BY <1>9, <1>10

LEMMA BeginWorkerInv ==
    ASSUME PgInv, NEW w \in Worker, BeginWorker(w)
    PROVE  PgInv' /\ UNCHANGED <<storeVars, invoked>>
<1>1. ASSUME NEW r \in Run, runs[r].status = "RUNNING",
             BeginTransition(<<"main", w>>, r, "NEEDS_REVIEW")
      PROVE  PgInv' /\ UNCHANGED <<storeVars, invoked>>
  <2>1. ControlMove(runs[r].status, "NEEDS_REVIEW") /\ <<"main", w>> \in Conn
    BY <1>1, ConnectionNames DEF ControlMove, CanTransition
  <2> QED
    BY <1>1, <2>1, BeginTransitionInv DEF BeginTransition, Begin
<1>2. ASSUME NEW r \in Run, BeginClaim(w, r)
      PROVE  PgInv' /\ UNCHANGED <<storeVars, invoked>>
  BY <1>2, BeginClaimInv DEF BeginClaim, BeginLocked, Begin
<1>3. ASSUME BeginStep(w) \/ BeginFail(w) \/ BeginRenew(w) \/ BeginRequeue(w) \/ BeginExpire(w)
      PROVE  PgInv' /\ UNCHANGED <<storeVars, invoked>>
  <2>1. UNCHANGED <<storeVars, invoked>>
    BY <1>3 DEF BeginStep, BeginFail, BeginRenew, BeginRequeue, BeginExpire, BeginLocked, Begin
  <2> QED
    BY <1>3, <2>1, BeginStepInv, BeginFailInv, BeginRenewInv, BeginRequeueInv, BeginExpireInv
<1> QED
  BY <1>1, <1>2, <1>3 DEF BeginWorker

LEMMA BeginApiInv ==
    ASSUME PgInv, NEW c \in Conn, BeginApi(c)
    PROVE  PgInv' /\ UNCHANGED <<storeVars, invoked>>
<1>1. ASSUME NEW r \in Run, BeginCreate(c, r)
      PROVE  PgInv' /\ UNCHANGED <<storeVars, invoked>>
  BY <1>1, BeginCreateInv DEF BeginCreate, BeginLocked, Begin
<1>2. ASSUME NEW r \in Run, BeginTransition(c, r, "CANCELLED")
      PROVE  PgInv' /\ UNCHANGED <<storeVars, invoked>>
  <2>1. ControlMove(runs[r].status, "CANCELLED")
    BY <1>2 DEF BeginTransition, ControlMove
  <2> QED
    BY <1>2, <2>1, BeginTransitionInv DEF BeginTransition, Begin
<1>3. ASSUME NEW r \in Run, runs[r].status = "NEEDS_REVIEW", BeginTransition(c, r, "QUEUED")
      PROVE  PgInv' /\ UNCHANGED <<storeVars, invoked>>
  <2>1. ControlMove(runs[r].status, "QUEUED")
    BY <1>3 DEF BeginTransition, ControlMove
  <2> QED
    BY <1>3, <2>1, BeginTransitionInv DEF BeginTransition, Begin
<1>4. ASSUME NEW i \in Interrupt, NEW d \in Decisions, BeginDecide(c, i, d)
      PROVE  PgInv' /\ UNCHANGED <<storeVars, invoked>>
  BY <1>4, BeginDecideInv DEF BeginDecide, Begin
<1> QED
  BY <1>1, <1>2, <1>3, <1>4 DEF BeginApi

LEMMA PgStep ==
    ASSUME PgInv, [PgNext]_allVars
    PROVE  PgInv' /\ \A q \in Run : Orderly(q)
<1>1. ASSUME NEW w \in Worker, BeginWorker(w) PROVE PgInv' /\ \A q \in Run : Orderly(q)
  BY <1>1, BeginWorkerInv, QuietIsOrderly
<1>2. ASSUME NEW w \in Worker, Killed(w) PROVE PgInv' /\ \A q \in Run : Orderly(q)
  <2>1. UNCHANGED <<storeVars, invoked>>
    BY <1>2 DEF Killed
  <2> QED
    BY <1>2, <2>1, KilledInv, QuietIsOrderly
<1>3. ASSUME NEW a \in Api, BeginApi(<<"api", a>>) PROVE PgInv' /\ \A q \in Run : Orderly(q)
  BY <1>3, ApiNames, BeginApiInv, QuietIsOrderly
<1>4. ASSUME NEW c \in Conn, Acquire(c) PROVE PgInv' /\ \A q \in Run : Orderly(q)
  <2>1. UNCHANGED <<storeVars, invoked>>
    BY <1>4 DEF Acquire, Rollback
  <2> QED
    BY <1>4, <2>1, AcquireInv, QuietIsOrderly
<1>5. ASSUME NEW c \in Conn, DeadlockAbort(c) \/ Disconnect(c)
      PROVE  PgInv' /\ \A q \in Run : Orderly(q)
  <2>1. Rollback(c) /\ UNCHANGED <<storeVars, invoked>>
    BY <1>5 DEF DeadlockAbort, Disconnect, Rollback
  <2> QED
    BY <2>1, RollbackInv, QuietIsOrderly
<1>6. CASE UNCHANGED allVars
  <2>0. PgTyped /\ UNCHANGED <<storeVars, lock, tx, copy, invoked>>
    BY <1>6 DEF PgInv, allVars, pgVars
  <2> DEFINE K == {}
  <2>2. lock' = [l \in Lockable |-> IF lock[l] \in K THEN Nobody ELSE lock[l]]
        /\ tx' = [d \in Conn |-> IF d \in K THEN NoTx ELSE tx[d]]
    BY <2>0 DEF PgTyped
  <2>3. copy' \in [Worker -> ClaimRow]
        /\ \A v \in Worker : copy'[v] = copy[v] \/ (<<"main", v>> \in K /\ CopyInv(v)')
    BY <2>0 DEF PgTyped
  <2>4. K \in SUBSET Conn
    OBVIOUS
  <2> HIDE DEF K
  <2>1. PgInv'
    BY <2>0, <2>2, <2>3, <2>4, CloseStep
  <2> QED
    BY <1>6, <2>1, QuietIsOrderly DEF allVars, pgVars
<1> QED
  BY <1>1, <1>2, <1>3, <1>4, <1>5, <1>6, CommitInv, TickInv DEF PgNext

LEMMA PgStarts == PgInit => PgInv
<1> SUFFICES ASSUME PgInit PROVE PgInv
  OBVIOUS
<1>1. StoreTypeOK
  BY RequestTypes DEF PgInit, StoreInit, StoreTypeOK, RunRow, LeaseRow, CheckpointRow,
                      InterruptRow, NoDeadline, Status
<1>2. NoClaim \in ClaimRow /\ NoClaim.run = Nobody
  BY DEF NoClaim, ClaimRow
<1>3. PgTyped
  BY <1>1, <1>2, NoTxFields DEF PgInit, PgTyped
<1>4. \A c \in Conn : TxInv(c)
  <2>1. \A c \in Conn : tx[c] = NoTx
    BY DEF PgInit
  <2>2. \A c \in Conn : Holding(c) = {}
    BY NobodyIsNoConnection DEF PgInit, Holding
  <2> QED
    BY <2>1, <2>2 DEF TxInv
<1>5. \A w \in Worker : CopyInv(w)
  BY <1>2 DEF PgInit, CopyInv
<1>6. RowsInv
  <2>1. \A r \in Run : TheRun(r) \in Lockable
    BY RunNames
  <2> QED
    BY <2>1 DEF PgInit, StoreInit, RowsInv, Exists
<1> QED
  BY <1>3, <1>4, <1>5, <1>6 DEF PgInv

\* The row locks do what the store relies on: a transaction's reads of the rows
\* that it has locked hold until it commits, it writes no others, and a claim in a
\* worker's memory whose version is current is the claim that holds the lease.
THEOREM LocksProtectReads == PgSpec => []PgInv
<1>1. PgInv /\ [PgNext]_allVars => PgInv'
  BY PgStep
<1> QED
  BY <1>1, PgStarts, PTL DEF PgSpec

\* Locks are those of open transactions, and workers' claims name tokens that were
\* granted (the _lock_run, _required_lease and claim_next of postgres.py).
THEOREM PgTypes == PgSpec => []PgTypeOK
<1>1. PgInv => PgTypeOK
  <2> SUFFICES ASSUME PgInv PROVE PgTypeOK
    OBVIOUS
  <2>0. PgTyped
    BY DEF PgInv
  <2>1. ASSUME NEW l \in Lockable, lock[l] # Nobody PROVE tx[lock[l]] # NoTx
    <3>1. lock[l] \in Conn /\ l \in Holding(lock[l])
      BY <2>0, <2>1 DEF PgTyped, Holding
    <3> QED
      BY <3>1, IdleHoldsNothing, NoTxFields DEF PgInv
  <2>2. ASSUME NEW c \in Conn PROVE tx[c].run \in Run \cup {Nobody} /\ tx[c].todo \in Seq(Lockable)
    BY <2>0 DEF PgTyped, TxRow
  <2>3. ASSUME NEW w \in Worker, copy[w].run # Nobody
        PROVE  copy[w].token \in 1..leases[copy[w].run].token
    <3>1. copy[w].run \in Run /\ copy[w].token \in Nat /\ leases[copy[w].run].token \in Nat
      BY <2>0, <2>3 DEF PgTyped, ClaimRow, StoreTypeOK, LeaseRow
    <3>2. copy[w].token > 0 /\ copy[w].token <= leases[copy[w].run].token
      BY <2>3 DEF PgInv, CopyInv
    <3> QED
      BY <3>1, <3>2
  <2> QED
    BY <2>0, <2>1, <2>2, <2>3 DEF PgTypeOK, PgTyped
<1> QED
  BY <1>1, LocksProtectReads, PTL

-----------------------------------------------------------------------------
(* Deadlocks *)

\* A transaction that holds rows and waits for another.
RunFirstWaits(c) ==
    /\ tx[c].op \in {"claim", "interrupt"} /\ tx[c].run \in Run
    /\ Head(tx[c].todo) = TheLease(tx[c].run) /\ Holding(c) = {TheRun(tx[c].run)}

LeaseFirstWaits(c) ==
    /\ tx[c].op \in {"checkpoint", "finish"} /\ tx[c].run \in Run /\ c[1] = "main"
    /\ Head(tx[c].todo) = TheRun(tx[c].run) /\ Holding(c) = {TheLease(tx[c].run)}
    /\ LeaseSeen(c)

DecideWaits(c) ==
    /\ tx[c].op = "decide" /\ tx[c].run \in Run /\ tx[c].int \in Interrupt
    /\ Head(tx[c].todo) = TheRun(tx[c].run) /\ Holding(c) = {TheInterrupt(tx[c].int)}

LEMMA WaitingHolders ==
    ASSUME NEW c \in Conn, TxInv(c), tx[c].todo # <<>>, Holding(c) # {}
    PROVE  RunFirstWaits(c) \/ LeaseFirstWaits(c) \/ DecideWaits(c)
<1>1. CASE ClaimTx(c)
  <2>1. tx[c].run \in Run /\ tx[c].todo = <<TheLease(tx[c].run)>> /\ Holding(c) = {TheRun(tx[c].run)}
    BY <1>1 DEF ClaimTx
  <2> QED
    BY <1>1, <2>1, RunNames, Queues DEF RunFirstWaits, ClaimTx
<1>2. CASE LeaseFirstTx(c)
  <2>1. /\ tx[c].run \in Run /\ c[1] = "main" /\ tx[c].todo = <<TheRun(tx[c].run)>>
        /\ Holding(c) = {TheLease(tx[c].run)} /\ LeaseSeen(c)
    BY <1>2 DEF LeaseFirstTx, OwnClaim
  <2> QED
    BY <1>2, <2>1, RunNames, Queues DEF LeaseFirstWaits, LeaseFirstTx
<1>3. CASE InterruptTx(c)
  <2>1. tx[c].run \in Run /\ tx[c].todo = <<TheLease(tx[c].run)>> /\ Holding(c) = {TheRun(tx[c].run)}
    BY <1>3 DEF InterruptTx, OwnClaim
  <2> QED
    BY <1>3, <2>1, RunNames, Queues DEF RunFirstWaits, InterruptTx
<1>4. CASE DecideTx(c)
  <2>1. /\ tx[c].run \in Run /\ tx[c].int \in Interrupt /\ tx[c].todo = <<TheRun(tx[c].run)>>
        /\ Holding(c) = {TheInterrupt(tx[c].int)}
    BY <1>4 DEF DecideTx
  <2> QED
    BY <1>4, <2>1, RunNames, Queues DEF DecideWaits, DecideTx
<1> QED
  BY <1>1, <1>2, <1>3, <1>4, NoTxFields DEF TxInv, CreateTx, TransitionTx, AppendTx, RenewTx,
         SweepTx

\* A run-first and a lease-first transaction that wait for each other: the first is
\* a claim, for the version that create_interrupt presents is current only in the
\* worker that holds the lease.
LEMMA CrossedOrders ==
    ASSUME PgInv, NEW a \in Conn, NEW b \in Conn, RunFirstWaits(a), LeaseFirstWaits(b),
           tx[a].run = tx[b].run
    PROVE  /\ tx[a].op = "claim" /\ runs[tx[a].run].status = "QUEUED"
           /\ leases[tx[a].run].active
<1> DEFINE r == tx[a].run
<1>1. r \in Run /\ leases[r].active /\ leases[r].holder = b[2] /\ b = <<"main", b[2]>>
  BY MainConnections DEF LeaseFirstWaits, LeaseSeen
<1>2. tx[a].op # "interrupt"
  <2> SUFFICES ASSUME tx[a].op = "interrupt" PROVE FALSE
    OBVIOUS
  <2>1. InterruptTx(a)
    BY TxKinds DEF PgInv
  <2>2. /\ OwnClaim(a) /\ ReadsHold(a) /\ tx[a].row.version = tx[a].ver
        /\ tx[a].ver = copy[a[2]].version
    BY <2>1 DEF InterruptTx, RunFirstWaits
  <2>3. a[2] \in Worker /\ a = <<"main", a[2]>>
    BY <2>2, MainConnections DEF OwnClaim
  <2>4. copy[a[2]].run = r /\ copy[a[2]].version = runs[r].version
    BY <2>2 DEF OwnClaim, ReadsHold
  <2>5. leases[r].holder = a[2]
    BY <1>1, <2>3, <2>4, NobodyIsNoId DEF PgInv, CopyInv
  <2>6. a = b
    BY <1>1, <2>3, <2>5
  <2> QED
    BY <2>6 DEF RunFirstWaits, LeaseFirstWaits
<1>3. ClaimTx(a)
  BY <1>2, TxKinds DEF PgInv, RunFirstWaits
<1> QED
  BY <1>1, <1>3 DEF ClaimTx, ReadsHold

LEMMA DeadlockStory ==
    ASSUME PgInv
    PROVE  OnlyResumedRunsDeadlock
<1> SUFFICES ASSUME NEW c \in Deadlocked
             PROVE  /\ tx[c].op \in {"claim", "finish", "checkpoint"}
                    /\ runs[tx[c].run].status = "QUEUED"
                    /\ leases[tx[c].run].active
  BY DEF OnlyResumedRunsDeadlock
<1>1. PICK S \in SUBSET Conn : c \in S /\ \A d \in S : /\ WaitsFor(d) \cap S # {}
                                                      /\ \E e \in S : d \in WaitsFor(e)
  BY DEF Deadlocked
<1>2. ASSUME NEW d \in S
      PROVE  /\ d \in Conn /\ tx[d].todo # <<>>
             /\ \E e \in S : lock[Head(tx[d].todo)] = e
             /\ \E e \in S : tx[e].todo # <<>> /\ lock[Head(tx[e].todo)] = d
  <2>1. ASSUME NEW x, NEW y, y \in WaitsFor(x)
        PROVE  tx[x].todo # <<>> /\ lock[Head(tx[x].todo)] = y
    <3>1. CASE tx[x].todo = <<>>
      BY <2>1, <3>1 DEF WaitsFor
    <3>2. CASE tx[x].todo # <<>>
      BY <2>1, <3>2 DEF WaitsFor
    <3> QED
      BY <3>1, <3>2
  <2>2. PICK e \in S : e \in WaitsFor(d)
    BY <1>1
  <2>3. PICK f \in S : d \in WaitsFor(f)
    BY <1>1
  <2>4. tx[d].todo # <<>> /\ lock[Head(tx[d].todo)] = e
    BY <2>1, <2>2
  <2>5. tx[f].todo # <<>> /\ lock[Head(tx[f].todo)] = d
    BY <2>1, <2>3
  <2> QED
    BY <2>4, <2>5
<1>3. ASSUME NEW d \in S PROVE Head(tx[d].todo) \in Lockable
  <2>1. tx[d].todo \in Seq(Lockable) /\ tx[d].todo # <<>>
    BY <1>2 DEF PgInv, PgTyped, TxRow
  <2> QED
    BY <2>1
<1>4. ASSUME NEW d \in S PROVE \E e \in S : Head(tx[e].todo) \in Holding(d)
  BY <1>2, <1>3 DEF Holding
<1>5. ASSUME NEW d \in S PROVE RunFirstWaits(d) \/ LeaseFirstWaits(d) \/ DecideWaits(d)
  BY <1>2, <1>4, WaitingHolders DEF PgInv
<1>6. ASSUME NEW d \in S PROVE ~DecideWaits(d)
  <2> SUFFICES ASSUME DecideWaits(d) PROVE FALSE
    OBVIOUS
  <2>1. PICK e \in S : Head(tx[e].todo) = TheInterrupt(tx[d].int)
    BY <1>4 DEF DecideWaits
  <2>2. PICK r \in Run : Head(tx[e].todo) = TheLease(r) \/ Head(tx[e].todo) = TheRun(r)
    BY <1>5 DEF RunFirstWaits, LeaseFirstWaits, DecideWaits
  <2> QED
    BY <2>1, <2>2, RowNames DEF DecideWaits
<1>7. PICK e \in S : lock[Head(tx[c].todo)] = e
  BY <1>1, <1>2
<1>8. Head(tx[c].todo) \in Holding(e) /\ e \in Conn /\ c \in Conn
  BY <1>1, <1>2, <1>3, <1>7 DEF Holding
<1>9. CASE RunFirstWaits(c)
  <2>1. TheLease(tx[c].run) \in Holding(e) /\ tx[c].run \in Run
    BY <1>8, <1>9 DEF RunFirstWaits
  <2>2. LeaseFirstWaits(e) /\ tx[e].run = tx[c].run
    BY <1>5, <1>6, <2>1, RunNames DEF RunFirstWaits, LeaseFirstWaits
  <2> QED
    BY <1>8, <1>9, <2>2, CrossedOrders
<1>10. CASE LeaseFirstWaits(c)
  <2>1. TheRun(tx[c].run) \in Holding(e) /\ tx[c].run \in Run
    BY <1>8, <1>10 DEF LeaseFirstWaits
  <2>2. RunFirstWaits(e) /\ tx[e].run = tx[c].run
    BY <1>5, <1>6, <2>1, RunNames DEF RunFirstWaits, LeaseFirstWaits
  <2>3. runs[tx[c].run].status = "QUEUED" /\ leases[tx[c].run].active
    BY <1>8, <1>10, <2>2, CrossedOrders
  <2> QED
    BY <1>10, <2>3 DEF LeaseFirstWaits
<1> QED
  BY <1>1, <1>5, <1>6, <1>9, <1>10

\* The transactions of any number of connections deadlock only over a run that was
\* resumed from review while the worker that had it still holds its lease: the lock
\* orders of claim_next and create_interrupt (run, lease) and of commit_checkpoint
\* and finish_claim (lease, run) cross nowhere else.
THEOREM DeadlocksAreOverResumedRuns == PgSpec => []OnlyResumedRunsDeadlock
  BY DeadlockStory, LocksProtectReads, PTL

-----------------------------------------------------------------------------
(* What a step does to a run *)

\* Events and invocations are numbered without gap or repetition, whatever the
\* connections do (_append_event, PostgresEffectLedger.prepare).
THEOREM NumbersAreFresh == PgSpec => SequencesAreFresh
<1>1. PgInv /\ [PgNext]_allVars =>
        [\A r \in Run : /\ events'[r] \in {events[r], events[r] + 1}
                        /\ invoked'[r] \in {invoked[r], invoked[r] + 1}
                        /\ runs'[r] # runs[r] => events'[r] = events[r] + 1]_allVars
  BY PgStep DEF Orderly
<1> QED
  BY <1>1, LocksProtectReads, PTL DEF PgSpec, SequencesAreFresh

\* Every change of an existing run's row raises its version by one: no update of
\* one transaction is lost under another's.
THEOREM PgVersionsTellChanges == PgSpec => EveryChangeBumpsVersion
<1>1. PgInv /\ [PgNext]_allVars =>
        [\A r \in Run : Exists(r) /\ runs'[r] # runs[r] =>
             runs'[r].version = runs[r].version + 1]_storeVars
  BY PgStep DEF Orderly
<1> QED
  BY <1>1, LocksProtectReads, PTL DEF PgSpec, EveryChangeBumpsVersion

\* The PostgreSQL store implements the same life cycle as the SQLite one, with its
\* transactions split into lock steps and its readers unlocked.
THEOREM PgImplementsLifecycle == PgSpec => ImplementsLifecycle
<1> DEFINE st == [r \in Run |-> runs[r].status]
           at == [r \in Run |-> leases[r].token]
<1>1. PgInit => Lifecycle!Init
  BY DEF PgInit, StoreInit, Lifecycle!Init
<1>2. PgInv /\ [PgNext]_allVars => [Lifecycle!Next]_<<st, at>>
  <2> SUFFICES ASSUME PgInv, [PgNext]_allVars PROVE Lifecycle!Next
    OBVIOUS
  <2>1. ASSUME NEW r \in Run PROVE Lifecycle!Moves(r)
    <3>1. RowMoves(r)
      BY PgStep DEF Orderly
    <3> QED
      BY <3>1, LegalMovesStartNothing DEF RowMoves, LegalMove, Lifecycle!Moves, Lifecycle!Started
  <2> QED
    BY <2>1 DEF Lifecycle!Next
<1> QED
  BY <1>1, <1>2, LocksProtectReads, PTL DEF PgSpec, ImplementsLifecycle, Lifecycle!Spec


=============================================================================
