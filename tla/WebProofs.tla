------------------------------- MODULE WebProofs -------------------------------
(***************************************************************************)
(* The machines that share no state with the others: the settings, the     *)
(* record blocks, the browser's store, a list of Livestorm's, the calls of *)
(* a model, the maintenance scripts and the tokens.  For each, an inductive *)
(* invariant and the property that MCWeb checks of it.                     *)
(***************************************************************************)
EXTENDS Web, FiniteSets, SumProofs, SequenceTheorems

Calls == INSTANCE LlmProofs WITH Kinds <- JobKinds, kind <- job, lost <- unlogged

\* One machine moves in a behaviour, by its own steps.
LEMMA Turn ==
  ASSUME [WebNext]_webVars
  PROVE  /\ UNCHANGED part
         /\ part = "setting" => [Setting!Next]_(Setting!vars)
         /\ part = "record" => [Record!Next]_(Record!vars)
         /\ part = "scope" => [Scope!Next]_(Scope!vars)
         /\ part = "page" => [Page!Next]_(Page!vars)
         /\ part = "call" => [Call!Next]_(Call!vars)
         /\ part = "backfill" => [Backfill!Next]_(Backfill!vars)
         /\ part = "token" => [Token!Next]_(Token!vars)
<1>1. CASE WebNext
  BY <1>1 DEF WebNext
<1>2. CASE UNCHANGED webVars
  BY <1>2 DEF webVars, settingVars, recordVars, scopeVars, pageVars, callVars, backfillVars, tokenVars,
     Setting!vars, Record!vars, Scope!vars, Page!vars, Call!vars, Backfill!vars, Token!vars
<1> QED
  BY <1>1, <1>2

-----------------------------------------------------------------------------
\* Settings: one setting, cached by every process.
SettingAssumption == TTL \in Nat /\ ReadTime \in Nat /\ MaxWrites \in Nat

\* A value that has been replaced for longer than a reader has held it, or than
\* an entry's age and one read, is in neither.
Held == [value : 0..value, age : 0..TTL]
SettingInv ==
  /\ value \in 0..MaxWrites
  /\ since \in [0..MaxWrites -> 0..(TTL + ReadTime + 1)]
  /\ \A w \in value..MaxWrites : since[w] = 0
  /\ entry \in [Processes -> Held]
  /\ reader \in [Processes -> {Setting!Idle} \cup [pc : {"read"}, value : 0..value, age : 0..ReadTime]]
  /\ \A p \in Processes : reader[p].pc = "read" => since[reader[p].value] <= reader[p].age
  /\ \A p \in Processes : entry[p].age < TTL => since[entry[p].value] <= entry[p].age + ReadTime

LEMMA SettingStep ==
  ASSUME SettingAssumption, SettingInv, [Setting!Next]_(Setting!vars)
  PROVE  SettingInv'
<1> USE DEF SettingAssumption, SettingInv, Held, Setting!Idle, Setting!Writes
<1>1. ASSUME NEW p \in Processes, Setting!Miss(p) PROVE SettingInv'
  BY <1>1 DEF Setting!Miss
<1>2. ASSUME NEW p \in Processes, Setting!Store(p) PROVE SettingInv'
  BY <1>2 DEF Setting!Store
<1>3. ASSUME NEW p \in Processes, Setting!ReadFails(p) PROVE SettingInv'
  BY <1>3 DEF Setting!ReadFails
<1>4. ASSUME NEW p \in Processes, Setting!Write(p) PROVE SettingInv'
  BY <1>4 DEF Setting!Write
<1>5. CASE Setting!Tick
  <2> DEFINE Longer(age) == IF age = TTL + ReadTime + 1 THEN age ELSE age + 1
             Aged(age) == IF age = TTL THEN TTL ELSE age + 1
  <2>1. /\ value' = value
        /\ since' = [w \in 0..MaxWrites |-> IF w < value THEN Longer(since[w]) ELSE 0]
        /\ \A p \in Processes : reader[p].pc = "read" => reader[p].age < ReadTime
    BY <1>5 DEF Setting!Tick, Setting!Older, Setting!Long
  <2>2. entry' = [p \in Processes |-> [value |-> entry[p].value, age |-> Aged(entry[p].age)]]
    BY <1>5 DEF Setting!Tick, Setting!Older
  <2>3. ASSUME NEW p \in Processes
        PROVE  \/ reader[p] = Setting!Idle /\ reader'[p] = Setting!Idle
               \/ /\ reader[p] \in [pc : {"read"}, value : 0..value, age : 0..ReadTime]
                  /\ reader'[p] = [pc |-> "read", value |-> reader[p].value, age |-> reader[p].age + 1]
    <3>1. CASE reader[p] = Setting!Idle
      BY <1>5, <3>1 DEF Setting!Tick
    <3>2. CASE reader[p] \in [pc : {"read"}, value : 0..value, age : 0..ReadTime]
      BY <1>5, <3>2 DEF Setting!Tick
    <3> QED
      BY <3>1, <3>2
  <2>4. reader' = [p \in Processes |-> reader'[p]]
    BY <1>5 DEF Setting!Tick
  <2>5. \A w \in 0..MaxWrites : /\ since'[w] \in 0..(TTL + ReadTime + 1)
                                /\ w >= value => since'[w] = 0
                                /\ since'[w] <= since[w] + 1
    <3> SUFFICES ASSUME NEW w \in 0..MaxWrites
                 PROVE  /\ since'[w] \in 0..(TTL + ReadTime + 1)
                        /\ w >= value => since'[w] = 0
                        /\ since'[w] <= since[w] + 1
      OBVIOUS
    <3>1. since[w] \in 0..(TTL + ReadTime + 1) /\ since'[w] = IF w < value THEN Longer(since[w]) ELSE 0
      BY <2>1
    <3> QED
      BY <3>1
  <2>6. since' \in [0..MaxWrites -> 0..(TTL + ReadTime + 1)] /\ \A w \in value'..MaxWrites : since'[w] = 0
    BY <2>1, <2>5
  <2>7. entry' \in [Processes -> Held']
    BY <2>1, <2>2
  <2>8. reader' \in [Processes -> {Setting!Idle} \cup [pc : {"read"}, value : 0..value', age : 0..ReadTime]]
    BY <2>1, <2>3, <2>4
  <2>9. \A p \in Processes : reader'[p].pc = "read" => since'[reader'[p].value] <= reader'[p].age
    <3> SUFFICES ASSUME NEW p \in Processes, reader'[p].pc = "read"
                 PROVE  since'[reader'[p].value] <= reader'[p].age
      OBVIOUS
    <3>1. /\ reader[p] \in [pc : {"read"}, value : 0..value, age : 0..ReadTime]
          /\ reader'[p].value = reader[p].value /\ reader'[p].age = reader[p].age + 1
      <4>1. reader'[p] # Setting!Idle
        OBVIOUS
      <4>2. /\ reader[p] \in [pc : {"read"}, value : 0..value, age : 0..ReadTime]
            /\ reader'[p] = [pc |-> "read", value |-> reader[p].value, age |-> reader[p].age + 1]
        BY <2>3, <4>1, Zenon
      <4> QED
        BY <4>2
    <3> DEFINE w == reader[p].value
    <3>2. w \in 0..MaxWrites /\ since[w] <= reader[p].age
      BY <3>1
    <3>3. since'[w] <= since[w] + 1 /\ since'[w] \in Nat /\ since[w] \in Nat
      BY <2>5, <3>2
    <3> QED
      BY <3>1, <3>2, <3>3
  <2>10. \A p \in Processes : entry'[p].age < TTL => since'[entry'[p].value] <= entry'[p].age + ReadTime
    <3> SUFFICES ASSUME NEW p \in Processes, entry'[p].age < TTL
                 PROVE  since'[entry'[p].value] <= entry'[p].age + ReadTime
      OBVIOUS
    <3>1. entry[p] \in Held /\ entry'[p].value = entry[p].value /\ entry'[p].age = Aged(entry[p].age)
      BY <2>2
    <3> DEFINE w == entry[p].value
               n == entry[p].age
    <3>2. w \in 0..MaxWrites /\ n < TTL /\ entry'[p].age = n + 1 /\ n \in Nat
      BY <3>1
    <3>3. since[w] <= n + ReadTime
      BY <3>2
    <3>4. since'[w] <= since[w] + 1 /\ since'[w] \in Nat /\ since[w] \in Nat
      BY <2>5, <3>2
    <3> HIDE DEF w, n
    <3>5. since'[w] <= n + 1 + ReadTime
      BY <3>2, <3>3, <3>4
    <3> QED
      BY <3>1, <3>2, <3>5 DEF w
  <2> QED
    BY <2>1, <2>6, <2>7, <2>8, <2>9, <2>10
<1>6. CASE UNCHANGED Setting!vars
  BY <1>6 DEF Setting!vars
<1> QED
  BY <1>1, <1>2, <1>3, <1>4, <1>5, <1>6 DEF Setting!Next

\* An admin's change reaches every process within the cache's time and that of
\* one read, for any number of processes, changes and interleaved reads.
THEOREM ChangesReachAll ==
  ASSUME SettingAssumption
  PROVE  /\ Setting!Spec => []Setting!ChangeSeenInTime
         /\ WebSpec => []ChangeSeenInTime
<1>1. Setting!Init => SettingInv
  BY DEF SettingAssumption, Setting!Init, Setting!None, Setting!Idle, Setting!Writes, SettingInv, Held
<1>2. SettingInv /\ [Setting!Next]_(Setting!vars) => SettingInv'
  BY SettingStep
<1>3. SettingInv => Setting!ChangeSeenInTime
  BY DEF SettingAssumption, SettingInv, Held, Setting!ChangeSeenInTime, Setting!Fresh
<1> DEFINE Mine == part = "setting" => SettingInv
<1>4. WebInit => Mine
  BY <1>1 DEF WebInit
<1>5. Mine /\ [WebNext]_webVars => Mine'
  BY <1>2, Turn
<1>6. Mine => ChangeSeenInTime
  BY <1>3 DEF ChangeSeenInTime
<1> QED
  BY <1>1, <1>2, <1>3, <1>4, <1>5, <1>6, PTL DEF Setting!Spec, WebSpec

-----------------------------------------------------------------------------
\* RecordCache: the blocks one web process keeps.
\* A block was built from the version it is filed under, and a request asks for
\* the version it began with or one it has read since.
Block == {b \in [session : Sessions, key : Nat, built : Nat] : b.built = b.key}
AtWork == [pc : {"lookup", "read", "build"}, session : Sessions, began : Nat, key : Nat]
RecordInv ==
  /\ version \in [Sessions -> Nat]
  /\ blocks \in Seq(Block)
  /\ req \in [Requests -> {Record!Idle} \cup AtWork]
  /\ \A r \in Requests : req[r] \in AtWork => /\ req[r].began <= req[r].key
                                              /\ req[r].key <= version[req[r].session]
  /\ served \in [Requests -> [began : Nat, answer : Nat]]
  /\ \A r \in Requests : served[r].answer >= served[r].began

\* Whatever block is put in, the blocks stay what they are.
LEMMA PutKeeps ==
  ASSUME blocks \in Seq(Block), NEW b \in Block, Record!Put(b)
  PROVE  blocks' \in Seq(Block)
<1> USE DEF Record!Put, Record!Holds
<1>1. CASE \E i \in DOMAIN blocks : blocks' = [blocks EXCEPT ![i] = b]
  BY <1>1, ExceptSeq
<1>2. CASE \E i \in DOMAIN blocks : blocks' = Append(Record!RemoveAt(blocks, i), b)
  <2>1. PICK i \in 1..Len(blocks) : blocks' = Append(Record!RemoveAt(blocks, i), b)
    BY <1>2
  <2>2. SubSeq(blocks, 1, i - 1) \in Seq(Block) /\ SubSeq(blocks, i + 1, Len(blocks)) \in Seq(Block)
    BY <2>1
  <2>3. Record!RemoveAt(blocks, i) \in Seq(Block)
    BY <2>2 DEF Record!RemoveAt
  <2> QED
    BY <2>1, <2>3
<1>3. CASE blocks' = Append(blocks, b)
  BY <1>3
<1>4. CASE blocks' = Tail(Append(blocks, b))
  <2>1. Append(blocks, b) \in Seq(Block) /\ Append(blocks, b) # << >>
    OBVIOUS
  <2> QED
    BY <1>4, <2>1
<1> QED
  BY <1>1, <1>2, <1>3, <1>4

LEMMA RecordStep ==
  ASSUME RecordInv, [Record!Next]_(Record!vars)
  PROVE  RecordInv'
<1> USE DEF RecordInv
<1>0. Record!Idle \notin AtWork
  BY DEF Record!Idle, AtWork
<1>1. ASSUME NEW r \in Requests, NEW x \in Sessions, Record!Stamp(r, x) PROVE RecordInv'
  <2> DEFINE new == [pc |-> "lookup", session |-> x, began |-> version[x], key |-> version[x]]
  <2>1. new \in AtWork
    BY DEF AtWork
  <2>2. req' = [req EXCEPT ![r] = new] /\ UNCHANGED <<version, blocks>>
    BY <1>1 DEF Record!Stamp
  <2>3. served' = [served EXCEPT ![r] = [began |-> 0, answer |-> 0]]
    BY <1>1 DEF Record!Stamp, Record!Unanswered
  <2> QED
    BY <2>1, <2>2, <2>3
<1>2. ASSUME NEW r \in Requests, Record!Lookup(r) PROVE RecordInv'
  <2>1. req[r] \in AtWork /\ UNCHANGED version
    BY <1>2 DEF Record!Lookup, Record!Idle
  <2>2. ASSUME NEW i \in 1..Len(blocks), blocks[i].key = req[r].key,
               blocks' = Append(Record!RemoveAt(blocks, i), blocks[i]),
               served' = [served EXCEPT ![r] = [began |-> req[r].began, answer |-> blocks[i].built]],
               req' = [req EXCEPT ![r] = Record!Idle]
        PROVE  RecordInv'
    <3>1. blocks[i] \in Block
      OBVIOUS
    <3>2. Record!RemoveAt(blocks, i) \in Seq(Block)
      <4>1. SubSeq(blocks, 1, i - 1) \in Seq(Block) /\ SubSeq(blocks, i + 1, Len(blocks)) \in Seq(Block)
        OBVIOUS
      <4> QED
        BY <4>1 DEF Record!RemoveAt
    <3>3. blocks' \in Seq(Block)
      BY <2>2, <3>1, <3>2
    <3>4. blocks[i].built = req[r].key /\ req[r].began <= req[r].key
      BY <2>1, <2>2, <3>1 DEF Block
    <3>5. served' \in [Requests -> [began : Nat, answer : Nat]]
      BY <2>1, <2>2, <3>1 DEF Block, AtWork
    <3>6. \A t \in Requests : served'[t].answer >= served'[t].began
      BY <2>1, <2>2, <3>1, <3>4 DEF Block, AtWork
    <3> QED
      BY <1>0, <2>1, <2>2, <3>3, <3>5, <3>6
  <2>3. ASSUME req' = [req EXCEPT ![r].pc = Record!Missed], UNCHANGED <<blocks, served>>
        PROVE  RecordInv'
    <3> DEFINE new == [req[r] EXCEPT !.pc = Record!Missed]
    <3>1. new \in AtWork /\ new.began = req[r].began /\ new.key = req[r].key
                         /\ new.session = req[r].session
      BY <2>1 DEF Record!Missed, AtWork
    <3>2. req' = [req EXCEPT ![r] = new]
      BY <2>3
    <3> HIDE DEF new
    <3> QED
      BY <2>1, <2>3, <3>1, <3>2
  <2>4. \/ \E i \in DOMAIN blocks :
             /\ blocks[i].key = req[r].key
             /\ blocks' = Append(Record!RemoveAt(blocks, i), blocks[i])
             /\ served' = [served EXCEPT ![r] = [began |-> req[r].began, answer |-> blocks[i].built]]
             /\ req' = [req EXCEPT ![r] = Record!Idle]
        \/ req' = [req EXCEPT ![r].pc = Record!Missed] /\ UNCHANGED <<blocks, served>>
    BY <1>2 DEF Record!Lookup, Record!Holds
  <2>5. DOMAIN blocks = 1..Len(blocks)
    OBVIOUS
  <2> QED
    <3> HIDE DEF RecordInv
    <3> QED
      BY <2>2, <2>3, <2>4, <2>5
<1>3. ASSUME NEW r \in Requests, Record!ReadRow(r) PROVE RecordInv'
  <2>1. req[r] \in AtWork /\ UNCHANGED <<version, blocks, served>>
    BY <1>3 DEF Record!ReadRow, Record!Idle
  <2> DEFINE new == [req[r] EXCEPT !.pc = "build", !.key = version[req[r].session]]
  <2>2. new \in AtWork /\ new.began = req[r].began /\ new.key = version[req[r].session]
                       /\ new.session = req[r].session
    BY <2>1 DEF AtWork
  <2>3. req' = [req EXCEPT ![r] = Record!Idle] \/ req' = [req EXCEPT ![r] = new]
    BY <1>3 DEF Record!ReadRow
  <2>4. new.began <= new.key /\ new.key <= version[new.session]
    BY <2>1, <2>2 DEF AtWork
  <2> HIDE DEF new
  <2>5. CASE req' = [req EXCEPT ![r] = Record!Idle]
    BY <1>0, <2>1, <2>5
  <2>6. CASE req' = [req EXCEPT ![r] = new]
    BY <2>1, <2>2, <2>4, <2>6
  <2> QED
    BY <2>3, <2>5, <2>6
<1>4. ASSUME NEW r \in Requests, Record!Store(r) PROVE RecordInv'
  <2>1. req[r] \in AtWork /\ UNCHANGED version
    BY <1>4 DEF Record!Store, Record!Idle
  <2> DEFINE b == [session |-> req[r].session, key |-> req[r].key, built |-> req[r].key]
  <2>2. b \in Block
    BY <2>1 DEF Block, AtWork
  <2>3. blocks' \in Seq(Block)
    BY <1>4, <2>2, PutKeeps DEF Record!Store
  <2>4. /\ served' = [served EXCEPT ![r] = [began |-> req[r].began, answer |-> req[r].key]]
        /\ req' = [req EXCEPT ![r] = Record!Idle]
    BY <1>4 DEF Record!Store
  <2>5. served' \in [Requests -> [began : Nat, answer : Nat]]
    BY <2>1, <2>4 DEF AtWork
  <2>6. \A t \in Requests : served'[t].answer >= served'[t].began
    BY <2>1, <2>4
  <2> QED
    BY <1>0, <2>1, <2>3, <2>4, <2>5, <2>6
<1>5. ASSUME NEW x \in Sessions, Record!WriteRow(x) PROVE RecordInv'
  <2>1. version' = [version EXCEPT ![x] = @ + 1] /\ UNCHANGED <<blocks, req, served>>
    BY <1>5 DEF Record!WriteRow
  <2>2. \A r \in Requests : req[r] \in AtWork => req[r].key <= version'[req[r].session]
    BY <2>1 DEF AtWork
  <2> QED
    BY <2>1, <2>2
<1>6. CASE UNCHANGED Record!vars
  BY <1>6 DEF Record!vars
<1> QED
  BY <1>1, <1>2, <1>3, <1>4, <1>5, <1>6 DEF Record!Next

\* No request is answered with a record older than the session was when it
\* asked, for a cache of any size and any number of requests, sessions and
\* writes: what a hit gives was built from the version it is filed under.
THEOREM NeverOlder ==
  /\ Record!Spec => []Record!NeverServedOlder
  /\ WebSpec => []NeverServedOlder
<1>1. Record!Init => RecordInv
  BY DEF Record!Init, Record!Idle, Record!Unanswered, RecordInv, AtWork
<1>2. RecordInv => Record!NeverServedOlder
  BY DEF RecordInv, Record!NeverServedOlder
<1>3. RecordInv /\ [Record!Next]_(Record!vars) => RecordInv'
  BY RecordStep
<1> DEFINE Mine == part = "record" => RecordInv
<1>4. WebInit => Mine
  BY <1>1 DEF WebInit
<1>5. Mine /\ [WebNext]_webVars => Mine'
  BY <1>3, Turn
<1>6. Mine => NeverServedOlder
  BY <1>2 DEF NeverServedOlder
<1> QED
  BY <1>1, <1>2, <1>3, <1>4, <1>5, <1>6, PTL DEF Record!Spec, WebSpec

-----------------------------------------------------------------------------
\* SessionScope: the browser's store.
ScopeAssumption == MaxScopes \in Nat /\ Nil \notin Tasks /\ Nil \notin Sessions

\* A task at work remembers a scope that has been; in the current one it is of
\* the session opened last, and a flag is on for the task that set it.
Working == [pc : {"loading", "starting", "polling"}, number : Nat, session : Sessions \cup {Nil},
            flag : Scope!Flags]
ScopeInv ==
  /\ scope \in [number : Nat, session : Sessions \cup {Nil}]
  /\ task \in [Tasks -> {Scope!Idle} \cup Working]
  /\ flag \in [Scope!Flags -> Tasks \cup {Nil}]
  /\ slot \in Tasks \cup {Nil}
  /\ \A t \in Tasks : task[t] \in Working => /\ task[t].number <= scope.number
                                             /\ Scope!Current(t) => task[t].session = scope.session
  /\ screen \in {Nil, scope.session}
  /\ \A f \in Scope!Flags : flag[f] # Nil =>
       task[flag[f]] \in Working /\ Scope!Current(flag[f]) /\ task[flag[f]].flag = f
  /\ slot # Nil => task[slot].pc = "polling" /\ Scope!Current(slot)

LEMMA TaskEither ==
  ASSUME ScopeInv, NEW t \in Tasks
  PROVE  task[t] \in Working <=> task[t].pc # "idle"
  BY DEF ScopeInv, Working, Scope!Idle

\* A task that ends takes with it only its own flag.
LEMMA ScopeEnd ==
  ASSUME ScopeAssumption, ScopeInv, NEW t \in Tasks, task[t] \in Working, Scope!End(t), UNCHANGED scope,
         screen' \in {Nil, scope.session}, slot' \in {slot, Nil}, slot' # t
  PROVE  ScopeInv'
<1> USE DEF ScopeInv, ScopeAssumption, Scope!Current
<1>0. Scope!Idle \notin Working
  BY DEF Scope!Idle, Working
<1>1. task' = [task EXCEPT ![t] = Scope!Idle]
      /\ flag' = [flag EXCEPT ![task[t].flag] = IF flag[task[t].flag] = t THEN Nil ELSE flag[task[t].flag]]
  BY DEF Scope!End
<1>2. task[t].flag \in Scope!Flags
  BY DEF Working
<1>3. \A f \in Scope!Flags : flag'[f] # Nil => flag'[f] = flag[f] /\ flag[f] # t
  BY <1>1, <1>2
<1>4. flag' \in [Scope!Flags -> Tasks \cup {Nil}]
  BY <1>1, <1>2
<1>5. \A f \in Scope!Flags : flag'[f] # Nil =>
        task'[flag'[f]] \in Working /\ task'[flag'[f]].number = scope'.number /\ task'[flag'[f]].flag = f
  BY <1>1, <1>3
<1>6. slot' # Nil => task'[slot'].pc = "polling" /\ task'[slot'].number = scope'.number
  BY <1>1
<1> QED
  BY <1>0, <1>1, <1>4, <1>5, <1>6

LEMMA ScopeStep ==
  ASSUME ScopeAssumption, ScopeInv, [Scope!Next]_(Scope!vars)
  PROVE  ScopeInv'
<1> USE DEF ScopeInv, ScopeAssumption, Scope!Current
<1>0. Scope!Idle \notin Working
  BY DEF Scope!Idle, Working
<1>1. ASSUME NEW t \in Tasks, NEW x \in Sessions, Scope!Open(t, x) PROVE ScopeInv'
  <2> DEFINE new == [pc |-> "loading", number |-> scope.number + 1, session |-> x, flag |-> "sessionFetch"]
  <2>1. new \in Working
    BY DEF Working, Scope!Flags
  <2>2. /\ scope' = [number |-> scope.number + 1, session |-> x] /\ screen' \in {Nil, x} /\ slot' = Nil
        /\ task' = [task EXCEPT ![t] = new]
        /\ flag' = [[f \in Scope!Flags |-> Nil] EXCEPT !["sessionFetch"] = t]
    BY <1>1 DEF Scope!Open, Scope!Begin, Scope!Cleared
  <2>3. \A u \in Tasks : task'[u] \in Working => task'[u].number <= scope.number + 1
    BY <2>1, <2>2 DEF Working
  <2>4. \A u \in Tasks : task'[u] \in Working /\ task'[u].number = scope.number + 1 => u = t
    BY <2>1, <2>2 DEF Working
  <2>5. \A f \in Scope!Flags : flag'[f] # Nil => f = "sessionFetch" /\ flag'[f] = t
    BY <2>2
  <2>6. flag' \in [Scope!Flags -> Tasks \cup {Nil}]
    BY <2>2
  <2> QED
    BY <2>1, <2>2, <2>3, <2>4, <2>5, <2>6
<1>2. CASE Scope!SignOut
  <2>1. \A u \in Tasks : task[u] \in Working => task[u].number < scope.number + 1
    BY DEF Working
  <2> QED
    BY <1>2, <2>1 DEF Scope!SignOut, Scope!Cleared, Working
<1>3. ASSUME NEW t \in Tasks, Scope!Run(t) PROVE ScopeInv'
  <2> DEFINE new == [pc |-> "starting", number |-> scope.number, session |-> scope.session, flag |-> "analysis"]
  <2>1. new \in Working
    BY DEF Working, Scope!Flags
  <2>2. /\ UNCHANGED <<scope, screen, slot>> /\ task[t] = Scope!Idle
        /\ task' = [task EXCEPT ![t] = new] /\ flag' = [flag EXCEPT !["analysis"] = t]
    BY <1>3 DEF Scope!Run, Scope!Begin
  <2>3. slot # t
    BY <2>2 DEF Scope!Idle
  <2>4. \A f \in Scope!Flags : flag'[f] # Nil =>
          task'[flag'[f]] \in Working /\ task'[flag'[f]].number = scope'.number /\ task'[flag'[f]].flag = f
    BY <1>0, <2>1, <2>2
  <2>5. /\ task' \in [Tasks -> {Scope!Idle} \cup Working]
        /\ flag' \in [Scope!Flags -> Tasks \cup {Nil}]
    BY <2>1, <2>2
  <2>6. \A u \in Tasks : task'[u] \in Working =>
          /\ task'[u].number <= scope.number
          /\ task'[u].number = scope.number => task'[u].session = scope.session
    <3>1. new.number <= scope.number /\ new.session = scope.session
      OBVIOUS
    <3> HIDE DEF new
    <3> QED
      BY <2>2, <3>1
  <2>7. slot # Nil => task'[slot].pc = "polling" /\ task'[slot].number = scope.number
    BY <2>2, <2>3
  <2> HIDE DEF new
  <2> QED
    BY <2>2, <2>4, <2>5, <2>6, <2>7
<1>4. ASSUME NEW t \in Tasks, Scope!Loaded(t) PROVE ScopeInv'
  <2>1. task[t] \in Working /\ task[t].pc = "loading"
    BY <1>4, TaskEither DEF Scope!Loaded
  <2>2. screen' \in {Nil, scope.session} /\ slot' = slot /\ slot # t
    BY <1>4, <2>1 DEF Scope!Loaded
  <2> QED
    BY <1>4, <2>1, <2>2, ScopeEnd DEF Scope!Loaded
<1>5. ASSUME NEW t \in Tasks, Scope!Fails(t) PROVE ScopeInv'
  <2>1. task[t] \in Working /\ task[t].pc # "polling"
    BY <1>5, TaskEither DEF Scope!Fails
  <2> QED
    BY <1>5, <2>1, ScopeEnd DEF Scope!Fails
<1>6. ASSUME NEW t \in Tasks, Scope!PollEnds(t) PROVE ScopeInv'
  <2>1. task[t] \in Working
    BY <1>6, TaskEither DEF Scope!PollEnds
  <2>2. slot' \in {slot, Nil} /\ slot' # t
    BY <1>6 DEF Scope!PollEnds
  <2> QED
    BY <1>6, <2>1, <2>2, ScopeEnd DEF Scope!PollEnds
<1>7. ASSUME NEW t \in Tasks, Scope!Started(t) PROVE ScopeInv'
  <2>1. task[t] \in Working /\ task[t].pc = "starting"
    BY <1>7, TaskEither DEF Scope!Started
  <2>2. CASE Scope!End(t) /\ UNCHANGED slot
    BY <1>7, <2>1, <2>2, ScopeEnd DEF Scope!Started
  <2>3. CASE Scope!Current(t) /\ slot' = t /\ task' = [task EXCEPT ![t].pc = "polling"] /\ UNCHANGED flag
    <3> DEFINE new == [task[t] EXCEPT !.pc = "polling"]
    <3>1. new \in Working /\ new.pc = "polling" /\ new.number = task[t].number
                          /\ new.session = task[t].session /\ new.flag = task[t].flag
      BY <2>1 DEF Working
    <3>2. task' = [task EXCEPT ![t] = new]
      BY <2>3
    <3> HIDE DEF new
    <3> QED
      BY <1>7, <2>1, <2>3, <3>1, <3>2 DEF Scope!Started
  <2> QED
    BY <1>7, <2>2, <2>3 DEF Scope!Started
<1>8. ASSUME NEW t \in Tasks, Scope!Polled(t) PROVE ScopeInv'
  BY <1>8 DEF Scope!Polled
<1>9. CASE UNCHANGED Scope!vars
  BY <1>9 DEF Scope!vars
<1> QED
  BY <1>1, <1>2, <1>3, <1>4, <1>5, <1>6, <1>7, <1>8, <1>9 DEF Scope!Next

\* What is on the screen is of the session opened last, and no flag or progress
\* is left on by a task of another one, for any number of sessions opened and of
\* answers still on their way.
THEOREM ScreenStaysCurrent ==
  ASSUME ScopeAssumption
  PROVE  /\ Scope!Spec => []Scope!ScreenIsCurrent
         /\ WebSpec => []ScreenIsCurrent
<1>1. Scope!Init => ScopeInv
  BY DEF ScopeAssumption, Scope!Init, ScopeInv, Scope!Idle, Working
<1>2. ScopeInv /\ [Scope!Next]_(Scope!vars) => ScopeInv'
  BY ScopeStep
<1>3. ScopeInv => Scope!ScreenIsCurrent
  BY TaskEither DEF ScopeInv, Scope!ScreenIsCurrent
<1> DEFINE Mine == part = "scope" => ScopeInv
<1>4. WebInit => Mine
  BY <1>1 DEF WebInit
<1>5. Mine /\ [WebNext]_webVars => Mine'
  BY <1>2, Turn
<1>6. Mine => ScreenIsCurrent
  BY <1>3 DEF ScreenIsCurrent
<1> QED
  BY <1>1, <1>2, <1>3, <1>4, <1>5, <1>6, PTL DEF Scope!Spec, WebSpec

-----------------------------------------------------------------------------
\* Pages: one list of Livestorm's, read while it grows.
PageAssumption == /\ IsFiniteSet(Records) /\ Nil \notin Nat
                  /\ Requested \in Nat \ {0} /\ Largest \in Nat \ {0} /\ MaxPages \in Nat

Sent == Page!PageSize(Requested)

\* Whoever was listed when the fetch began, and is not read yet, stands behind
\* the pages read; unless the fetch is about to go back to one, which ends it.
\* The count is that of the list as it was then.
PageInv ==
  /\ list \in Seq(Records) /\ page \in Nat /\ seen \subseteq Nat
  /\ \A i, j \in DOMAIN list : list[i] = list[j] => i = j
  /\ first \subseteq Page!Listed /\ kept \subseteq Page!Listed /\ counted \subseteq Page!Listed
  /\ count # Page!NoCount => count = Cardinality(counted)
  /\ result = "reading" /\ page \notin seen =>
       \A i \in DOMAIN list : list[i] \in first \ kept => i > page * Sent
  /\ result = "listed" => first \subseteq kept

LEMMA PageCountsAgree ==
  ASSUME NEW S
  PROVE  Page!Cardinality(S) = Cardinality(S)
  BY Zenon DEF Page!Cardinality, Cardinality

LEMMA SentSize ==
  ASSUME PageAssumption
  PROVE  Sent \in Nat \ {0} /\ Page!Least(Sent, Largest) = Sent
  BY DEF PageAssumption, Sent, Page!PageSize, Page!Least

LEMMA PageInit == PageAssumption /\ Page!Init => PageInv
<1> SUFFICES ASSUME PageAssumption, Page!Init PROVE PageInv
  OBVIOUS
<1>1. Page!Cardinality(Records) \in Nat
  BY PageCountsAgree, FS_CardinalityType DEF PageAssumption
<1>2. PICK n \in 0..Page!Cardinality(Records) : list \in [1..n -> Records]
  BY DEF Page!Init
<1>3. n \in Nat /\ list \in Seq(Records)
  BY <1>1, <1>2
<1>4. \A i \in DOMAIN list : i > 0
  BY <1>2, <1>3
<1>5. /\ \A i, j \in DOMAIN list : list[i] = list[j] => i = j
      /\ first = Page!Listed /\ page = 0 /\ seen = {} /\ kept = {} /\ count = Page!NoCount
      /\ counted = {} /\ result = "reading"
  BY DEF Page!Init
<1>6. page * Sent = 0
  BY <1>5, SentSize
<1> QED
  BY <1>3, <1>4, <1>5, <1>6 DEF PageInv

\* A distinct list is as long as what it lists.
LEMMA LengthCounts ==
  ASSUME NEW S, NEW l \in Seq(S), \A i, j \in DOMAIN l : l[i] = l[j] => i = j
  PROVE  /\ IsFiniteSet({l[i] : i \in DOMAIN l})
         /\ Cardinality({l[i] : i \in DOMAIN l}) = Len(l)
<1> DEFINE T == {l[i] : i \in DOMAIN l}
<1>1. l \in Bijection(1..Len(l), T)
  <2>1. DOMAIN l = 1..Len(l) /\ l \in [1..Len(l) -> S]
    OBVIOUS
  <2>2. \A x \in T : \E i \in 1..Len(l) : l[i] = x
    BY <2>1
  <2>3. l \in [1..Len(l) -> T]
    BY <2>1
  <2> HIDE DEF T
  <2> QED
    BY <2>1, <2>2, <2>3 DEF Bijection, Injection, Surjection, IsInjective
<1>2. ExistsBijection(1..Len(l), T) /\ Len(l) \in Nat
  <2> HIDE DEF T
  <2> QED
    BY <1>1 DEF ExistsBijection
<1>3. IsFiniteSet(1..Len(l))
  BY <1>2, FS_Interval
<1> HIDE DEF T
<1>4. IsFiniteSet(T) /\ Cardinality(T) = Len(l)
  BY <1>2, <1>3, FS_Bijection, FS_CountingElements
<1> QED
  BY <1>4 DEF T

LEMMA GrowKeeps ==
  ASSUME PageAssumption, PageInv, NEW x \in Records, Page!Grow(x)
  PROVE  PageInv'
<1> USE DEF PageInv
<1>1. /\ result = "reading" /\ x \notin Page!Listed
      /\ UNCHANGED <<kind, states, first, page, seen, kept, count, counted, result>>
  BY DEF Page!Grow
<1>2. page * Sent \in Nat
  BY SentSize
<1>3. CASE list' = <<x>> \o list
  <2>1. list' \in Seq(Records) /\ Len(list') = Len(list) + 1 /\ list'[1] = x
    BY <1>3
  <2>2. \A i \in DOMAIN list' : i # 1 => i - 1 \in DOMAIN list /\ list'[i] = list[i - 1]
    BY <1>3
  <2>3. \A i \in DOMAIN list : list'[i + 1] = list[i] /\ i + 1 \in DOMAIN list'
    BY <1>3
  <2>4. Page!Listed \subseteq Page!Listed'
    BY <2>3 DEF Page!Listed
  <2>5. \A i, j \in DOMAIN list' : list'[i] = list'[j] => i = j
    <3>1. \A i \in DOMAIN list' : i # 1 => list'[i] # x
      BY <1>1, <2>2 DEF Page!Listed
    <3>2. \A i, j \in DOMAIN list' : i # 1 /\ j # 1 /\ list'[i] = list'[j] => i - 1 = j - 1
      BY <2>2
    <3>3. DOMAIN list' \subseteq Nat
      BY <2>1
    <3> QED
      BY <2>1, <3>1, <3>2, <3>3
  <2>6. ASSUME page' \notin seen', NEW i \in DOMAIN list', list'[i] \in first' \ kept'
        PROVE  i > page' * Sent'
    <3>1. i # 1
      BY <1>1, <2>1, <2>6
    <3>2. i - 1 \in DOMAIN list /\ list'[i] = list[i - 1]
      BY <2>2, <3>1
    <3>3. i - 1 > page * Sent
      BY <1>1, <2>6, <3>2
    <3>4. i \in Nat /\ Sent' = Sent
      BY <2>1 DEF Sent, Page!PageSize, Page!Least
    <3> QED
      BY <1>1, <1>2, <3>3, <3>4
  <2> QED
    BY <1>1, <2>1, <2>4, <2>5, <2>6 DEF Page!NoCount
<1>4. CASE list' = Append(list, x)
  <2>1. list' \in Seq(Records) /\ Len(list') = Len(list) + 1 /\ list'[Len(list) + 1] = x
    BY <1>4
  <2>2. \A i \in DOMAIN list' : i # Len(list) + 1 => i \in DOMAIN list /\ list'[i] = list[i]
    BY <1>4
  <2>3. \A i \in DOMAIN list : list'[i] = list[i] /\ i \in DOMAIN list'
    BY <1>4
  <2>4. Page!Listed \subseteq Page!Listed'
    BY <2>3 DEF Page!Listed
  <2>5. \A i, j \in DOMAIN list' : list'[i] = list'[j] => i = j
    <3>1. \A i \in DOMAIN list' : i # Len(list) + 1 => list'[i] # x
      BY <1>1, <2>2 DEF Page!Listed
    <3> QED
      BY <2>1, <2>2, <3>1
  <2>6. ASSUME page' \notin seen', NEW i \in DOMAIN list', list'[i] \in first' \ kept'
        PROVE  i > page' * Sent'
    <3>1. i # Len(list) + 1
      BY <1>1, <2>1, <2>6
    <3>2. i \in DOMAIN list /\ list'[i] = list[i]
      BY <2>2, <3>1
    <3>3. i > page * Sent
      BY <1>1, <2>6, <3>2
    <3>4. Sent' = Sent
      BY DEF Sent, Page!PageSize, Page!Least
    <3> QED
      BY <1>1, <3>3, <3>4
  <2> QED
    BY <1>1, <2>1, <2>4, <2>5, <2>6 DEF Page!NoCount
<1> QED
  BY <1>3, <1>4 DEF Page!Grow

LEMMA ReadKeeps ==
  ASSUME PageAssumption, PageInv, Page!Read
  PROVE  PageInv'
<1> USE DEF PageInv
<1> DEFINE from == page * Sent
           upto == Page!Least(from + Sent, Len(list))
           data == SubSeq(list, from + 1, upto)
           onward == from + Sent < Len(list)
<1>1. PICK answer \in Page!Answer :
        /\ kept' = kept \cup {answer.data[i] : i \in DOMAIN answer.data}
        /\ \/ count' = Len(list) /\ counted' = Page!Listed
           \/ UNCHANGED <<count, counted>>
        /\ seen' = seen \cup {page}
        /\ IF Page!Onward(answer) = Nil
           THEN result' = "listed" /\ UNCHANGED page
           ELSE page' = Page!Onward(answer) /\ UNCHANGED result
  BY DEF Page!Read
<1>2. result = "reading" /\ page \notin seen /\ UNCHANGED <<kind, states, list, first>>
  BY DEF Page!Read
<1>3. Sent \in Nat \ {0} /\ Page!Least(Sent, Largest) = Sent
  BY SentSize
<1>4. from \in Nat /\ upto \in Nat /\ upto <= Len(list) /\ upto <= from + Sent
      /\ (upto = Len(list) \/ upto = from + Sent)
  BY <1>3 DEF Page!Least
<1>5. /\ answer.data = data
      /\ answer.next \in IF states /\ onward THEN {page, page + 1} \cup seen ELSE {Nil}
  BY <1>3 DEF Page!Answer, Sent
<1>6. /\ Len(data) = IF from + 1 <= upto THEN upto - from ELSE 0
      /\ \A i \in 1..Len(data) : data[i] = list[from + i] /\ from + i \in DOMAIN list
      /\ DOMAIN data = 1..Len(data)
  BY <1>4
<1>7. \A i \in DOMAIN list : from < i /\ i <= upto => list[i] \in kept'
  <2> SUFFICES ASSUME NEW i \in DOMAIN list, from < i, i <= upto PROVE list[i] \in kept'
    OBVIOUS
  <2>1. i - from \in DOMAIN data /\ data[i - from] = list[i]
    BY <1>4, <1>6
  <2> HIDE DEF data
  <2> QED
    BY <1>1, <1>5, <2>1
<1>8. kept \subseteq kept' /\ kept' \subseteq Page!Listed
  <2> HIDE DEF data
  <2>1. \A i \in DOMAIN data : data[i] \in Page!Listed
    BY <1>6 DEF Page!Listed
  <2> QED
    BY <1>1, <1>5, <2>1
<1>9. \A i \in DOMAIN list : list[i] \in first \ kept' => i > upto
  <2> SUFFICES ASSUME NEW i \in DOMAIN list, list[i] \in first \ kept', ~(i > upto) PROVE FALSE
    OBVIOUS
  <2>1. i > from
    BY <1>2, <1>8
  <2>2. from < i /\ i <= upto
    BY <2>1, <1>4
  <2> QED
    BY <1>7, <2>2
<1> HIDE DEF data
<1>10. Page!Onward(answer) = Nil => upto = Len(list)
  <2> SUFFICES ASSUME Page!Onward(answer) = Nil PROVE upto = Len(list)
    OBVIOUS
  <2>1. answer.next = Nil
    BY DEF Page!Onward
  <2>2. CASE states
    <3>1. page + 1 \in Nat /\ {page, page + 1} \cup seen \subseteq Nat
      OBVIOUS
    <3>2. ~onward
      BY <1>5, <2>1, <2>2, <3>1 DEF PageAssumption
    <3> QED
      BY <1>3, <1>4, <3>2
  <2>3. CASE ~states
    <3>1. Len(data) < Sent \/ Nil = page + 1
      BY <1>5, <2>1, <2>3 DEF Page!Onward, Sent
    <3>2. Len(data) < Sent
      BY <3>1 DEF PageAssumption
    <3> QED
      <4> HIDE DEF from, upto
      <4> QED
        BY <3>2, <1>3, <1>4, <1>6
  <2> QED
    BY <2>2, <2>3
<1>11. Page!Onward(answer) # Nil => page' \in {page, page + 1} \cup seen
  BY <1>1, <1>5 DEF Page!Onward
<1>12. Page!Listed' = Page!Listed /\ Page!NoCount' = Page!NoCount
  BY <1>2 DEF Page!Listed, Page!NoCount
<1>13. count' # Page!NoCount => count' = Cardinality(counted')
  <2>1. Len(list) = Cardinality(Page!Listed)
    BY LengthCounts DEF Page!Listed
  <2> QED
    BY <1>1, <2>1
<1>14. result' = "listed" => first' \subseteq kept'
  <2> SUFFICES ASSUME result' = "listed", NEW x \in first, x \notin kept' PROVE FALSE
    BY <1>2
  <2>1. PICK i \in DOMAIN list : x = list[i]
    BY DEF Page!Listed
  <2>2. i > upto /\ upto = Len(list)
    BY <1>1, <1>2, <1>9, <1>10, <2>1
  <2> QED
    BY <2>2
<1>15. ASSUME result' = "reading", page' \notin seen', NEW i \in DOMAIN list', list'[i] \in first' \ kept'
       PROVE  i > page' * Sent'
  <2>1. page' = page + 1
    BY <1>1, <1>11, <1>15
  <2>2. i > upto /\ i \in DOMAIN list
    BY <1>2, <1>9, <1>15
  <2>3. upto = from + Sent
    BY <1>4, <2>2
  <2>4. (page + 1) * Sent = from + Sent
    BY <1>3
  <2>5. Sent' = Sent
    BY DEF Sent, Page!PageSize, Page!Least
  <2> QED
    BY <2>1, <2>2, <2>3, <2>4, <2>5
<1>16. page' \in Nat /\ seen' \subseteq Nat
  <2>1. page' \in {page, page + 1} \cup seen
    BY <1>1, <1>11
  <2>2. {page, page + 1} \cup seen \subseteq Nat
    OBVIOUS
  <2> QED
    BY <1>1, <2>1, <2>2
<1>17. counted' \subseteq Page!Listed'
  BY <1>1, <1>12
<1> HIDE DEF from, upto, onward
<1> QED
  BY <1>2, <1>8, <1>12, <1>13, <1>14, <1>15, <1>16, <1>17

\* A fetch that ends is whole: nobody listed when it began is missing, whatever
\* Livestorm adds meanwhile, and one called complete holds exactly who is on the
\* list, unless someone joined it after the last page with a count
\* (fetch_session_people, _pages).
THEOREM ListsAreWhole ==
  ASSUME PageAssumption
  PROVE  /\ Page!Spec => []Page!ListWhole
         /\ WebSpec => []ListWhole
<1>1. PageInv /\ [Page!Next]_(Page!vars) => PageInv'
  <2> SUFFICES ASSUME PageInv, [Page!Next]_(Page!vars) PROVE PageInv'
    OBVIOUS
  <2>1. CASE Page!Read
    BY <2>1, ReadKeeps
  <2>2. ASSUME NEW x \in Records, Page!Grow(x) PROVE PageInv'
    BY <2>2, GrowKeeps
  <2>3. ASSUME result' \notin {"reading", "listed"} \/ UNCHANGED result,
               UNCHANGED <<kind, states, list, first, page, seen, kept, count, counted>>
        PROVE  PageInv'
    BY <2>3 DEF PageInv, Page!Listed, Page!NoCount, Sent, Page!PageSize, Page!Least
  <2>4. CASE Page!Refuse \/ Page!Stop \/ Page!Late \/ Page!PageFails
    <3>1. result' \notin {"reading", "listed"}
      BY <2>4 DEF Page!Refuse, Page!Stop, Page!Late, Page!PageFails
    <3>2. UNCHANGED <<kind, states, list, first, page, seen, kept, count, counted>>
      BY <2>4 DEF Page!Refuse, Page!Stop, Page!Late, Page!PageFails
    <3> QED
      BY <2>3, <3>1, <3>2
  <2>5. CASE UNCHANGED Page!vars
    BY <2>3, <2>5 DEF Page!vars
  <2> QED
    BY <2>1, <2>2, <2>4, <2>5 DEF Page!Next
<1>2. PageInv => Page!ListWhole
  <2> SUFFICES ASSUME PageInv, result = "listed", Page!Complete, counted = Page!Listed
               PROVE  kept = counted
    BY DEF PageInv, Page!ListWhole
  <2>1. Cardinality(kept) = Cardinality(counted)
    BY PageCountsAgree DEF PageInv, Page!Complete
  <2>2. IsFiniteSet(counted) /\ kept \subseteq counted
    BY LengthCounts DEF PageInv, Page!Listed
  <2> QED
    BY <2>1, <2>2, FS_Subset
<1>3. Page!Init => PageInv
  BY PageInit
<1> DEFINE Mine == part = "page" => PageInv
<1>4. WebInit => Mine
  BY <1>3 DEF WebInit
<1>5. Mine /\ [WebNext]_webVars => Mine'
  BY <1>1, Turn
<1>6. Mine => ListWhole
  BY <1>2 DEF ListWhole
<1> QED
  BY <1>1, <1>2, <1>3, <1>4, <1>5, <1>6, PTL DEF Page!Spec, WebSpec

-----------------------------------------------------------------------------
\* Llm: the calls of jobs that run together, by the invariant of LlmProofs.

\* What LlmProofs names is what Web names: a module that is instantiated twice
\* is two sets of definitions to the provers.
LEMMA SameTotal ==
  ASSUME NEW f, NEW S
  PROVE  Calls!Total(f, S) = Call!Total(f, S)
  BY Zenon DEF Calls!Total, Call!Total, Calls!MapThenSumSet, Call!MapThenSumSet,
     Calls!MapThenFoldSet, Call!MapThenFoldSet

LEMMA SameSteps ==
  ASSUME NEW j
  PROVE  /\ Call!Check(j) <=> Calls!Check(j)
         /\ Call!CheckFails(j) <=> Calls!CheckFails(j)
         /\ Call!Answered(j) <=> Calls!Answered(j)
         /\ Call!Transient(j) <=> Calls!Transient(j)
         /\ Call!NotSentAgain(j) <=> Calls!NotSentAgain(j)
         /\ Call!Opens(j) <=> Calls!Opens(j)
         /\ Call!Fire(j) <=> Calls!Fire(j)
         /\ Call!StreamEnds(j) <=> Calls!StreamEnds(j)
         /\ Call!StreamBreaks(j) <=> Calls!StreamBreaks(j)
         /\ Call!Record(j) <=> Calls!Record(j)
         /\ Call!Decide(j) <=> Calls!Decide(j)
<1> USE DEF Call!At, Calls!At
<1>1. Call!MaySend(j) <=> Calls!MaySend(j)
  BY SameTotal DEF Call!MaySend, Calls!MaySend, Call!Spend, Calls!Spend
<1>2. Call!Check(j) <=> Calls!Check(j)
  BY <1>1 DEF Call!Check, Calls!Check
<1>3. /\ Call!CheckFails(j) <=> Calls!CheckFails(j)
      /\ Call!Transient(j) <=> Calls!Transient(j)
      /\ Call!NotSentAgain(j) <=> Calls!NotSentAgain(j)
  BY DEF Call!CheckFails, Calls!CheckFails, Call!Transient, Calls!Transient,
     Call!NotSentAgain, Calls!NotSentAgain
<1>4. Call!Answered(j) <=> Calls!Answered(j)
  BY DEF Call!Answered, Calls!Answered, Call!Hears, Calls!Hears, Call!Stops, Calls!Stops
<1>5. /\ Call!Opens(j) <=> Calls!Opens(j)
      /\ Call!Fire(j) <=> Calls!Fire(j)
  BY DEF Call!Opens, Calls!Opens, Call!Fire, Calls!Fire
<1>6. Call!StreamEnds(j) <=> Calls!StreamEnds(j)
  BY DEF Call!StreamEnds, Calls!StreamEnds, Call!Fired, Calls!Fired, Call!Hears, Calls!Hears,
     Call!Stops, Calls!Stops
<1>7. Call!StreamBreaks(j) <=> Calls!StreamBreaks(j)
  BY DEF Call!StreamBreaks, Calls!StreamBreaks, Call!Fired, Calls!Fired
<1>8. Call!Record(j) <=> Calls!Record(j)
  BY DEF Call!Record, Calls!Record, Call!Outcome, Calls!Outcome, Call!Last, Calls!Last
<1>9. Call!Decide(j) <=> Calls!Decide(j)
  BY DEF Call!Decide, Calls!Decide, Call!Retries, Calls!Retries, Call!EndOf, Calls!EndOf,
     Call!Last, Calls!Last
<1> QED
  BY <1>2, <1>3, <1>4, <1>5, <1>6, <1>7, <1>8, <1>9

LEMMA SameCalls ==
  /\ Call!Init => Calls!Init
  /\ [Call!Next]_(Call!vars) => [Calls!Next]_(Calls!vars)
  /\ Calls!LedgerTellsAll => Call!LedgerTellsAll
  /\ Calls!OvershootBounded => Call!OvershootBounded
<1>1. Call!Init => Calls!Init
  BY DEF Call!Init, Calls!Init
<1>2. [Call!Next]_(Call!vars) => [Calls!Next]_(Calls!vars)
  BY SameSteps DEF Call!Next, Calls!Next, Call!vars, Calls!vars
<1>3. Calls!LedgerTellsAll => Call!LedgerTellsAll
  BY DEF Call!LedgerTellsAll, Calls!LedgerTellsAll, Call!Outcome, Calls!Outcome, Call!Last, Calls!Last,
     Call!Ends, Calls!Ends
<1>4. Calls!OvershootBounded => Call!OvershootBounded
  <2>1. ASSUME NEW S PROVE Call!Cardinality(S) = Calls!Cardinality(S)
    BY Zenon DEF Call!Cardinality, Calls!Cardinality
  <2> QED
    BY <2>1, SameTotal DEF Call!OvershootBounded, Calls!OvershootBounded
<1> QED
  BY <1>1, <1>2, <1>3, <1>4

LEMMA CallsStand ==
  ASSUME Calls!LlmAssumption
  PROVE  WebSpec => [](part = "call" => Calls!LlmInv)
<1> DEFINE Mine == part = "call" => Calls!LlmInv
<1>1. WebInit => Mine
  BY Calls!LlmStart, SameCalls DEF WebInit
<1>2. Mine /\ [WebNext]_webVars => Mine'
  BY Calls!LlmStep, SameCalls, Turn
<1> QED
  BY <1>1, <1>2, PTL DEF WebSpec

\* What is saved was answered whole and in time, and the ledger or a logged error
\* tells every answer, where the calls are one machine of several (call_llm).
THEOREM CallsAreTold ==
  ASSUME Calls!LlmAssumption
  PROVE  WebSpec => []LedgerTellsAll
<1>1. (part = "call" => Calls!LlmInv) => LedgerTellsAll
  BY Calls!LedgerTold, SameCalls DEF LedgerTellsAll
<1> QED
  BY <1>1, CallsStand, PTL

\* Jobs that run together pass the daily budget by one call each, where the
\* calls are one machine of several (check_org_budget).
THEOREM CallsInBudget ==
  ASSUME Calls!LlmAssumption
  PROVE  WebSpec => []OvershootBounded
<1>1. (part = "call" => Calls!LlmInv) => OvershootBounded
  BY Calls!BudgetKept, SameCalls DEF OvershootBounded
<1> QED
  BY <1>1, CallsStand, PTL

-----------------------------------------------------------------------------
\* Backfills: the maintenance scripts next to the app.
Row == [base : Nat \cup {-1}, links : BOOLEAN, stamp : Nat, event : BOOLEAN, recap : BOOLEAN,
        cover : BOOLEAN, org : BOOLEAN]
Gone == Backfill!None

BackfillAssumption ==
  /\ Sessions \subseteq Nat \ {0} /\ IsFiniteSet(Sessions)
  /\ Legacy \subseteq {r \in Row : r.stamp = 0} \cup {Gone}
  /\ BatchSize \in Nat /\ MaxSaves \in Nat

\* While the join-link script runs: a row of its batch that has not been saved
\* since has the payloads it was read with; and, as long as it has skipped none,
\* the rows it has gone past that still have a link are in its batch.
BackfillInv ==
  /\ row \in [Sessions -> Row \cup {Gone}] /\ latest \in [Sessions -> Int]
  /\ now \in Nat /\ after \in Nat
  /\ \A s \in Sessions : row[s] # Gone => row[s].stamp <= now /\ row[s].base = latest[s]
  /\ script = "links" => \A s \in DOMAIN todo :
       /\ s \in Sessions /\ todo[s] \in Row /\ todo[s].stamp <= now
       /\ row[s] # Gone /\ row[s].stamp = todo[s].stamp => row[s].base = todo[s].base
       /\ row[s] # Gone /\ row[s].links => todo[s].links
  /\ script = "links" /\ ~skipped => \A s \in Sessions :
       row[s] # Gone /\ row[s].links /\ s <= after => s \in DOMAIN todo
  /\ clean => \A s \in Sessions : row[s] # Gone => ~row[s].links

LEMMA GoneNotRow == Gone \notin Row
  BY DEF Gone, Backfill!None, Row

\* What a step makes of a row: it is gone, as it was read, or stamped anew; and
\* no step gives a row a join link.
Moved(s) ==
  \/ row'[s] = Gone
  \/ /\ row'[s] \in Row /\ row'[s].base = latest'[s]
     /\ row'[s].links => row[s] # Gone /\ row[s].links
     /\ \/ row'[s].stamp = now' /\ now' = now + 1
        \/ row[s] # Gone /\ row'[s].stamp = row[s].stamp /\ row'[s].base = row[s].base

RowsMoved == /\ row' \in [Sessions -> Row \cup {Gone}] /\ latest' \in [Sessions -> Int]
             /\ now' \in {now, now + 1}
             /\ \A s \in Sessions : Moved(s)

\* Rows that are stamped anew, or not moved, leave a script's batch as it is.
LEMMA BatchKept ==
  ASSUME BackfillInv, RowsMoved, UNCHANGED script, after' = after,
         DOMAIN todo' \subseteq DOMAIN todo, \A s \in DOMAIN todo' : todo'[s] = todo[s],
         \A s \in DOMAIN todo \ DOMAIN todo' :
           script = "links" => skipped' \/ row'[s] = Gone \/ ~row'[s].links,
         skipped => skipped', clean' = clean
  PROVE  BackfillInv'
<1> USE DEF BackfillInv, RowsMoved, Moved
<1>1. \A s \in Sessions : row'[s] # Gone => row'[s].stamp <= now' /\ row'[s].base = latest'[s]
  BY GoneNotRow DEF Row
<1>2. ASSUME script = "links", NEW s \in DOMAIN todo'
      PROVE  /\ s \in Sessions /\ todo'[s] \in Row /\ todo'[s].stamp <= now'
             /\ row'[s] # Gone /\ row'[s].stamp = todo'[s].stamp => row'[s].base = todo'[s].base
             /\ row'[s] # Gone /\ row'[s].links => todo'[s].links
  BY <1>2, GoneNotRow DEF Row
<1>3. ASSUME script = "links", ~skipped', NEW s \in Sessions,
             row'[s] # Gone, row'[s].links, s <= after
      PROVE  s \in DOMAIN todo'
  BY <1>3
<1>4. clean => \A s \in Sessions : row'[s] # Gone => ~row'[s].links
  OBVIOUS
<1>5. now' \in Nat /\ after' \in Nat
  OBVIOUS
<1> HIDE DEF RowsMoved, Moved
<1> QED
  BY <1>1, <1>2, <1>3, <1>4, <1>5 DEF RowsMoved

\* Rows that move leave nothing behind when no join-link run is on its way.
LEMMA NoBatch ==
  ASSUME BackfillAssumption, BackfillInv, RowsMoved, after' \in Nat,
         script' = "links" => after' = 0 /\ DOMAIN todo' = {},
         clean' => clean \/ \A s \in Sessions : row[s] # Gone => ~row[s].links
  PROVE  BackfillInv'
<1> USE DEF BackfillInv, RowsMoved, Moved
<1>1. \A s \in Sessions : row'[s] # Gone => row'[s].stamp <= now' /\ row'[s].base = latest'[s]
  BY GoneNotRow DEF Row
<1>2. clean' => \A s \in Sessions : row'[s] # Gone => ~row'[s].links
  OBVIOUS
<1>3. script' = "links" => \A s \in Sessions : ~(s <= after')
  BY DEF BackfillAssumption
<1>4. now' \in Nat
  OBVIOUS
<1> HIDE DEF RowsMoved, Moved
<1> QED
  BY <1>1, <1>2, <1>3, <1>4 DEF RowsMoved

LEMMA BackfillCountsAgree ==
  ASSUME NEW S
  PROVE  Backfill!Cardinality(S) = Cardinality(S)
  BY Zenon DEF Backfill!Cardinality, Cardinality

\* A batch that is scanned is the rows that come next: none is passed over.
LEMMA BatchIsNext ==
  ASSUME BackfillAssumption, BackfillInv, Backfill!Batch # {}
  PROVE  LET last == CHOOSE s \in Backfill!Batch : \A t \in Backfill!Batch : t <= s
         IN  /\ last \in Backfill!Batch
             /\ \A s \in Sessions : row[s] # Gone /\ after < s /\ s <= last => s \in Backfill!Batch
<1> DEFINE Upto(s) == {t \in Backfill!There : after < t /\ t <= s}
<1>0. \A s : s \in Backfill!Batch <=> s \in Backfill!There /\ s > after /\ Cardinality(Upto(s)) <= BatchSize
  BY BackfillCountsAgree DEF Backfill!Batch
<1>1. Backfill!There \subseteq Sessions /\ Sessions \subseteq Nat /\ IsFiniteSet(Sessions)
  BY DEF Backfill!There, BackfillAssumption
<1>2. \A s : IsFiniteSet(Upto(s))
  BY <1>1, FS_Subset
<1>3. Backfill!Batch \subseteq Sessions /\ IsFiniteSet(Backfill!Batch)
  BY <1>1, FS_Subset DEF Backfill!Batch
<1>4. \E s \in Backfill!Batch : \A t \in Backfill!Batch : t <= s
  <2> DEFINE Above(s) == {t \in Backfill!Batch : s <= t}
             Sets == {Above(s) : s \in Backfill!Batch}
  <2>1. PICK T \in Sets : \A U \in Sets : U \subseteq T => U = T
    <3>1. Sets \subseteq SUBSET Backfill!Batch /\ Sets # {}
      OBVIOUS
    <3> HIDE DEF Sets
    <3> QED BY <3>1, <1>3, MinimalSubset
  <2>2. PICK s \in Backfill!Batch : T = Above(s)
    OBVIOUS
  <2>3. ASSUME NEW t \in Backfill!Batch, ~(t <= s)
        PROVE  FALSE
    <3>1. t \in Nat /\ s \in Nat /\ Backfill!Batch \subseteq Nat
      BY <1>1, <1>3
    <3>2. Above(t) \subseteq Above(s)
      <4>1. ASSUME NEW u \in Above(t) PROVE u \in Backfill!Batch /\ s <= u
        <5>1. u \in Backfill!Batch /\ t <= u
          OBVIOUS
        <5>2. u \in Nat
          BY <5>1, <3>1
        <5> HIDE DEF Above, Sets
        <5> QED BY <5>1, <5>2, <2>3, <3>1
      <4> QED BY <4>1
    <3>4. s \in Above(s) /\ s \notin Above(t)
      BY <2>3, <3>1
    <3>3. Above(t) \in Sets
      OBVIOUS
    <3> HIDE DEF Above, Sets
    <3> QED BY <3>2, <3>3, <3>4, <2>1, <2>2
  <2> QED BY <2>3
<1>5. PICK last \in Backfill!Batch : /\ \A t \in Backfill!Batch : t <= last
                                     /\ last = CHOOSE s \in Backfill!Batch : \A t \in Backfill!Batch : t <= s
  BY <1>4
<1>6. ASSUME NEW s \in Sessions, row[s] # Gone, after < s, s <= last
      PROVE  s \in Backfill!Batch
  <2>0. s > after
    BY <1>1, <1>6 DEF BackfillInv
  <2>1. s \in Backfill!There
    BY <1>6 DEF Backfill!There, Gone
  <2>2. Upto(s) \subseteq Upto(last)
    <3>1. s \in Nat /\ last \in Nat
      BY <1>1, <1>3
    <3>2. ASSUME NEW t \in Backfill!There, t <= s PROVE t <= last
      <4>1. t \in Nat
        BY <1>1
      <4> QED BY <4>1, <3>1, <3>2, <1>6
    <3> QED BY <3>2
  <2>3. Cardinality(Upto(s)) <= Cardinality(Upto(last))
    <3> HIDE DEF Upto
    <3> QED BY <2>2, <1>2, FS_Subset
  <2>4. Cardinality(Upto(last)) <= BatchSize
    BY <1>0
  <2>5. Cardinality(Upto(s)) \in Nat /\ Cardinality(Upto(last)) \in Nat
    BY <1>2, FS_CardinalityType
  <2>6. Cardinality(Upto(s)) <= BatchSize
    <3> HIDE DEF Upto
    <3> QED BY <2>3, <2>4, <2>5 DEF BackfillAssumption
  <2> QED BY <2>0, <2>1, <2>6, <1>0
<1> QED BY <1>5, <1>6

LEMMA BackfillInit == BackfillAssumption /\ Backfill!Init => BackfillInv
<1> SUFFICES ASSUME BackfillAssumption, Backfill!Init PROVE BackfillInv
  OBVIOUS
<1>1. \A s \in Sessions : row[s] \in Row \cup {Gone} /\ row[s] # Gone => row[s].stamp = 0
  BY DEF Backfill!Init, BackfillAssumption
<1>2. \A r \in Row \cup {Gone} : r.base \in Int
  BY DEF Row, Gone, Backfill!None
<1>3. latest = [s \in Sessions |-> row[s].base] /\ row \in [Sessions -> Row \cup {Gone}]
  BY DEF Backfill!Init, BackfillAssumption
<1>4. \A s \in Sessions : latest[s] = row[s].base /\ latest[s] \in Int
  BY <1>2, <1>3
<1>5. now = 0 /\ after = 0 /\ script = "none" /\ clean = FALSE
  BY DEF Backfill!Init
<1> QED
  BY <1>1, <1>3, <1>4, <1>5 DEF BackfillInv

\* Whatever row of one session an action writes, the others are where they were.
LEMMA OneMoves ==
  ASSUME BackfillInv, NEW s \in Sessions, NEW r, row' = [row EXCEPT ![s] = r],
         latest' \in [Sessions -> Int], \A t \in Sessions \ {s} : latest'[t] = latest[t],
         now' \in {now, now + 1}, r \in Row \cup {Gone},
         r # Gone => /\ r.base = latest'[s]
                     /\ r.links => row[s] # Gone /\ row[s].links
                     /\ \/ r.stamp = now' /\ now' = now + 1
                        \/ row[s] # Gone /\ r.stamp = row[s].stamp /\ r.base = row[s].base
  PROVE  RowsMoved
<1>1. Moved(s)
  BY DEF Moved, BackfillInv
<1>2. ASSUME NEW t \in Sessions \ {s} PROVE Moved(t)
  BY <1>2 DEF Moved, BackfillInv
<1> QED
  BY <1>1, <1>2 DEF RowsMoved, BackfillInv

LEMMA BackfillStep ==
  ASSUME BackfillAssumption, BackfillInv, Backfill!Next
  PROVE  BackfillInv'
<1>1. ASSUME NEW s \in Sessions, Backfill!Fetch(s) PROVE BackfillInv'
  <2> DEFINE was == IF row[s] = Gone THEN [recap |-> FALSE, cover |-> FALSE] ELSE row[s]
             r == [base |-> now + 1, links |-> FALSE, stamp |-> now + 1, event |-> TRUE,
                   recap |-> was.recap, cover |-> was.cover, org |-> TRUE]
  <2>1. row' = [row EXCEPT ![s] = r]
    BY <1>1 DEF Backfill!Fetch, Gone
  <2>6. was.recap \in BOOLEAN /\ was.cover \in BOOLEAN
    BY DEF BackfillInv, Row
  <2> HIDE DEF was
  <2>2. r \in Row
    BY <2>6 DEF BackfillInv, Row
  <2>3. r.base = now + 1 /\ r.links = FALSE /\ r.stamp = now + 1
    OBVIOUS
  <2>4. /\ latest' = [latest EXCEPT ![s] = now + 1] /\ now' = now + 1
        /\ UNCHANGED <<script, after, todo, skipped, clean>>
    BY <1>1 DEF Backfill!Fetch
  <2> HIDE DEF r
  <2>5. /\ latest' \in [Sessions -> Int] /\ latest'[s] = now + 1
        /\ \A t \in Sessions \ {s} : latest'[t] = latest[t]
    BY <2>4 DEF BackfillInv
  <2>7. RowsMoved
    BY <2>1, <2>2, <2>3, <2>4, <2>5, OneMoves
  <2> QED
    BY <2>4, <2>7, BatchKept
<1>2. ASSUME NEW s \in Sessions, row[s] # Gone, Backfill!Merge(s), latest' = latest PROVE RowsMoved
  <2> DEFINE r == [[row[s] EXCEPT !.recap = TRUE] EXCEPT !.stamp = now + 1]
  <2>1. row' = [row EXCEPT ![s] = r]
    BY <1>2 DEF Backfill!Merge, BackfillInv
  <2>4. row[s] \in Row /\ now + 1 \in Nat
    BY <1>2 DEF BackfillInv
  <2>2. r \in Row /\ r.base = row[s].base /\ r.links = row[s].links /\ r.stamp = now + 1
    BY <2>4 DEF Row
  <2>3. now' = now + 1
    BY <1>2 DEF Backfill!Merge
  <2> HIDE DEF r
  <2> QED
    BY <1>2, <2>1, <2>2, <2>3, OneMoves DEF BackfillInv
<1>3. ASSUME NEW s \in Sessions, Backfill!JobSaves(s) PROVE BackfillInv'
  <2>1. row[s] # Gone /\ Backfill!Merge(s) /\ UNCHANGED <<latest, script, after, todo, skipped, clean>>
    BY <1>3 DEF Backfill!JobSaves, Backfill!There, Gone
  <2> QED
    BY <1>2, <2>1, BatchKept
<1>4. ASSUME NEW s \in Sessions, Backfill!Delete(s) PROVE BackfillInv'
  <2>1. /\ row' = [row EXCEPT ![s] = Gone] /\ latest' = [latest EXCEPT ![s] = Gone.base]
        /\ UNCHANGED <<now, script, after, todo, skipped, clean>>
    BY <1>4 DEF Backfill!Delete, Gone
  <2>2. Gone.base \in Int
    BY DEF Gone, Backfill!None
  <2>3. RowsMoved
    BY <2>1, <2>2, OneMoves DEF BackfillInv
  <2> QED
    BY <2>1, <2>3, BatchKept
<1>5. ASSUME NEW s \in Sessions, NEW event \in BOOLEAN, NEW cover \in BOOLEAN,
             Backfill!Upsert(s, event, cover)
      PROVE  RowsMoved
  <2> DEFINE was == IF row[s] = Gone THEN Backfill!Ghost ELSE row[s]
             e == was.event \/ event
             c == was.cover \/ cover
             r == [was EXCEPT !.stamp = now + 1, !.event = e, !.cover = c]
  <2>1. row' = [row EXCEPT ![s] = r] /\ latest' = [latest EXCEPT ![s] = was.base] /\ now' = now + 1
    BY <1>5 DEF Backfill!Upsert, Gone
  <2>2. was \in Row /\ (was.links => row[s] # Gone /\ row[s].links)
    BY DEF BackfillInv, Row, Backfill!Ghost, Backfill!NoBase
  <2>5. e \in BOOLEAN /\ c \in BOOLEAN /\ now + 1 \in Nat
    BY <2>2 DEF BackfillInv, Row
  <2> HIDE DEF was, e, c
  <2>3. r \in Row /\ r.base = was.base /\ r.links = was.links /\ r.stamp = now + 1
    BY <2>2, <2>5 DEF Row
  <2>4. was.base \in Int
    BY <2>2 DEF Row
  <2> HIDE DEF r
  <2> QED
    BY <2>1, <2>2, <2>3, <2>4, OneMoves DEF BackfillInv
<1>6. UNCHANGED <<row, latest, now>> => RowsMoved
  BY DEF RowsMoved, Moved, BackfillInv
<1>7. ASSUME NEW s \in Sessions, Backfill!Done(s), s \in DOMAIN todo
      PROVE  /\ DOMAIN todo' = DOMAIN todo \ {s}
             /\ \A t \in DOMAIN todo' : todo'[t] = todo[t]
  BY <1>7 DEF Backfill!Done
<1>8. ASSUME NEW s \in Sessions, Backfill!Strip(s) PROVE BackfillInv'
  <2>1. /\ script = "links" /\ s \in DOMAIN todo /\ Backfill!Done(s)
        /\ UNCHANGED <<latest, now, script, after, clean>>
    BY <1>8 DEF Backfill!Strip
  <2>2. DOMAIN todo' = DOMAIN todo \ {s} /\ \A t \in DOMAIN todo' : todo'[t] = todo[t]
    BY <2>1, <1>7
  <2>3. CASE ~todo[s].links
    <3>1. UNCHANGED <<row, skipped>>
      BY <1>8, <2>3 DEF Backfill!Strip
    <3>2. row[s] = Gone \/ ~row[s].links
      BY <2>1, <2>3 DEF BackfillInv
    <3> QED
      BY <3>1, <3>2, <2>1, <2>2, <1>6, BatchKept
  <2>4. CASE todo[s].links /\ Backfill!UnchangedSince(s)
    <3> DEFINE r == [[row[s] EXCEPT !.base = todo[s].base] EXCEPT !.links = FALSE]
    <3>1. row[s] # Gone /\ row[s].stamp = todo[s].stamp
      BY <2>4 DEF Backfill!UnchangedSince, Gone
    <3>2. row[s] \in Row /\ todo[s] \in Row /\ row[s].base = todo[s].base
      BY <2>1, <3>1 DEF BackfillInv
    <3>3. row' = [row EXCEPT ![s] = r] /\ UNCHANGED skipped
      BY <1>8, <2>4 DEF Backfill!Strip, BackfillInv
    <3>4. r \in Row /\ r.base = row[s].base /\ r.links = FALSE /\ r.stamp = row[s].stamp
      BY <3>2 DEF Row
    <3> HIDE DEF r
    <3>5. RowsMoved
      BY <3>1, <3>3, <3>4, <2>1, OneMoves DEF BackfillInv
    <3>6. ~row'[s].links
      BY <3>3, <3>4 DEF BackfillInv
    <3> QED
      BY <3>3, <3>5, <3>6, <2>1, <2>2, BatchKept
  <2>5. CASE todo[s].links /\ ~Backfill!UnchangedSince(s)
    <3>1. skipped' = TRUE /\ UNCHANGED row
      BY <1>8, <2>5 DEF Backfill!Strip
    <3> QED
      BY <3>1, <2>1, <2>2, <1>6, BatchKept
  <2> QED
    BY <2>3, <2>4, <2>5
<1>9. ASSUME NEW s \in Sessions, Backfill!Fill(s) PROVE BackfillInv'
  <2>1. /\ script # "links" /\ s \in DOMAIN todo /\ Backfill!Done(s)
        /\ UNCHANGED <<script, after, clean>>
    BY <1>9 DEF Backfill!Fill
  <2>3. skipped => skipped'
    BY <1>9, Zenon DEF Backfill!Fill
  <2>2. RowsMoved
    <3>1. CASE UNCHANGED <<row, latest, now>>
      BY <3>1, <1>6
    <3>2. CASE Backfill!Upsert(s, TRUE, FALSE)
      BY <3>2, <1>5
    <3>3. CASE s \in Backfill!There /\ Backfill!Merge(s) /\ UNCHANGED latest
      BY <3>3, <1>2 DEF Backfill!There, Gone
    <3>4. CASE Backfill!Upsert(s, FALSE, TRUE)
      BY <3>4, <1>5
    <3> QED
      BY <1>9, <3>1, <3>2, <3>3, <3>4 DEF Backfill!Fill
  <2> QED
    BY <2>1, <2>2, <2>3, <1>7, BatchKept
<1>10. ASSUME NEW k \in Backfill!Scripts, Backfill!Start(k) PROVE BackfillInv'
  <2>1. /\ script' = k /\ after' = 0 /\ todo' = [s \in Backfill!Needs(k) |-> Gone]
        /\ (clean' => clean) /\ UNCHANGED <<row, latest, now>>
    BY <1>10 DEF Backfill!Start, Gone
  <2>2. k = "links" => Backfill!Needs(k) = {}
    BY DEF Backfill!Needs
  <2> QED
    BY <2>1, <2>2, <1>6, NoBatch
<1>11. ASSUME Backfill!Stop PROVE BackfillInv'
  <2>1. script' = "none" /\ after' = after /\ clean' = clean /\ UNCHANGED <<row, latest, now>>
    BY <1>11 DEF Backfill!Stop
  <2> QED
    BY <2>1, <1>6, NoBatch DEF BackfillInv
<1>12. ASSUME Backfill!Finish PROVE BackfillInv'
  <2>1. script' = "none" /\ after' = after /\ UNCHANGED <<row, latest, now>>
    BY <1>12 DEF Backfill!Finish
  <2>2. ASSUME script = "links", ~skipped, NEW s \in Sessions, row[s] # Gone PROVE ~row[s].links
    <3>1. s <= after /\ DOMAIN todo = {}
      BY <1>12, <2>2 DEF Backfill!Finish, Backfill!There, Backfill!Empty, Gone
    <3> QED
      BY <2>2, <3>1 DEF BackfillInv
  <2>3. clean' => clean \/ \A s \in Sessions : row[s] # Gone => ~row[s].links
    BY <1>12, <2>2 DEF Backfill!Finish
  <2> QED
    BY <2>1, <2>3, <1>6, NoBatch DEF BackfillInv
<1>13. ASSUME Backfill!ScanBatch PROVE BackfillInv'
  <2>1. /\ script = "links" /\ DOMAIN todo = {} /\ Backfill!Batch # {}
        /\ todo' = [s \in Backfill!Batch |-> row[s]]
        /\ after' = CHOOSE s \in Backfill!Batch : \A t \in Backfill!Batch : t <= s
        /\ UNCHANGED <<row, latest, now, script, skipped, clean>>
    BY <1>13 DEF Backfill!ScanBatch, Backfill!Empty
  <2>2. /\ after' \in Backfill!Batch
        /\ \A s \in Sessions : row[s] # Gone /\ after < s /\ s <= after' => s \in Backfill!Batch
    BY <2>1, BatchIsNext
  <2>3. \A s \in Backfill!Batch : s \in Sessions /\ row[s] # Gone /\ row[s] \in Row
    BY DEF Backfill!Batch, Backfill!There, Gone, BackfillInv
  <2>4. after' \in Nat /\ after \in Nat /\ Sessions \subseteq Nat
    BY <2>2, <2>3 DEF BackfillAssumption, BackfillInv
  <2>5. ASSUME ~skipped', NEW s \in Sessions, row'[s] # Gone, row'[s].links, s <= after'
        PROVE  s \in DOMAIN todo'
    <3>1. ~(s <= after)
      BY <2>1, <2>5 DEF BackfillInv
    <3>2. after < s
      BY <2>4, <3>1
    <3> QED
      BY <2>1, <2>2, <2>5, <3>2
  <2>6. ASSUME NEW s \in DOMAIN todo'
        PROVE  /\ s \in Sessions /\ todo'[s] \in Row /\ todo'[s].stamp <= now' /\ todo'[s] = row'[s]
    BY <2>1, <2>3 DEF BackfillInv
  <2> QED
    BY <2>1, <2>4, <2>5, <2>6 DEF BackfillInv
<1>14. ASSUME Backfill!FillOrganization PROVE BackfillInv'
  <2>1. /\ row' = [s \in Sessions |-> IF row[s] # Gone THEN [row[s] EXCEPT !.org = TRUE] ELSE Gone]
        /\ script' = "none" /\ UNCHANGED <<latest, now, after, todo, skipped, clean>>
    BY <1>14 DEF Backfill!FillOrganization, Backfill!There, Gone
  <2>2. ASSUME NEW s \in Sessions, row[s] # Gone
        PROVE  /\ row'[s] = [row[s] EXCEPT !.org = TRUE] /\ row'[s] \in Row
               /\ row'[s].base = row[s].base /\ row'[s].links = row[s].links
               /\ row'[s].stamp = row[s].stamp
    BY <2>1, <2>2 DEF BackfillInv, Row
  <2>3. ASSUME NEW s \in Sessions PROVE Moved(s)
    <3>1. CASE row[s] = Gone
      BY <2>1, <3>1 DEF Moved
    <3>2. CASE row[s] # Gone
      BY <2>1, <2>2, <3>2 DEF Moved, BackfillInv
    <3> QED
      BY <3>1, <3>2
  <2>4. RowsMoved
    BY <2>1, <2>2, <2>3 DEF RowsMoved, BackfillInv
  <2> QED
    BY <2>1, <2>4, NoBatch DEF BackfillInv
<1> QED
  BY <1>1, <1>3, <1>4, <1>8, <1>9, <1>10, <1>11, <1>12, <1>13, <1>14 DEF Backfill!Next

\* However the app's saves fall between a script's read of a row and its write,
\* no script puts back a payload that a fetch has replaced, and a complete run
\* that skipped none leaves no join link (rewrite_base_payloads).
THEOREM NoScriptPutsBack ==
  ASSUME BackfillAssumption
  PROVE  /\ Backfill!Spec => []Backfill!NothingPutBack
         /\ WebSpec => []NothingPutBack
<1>1. BackfillInv /\ UNCHANGED Backfill!vars => BackfillInv'
  BY DEF BackfillInv, Backfill!vars
<1>2. BackfillInv => Backfill!NothingPutBack
  BY DEF BackfillInv, Backfill!NothingPutBack, Backfill!There, Gone
<1>3. Backfill!Init => BackfillInv
  BY BackfillInit
<1>4. BackfillInv /\ [Backfill!Next]_(Backfill!vars) => BackfillInv'
  BY BackfillStep, <1>1
<1> DEFINE Mine == part = "backfill" => BackfillInv
<1>5. WebInit => Mine
  BY <1>3 DEF WebInit
<1>6. Mine /\ [WebNext]_webVars => Mine'
  BY <1>4, Turn
<1>7. Mine => NothingPutBack
  BY <1>2 DEF NothingPutBack
<1> QED
  BY <1>2, <1>3, <1>4, <1>5, <1>6, <1>7, PTL DEF Backfill!Spec, WebSpec

-----------------------------------------------------------------------------
\* Connections: one row, refreshed by all at once.
TokenAssumption == MaxTokens \in Nat

Writing(p) == proc[p].pc = "write"
Exchanging(p) == proc[p].pc = "exchange"

\* Nobody has a token that Livestorm has still to issue.
ReadsPast ==
  /\ stored # Token!NoRow => stored <= live
  /\ \A p \in Refreshers : Exchanging(p) => proc[p].read <= live

\* A token got and not yet written is the accepted one.
WritesLive == \A p \in Refreshers : Writing(p) => proc[p].got = live

\* While a rotated token waits to be written, nobody else can get one: the
\* row's is dead, and so is every token read from it.
OneWriter ==
  rotates => \A p \in Refreshers : Writing(p) =>
    /\ stored # live
    /\ \A q \in Refreshers : Exchanging(q) => proc[q].read # live
    /\ \A q \in Refreshers \ {p} : ~Writing(q)

RowOrWriter ==
  \/ stored \in {Token!NoRow, live}
  \/ rotates /\ \E p \in Refreshers : Writing(p)

TokenInv == Token!TypeOK /\ (~lost => ReadsPast /\ WritesLive /\ OneWriter /\ RowOrWriter)

-----------------------------------------------------------------------------
Flags == rotates \in BOOLEAN /\ stale \in BOOLEAN /\ lost \in BOOLEAN
Numbers == stored \in Token!Tokens \cup {Token!NoRow} /\ live \in Token!Tokens
Places == proc \in [Refreshers -> [pc : {"idle", "exchange", "write"}, read : Token!Tokens, got : Token!Tokens]]

LEMMA ShapesInit == TokenAssumption /\ Token!Init => Token!TypeOK
<1> SUFFICES ASSUME TokenAssumption, Token!Init PROVE Token!TypeOK
  OBVIOUS
<1>1. Flags
  BY Zenon DEF Token!Init, Flags
<1>2. Numbers
  BY DEF TokenAssumption, Token!Init, Numbers, Token!Tokens
<1>3. Places
  BY DEF TokenAssumption, Token!Init, Places, Token!Tokens, Token!Idle
<1> QED
  BY <1>1, <1>2, <1>3 DEF Token!TypeOK, Flags, Numbers, Places

LEMMA ShapesStep == TokenAssumption /\ Token!TypeOK /\ [Token!Next]_(Token!vars) => Token!TypeOK'
<1> SUFFICES ASSUME TokenAssumption, Flags, Numbers, Places, [Token!Next]_(Token!vars) PROVE Flags' /\ Numbers' /\ Places'
  BY DEF Token!TypeOK, Flags, Numbers, Places
<1>0. 0 \in Token!Tokens
  BY DEF TokenAssumption, Token!Tokens
<1>1. CASE Token!Logout
  <2>2. Flags'
    BY <1>1, Zenon DEF Token!Logout, Flags
  <2>3. Numbers'
    BY <1>1 DEF Token!Logout, Numbers, Places
  <2>4. Places'
    BY <1>0, <1>1 DEF Token!Logout, Places, Token!Idle
  <2> QED
    BY <2>2, <2>3, <2>4
<1>2. CASE Token!AccessExpires
  <2>2. Flags'
    BY <1>2, Zenon DEF Token!AccessExpires, Flags
  <2>3. Numbers'
    BY <1>2 DEF Token!AccessExpires, Numbers, Places
  <2>4. Places'
    BY <1>0, <1>2 DEF Token!AccessExpires, Places, Token!Idle
  <2> QED
    BY <2>2, <2>3, <2>4
<1>3. ASSUME NEW p \in Refreshers, Token!ReadRow(p) PROVE Flags' /\ Numbers' /\ Places'
  <2>1. stored \in Token!Tokens
    BY <1>3 DEF Token!ReadRow, Numbers
  <2>2. Flags'
    BY <1>3, Zenon DEF Token!ReadRow, Flags
  <2>3. Numbers'
    BY <1>3, <2>1 DEF Token!ReadRow, Numbers, Places
  <2>4. Places'
    BY <1>0, <1>3, <2>1 DEF Token!ReadRow, Places, Token!Idle
  <2> QED
    BY <2>2, <2>3, <2>4
<1>4. ASSUME NEW p \in Refreshers, Token!Refused(p) PROVE Flags' /\ Numbers' /\ Places'
  <2>2. Flags'
    BY <1>4, Zenon DEF Token!Refused, Flags
  <2>3. Numbers'
    BY <1>4 DEF Token!Refused, Numbers, Places
  <2>4. Places'
    BY <1>0, <1>4 DEF Token!Refused, Places, Token!Idle
  <2> QED
    BY <2>2, <2>3, <2>4
<1>5. ASSUME NEW p \in Refreshers, Token!Exchange(p) PROVE Flags' /\ Numbers' /\ Places'
  <2>1. live' \in Token!Tokens /\ Token!Renewed(live) = live'
    BY <1>5 DEF TokenAssumption, Token!Exchange, Token!Renewed, Numbers, Token!Tokens
  <2>2. Flags'
    BY <1>5, Zenon DEF Token!Exchange, Flags
  <2>3. Numbers'
    BY <1>5, <2>1 DEF Token!Exchange, Numbers, Places
  <2>4. Places'
    BY <1>0, <1>5, <2>1 DEF Token!Exchange, Places, Token!Idle
  <2> QED
    BY <2>2, <2>3, <2>4
<1>6. ASSUME NEW p \in Refreshers, Token!WriteRow(p) PROVE Flags' /\ Numbers' /\ Places'
  <2>2. Flags'
    BY <1>6, Zenon DEF Token!WriteRow, Flags
  <2>3. Numbers'
    BY <1>6 DEF Token!WriteRow, Numbers, Places
  <2>4. Places'
    BY <1>0, <1>6 DEF Token!WriteRow, Places, Token!Idle
  <2> QED
    BY <2>2, <2>3, <2>4
<1>7. ASSUME NEW p \in Refreshers, Token!Die(p) PROVE Flags' /\ Numbers' /\ Places'
  <2>2. Flags'
    BY <1>7, Zenon DEF Token!Die, Flags
  <2>3. Numbers'
    BY <1>7 DEF Token!Die, Numbers, Places
  <2>4. Places'
    BY <1>0, <1>7 DEF Token!Die, Places, Token!Idle
  <2> QED
    BY <2>2, <2>3, <2>4
<1>8. CASE UNCHANGED Token!vars
  BY <1>8 DEF Token!vars, Flags, Numbers, Places
<1> QED
  BY <1>1, <1>2, <1>3, <1>4, <1>5, <1>6, <1>7, <1>8 DEF Token!Next

LEMMA TokenInit == TokenAssumption /\ Token!Init => TokenInv
<1> SUFFICES ASSUME TokenAssumption, Token!Init PROVE TokenInv
  OBVIOUS
<1>1. Token!TypeOK
  BY ShapesInit
<1> QED
  BY <1>1 DEF Token!Init, TokenInv, Token!Idle, ReadsPast, WritesLive, OneWriter, RowOrWriter, Writing, Exchanging

LEMMA TokenStep == TokenAssumption /\ TokenInv /\ [Token!Next]_(Token!vars) => TokenInv'
<1> SUFFICES ASSUME TokenAssumption, TokenInv, [Token!Next]_(Token!vars) PROVE TokenInv'
  OBVIOUS
<1>0. Token!TypeOK /\ Token!TypeOK'
  BY ShapesStep DEF TokenInv
<1> USE <1>0 DEF TokenAssumption, TokenInv, ReadsPast, WritesLive, OneWriter, RowOrWriter, Writing, Exchanging,
      Token!TypeOK, Token!Tokens, Token!NoRow, Token!Idle
<1>1. CASE Token!Logout
  BY <1>1 DEF Token!Logout
<1>2. CASE Token!AccessExpires
  BY <1>2 DEF Token!AccessExpires
<1>3. ASSUME NEW p \in Refreshers, Token!ReadRow(p) PROVE TokenInv'
  <2>1. proc'[p].pc = "exchange" /\ proc'[p].read = stored
    BY <1>3 DEF Token!ReadRow
  <2>2. \A q \in Refreshers \ {p} : proc'[q] = proc[q]
    BY <1>3 DEF Token!ReadRow
  <2>3. UNCHANGED <<rotates, stored, live, lost>> /\ stored # Token!NoRow /\ proc[p].pc = "idle"
    BY <1>3 DEF Token!ReadRow
  <2> QED
    BY <2>1, <2>2, <2>3
<1>4. ASSUME NEW p \in Refreshers, Token!Refused(p) PROVE TokenInv'
  BY <1>4 DEF Token!Refused
<1>5. ASSUME NEW p \in Refreshers, Token!Exchange(p) PROVE TokenInv'
  <2>1. CASE rotates
    BY <1>5, <2>1 DEF Token!Exchange, Token!Renewed
  <2>2. CASE ~rotates
    BY <1>5, <2>2 DEF Token!Exchange, Token!Renewed
  <2> QED
    BY <2>1, <2>2
<1>6. ASSUME NEW p \in Refreshers, Token!WriteRow(p) PROVE TokenInv'
  BY <1>6 DEF Token!WriteRow
<1>7. ASSUME NEW p \in Refreshers, Token!Die(p) PROVE TokenInv'
  BY <1>7 DEF Token!Die
<1>8. CASE UNCHANGED Token!vars
  BY <1>8 DEF Token!vars
<1> QED
  BY <1>1, <1>2, <1>3, <1>4, <1>5, <1>6, <1>7, <1>8 DEF Token!Next

\* However many requests and jobs refresh one connection at once
\* (refresh_connection_if_needed), its row ends with the token Livestorm
\* accepts, unless an answer is lost.
THEOREM LiveTokenStays ==
  ASSUME TokenAssumption
  PROVE  /\ Token!Spec => [](Token!TypeOK /\ Token!LiveTokenKept)
         /\ WebSpec => []LiveTokenKept
<1>1. TokenInv => Token!TypeOK /\ Token!LiveTokenKept
  BY DEF TokenInv, WritesLive, OneWriter, RowOrWriter, Token!LiveTokenKept, Writing
<1>2. Token!Init => TokenInv
  BY TokenInit
<1>3. TokenInv /\ [Token!Next]_(Token!vars) => TokenInv'
  BY TokenStep
<1> DEFINE Mine == part = "token" => TokenInv
<1>4. WebInit => Mine
  BY <1>2 DEF WebInit
<1>5. Mine /\ [WebNext]_webVars => Mine'
  BY <1>3, Turn
<1>6. Mine => LiveTokenKept
  BY <1>1 DEF LiveTokenKept
<1> QED
  BY <1>1, <1>2, <1>3, <1>4, <1>5, <1>6, PTL DEF Token!Spec, WebSpec
=============================================================================
