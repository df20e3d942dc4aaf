---------------------------- MODULE StartupProofs ----------------------------
(***************************************************************************)
(* Theorems about the start of the AuthServer, for every set of files and  *)
(* files of every length.                                                  *)
(***************************************************************************)
EXTENDS Startup, SequenceTheorems, TLAPS

EntryFor(key, i) == file[i].kind = "entry" /\ file[i].key = key

(* Among the first n lines, line i has the value of a key. *)
LastFor(key, i, n) ==
    /\ i \in 1 .. n /\ EntryFor(key, i)
    /\ \A j \in i + 1 .. n : ~EntryFor(key, j)

(* Reload has entered the last value of each key among the lines it has    *)
(* read, and none of them was bad.                                         *)
ReloadInv ==
    /\ line \in Nat
    /\ file = NoFile => line = 0
    /\ file # NoFile => file \in Seq(Lines) /\ line <= Len(file)
    /\ \A i \in 1 .. line : file[i].kind # "bad"
    /\ \A i \in 1 .. line : file[i].kind = "entry" => file[i].key \in DOMAIN newEntries
    /\ \A key \in DOMAIN newEntries :
           \E i \in 1 .. line : LastFor(key, i, line) /\ newEntries[key] = file[i].value

Loaded == phase \in {"load", "connect", "listen", "up"}

LoadedInv == Loaded => file # NoFile /\ line = Len(file) /\ entries = newEntries

(* The pool grows to its size, and the database has it from then on. *)
DatabaseInv ==
    /\ connected \in Nat
    /\ phase \in {"config", "load"} => connected = 0
    /\ phase \in {"connect", "listen", "up"} => PoolSize \in Nat
    /\ phase = "connect" => connected <= PoolSize
    /\ phase \in {"config", "load", "connect"} => database = None
    /\ phase \in {"listen", "up"} =>
           /\ connected = PoolSize
           /\ database = Holder(StrSplit(GetStringDefault("AuthDatabaseInfo", <<>>)), PoolSize)
    /\ database # None => database.size \in Int

ListenerInv ==
    phase = "up" =>
        listener = [address |-> BindIP,
                    port    |-> GetStringDefault("AuthServerPort", 10009) % 2^16,
                    workers |-> GetStringDefault("NetworkThreadProcessors", 1) % 2^8]

IInv == TypeOK /\ ReloadInv /\ LoadedInv /\ DatabaseInv /\ ListenerInv
-----------------------------------------------------------------------------
(* Without an empty field, StrSplit keeps all of what is written.          *)
LEMMA SplitStep ==
    ASSUME NEW s \in Seq(Texts), \A i \in 1 .. Len(s) : s[i] # Empty,
           NEW i \in 1 .. Len(s)
    PROVE  SubSeq(s, 1, i) = Append(SubSeq(s, 1, i - 1), s[i])
  BY LenProperties, SubSeqProperties, AppendProperties, SeqEqual

LEMMA HolderOfAll ==
    ASSUME NEW s \in Seq(Texts), Len(s) = 5, NEW size
    PROVE  Holder(s, size) = [host |-> s[1], port |-> s[2], user |-> s[3],
                              password |-> s[4], name |-> s[5], size |-> size]
  BY DEF Holder

LEMMA SplitKeepsAll ==
    ASSUME NEW s \in Seq(Texts), Len(s) = 5, \A i \in 1 .. 5 : s[i] # Empty
    PROVE  StrSplit(s) = s
<1> DEFINE Loop(F) == F = [i \in 0 .. 5 |->
                              IF i = 0 THEN <<>>
                              ELSE IF s[i] = Empty THEN F[i - 1]
                              ELSE Append(F[i - 1], s[i])]
           kept == [i \in 0 .. 5 |-> SubSeq(s, 1, i)]
<1>1. ASSUME NEW i \in 1 .. 5 PROVE SubSeq(s, 1, i) = Append(SubSeq(s, 1, i - 1), s[i])
  BY SplitStep
<1>2. SubSeq(s, 1, 0) = <<>>
  BY SubSeqEmpty
<1>3. Loop(kept)
  BY <1>1, <1>2
<1>4. PICK F : Loop(F) /\ F = CHOOSE G : Loop(G)
  BY <1>3, Zenon
<1>5. StrSplit(s) = F[5]
  BY <1>4 DEF StrSplit
<1>6. F[0] = SubSeq(s, 1, 0)
  BY <1>2, <1>4
<1>7. ASSUME NEW i \in 1 .. 5, F[i - 1] = SubSeq(s, 1, i - 1)
      PROVE  F[i] = SubSeq(s, 1, i)
  <2>1. F[i] = Append(F[i - 1], s[i])
    BY <1>4
  <2> QED
    BY <1>1, <1>7, <2>1
<1>8. F[5] = SubSeq(s, 1, 5)
  <2> HIDE <1>4
  <2>1. F[1] = SubSeq(s, 1, 1)
    <3>1. 1 \in 1 .. 5 /\ 1 - 1 = 0
      OBVIOUS
    <3> QED
      BY <3>1, <1>6, <1>7
  <2>2. ASSUME NEW i \in 1 .. 4, F[i] = SubSeq(s, 1, i)
        PROVE  F[i + 1] = SubSeq(s, 1, i + 1)
    <3>1. i + 1 \in 1 .. 5 /\ (i + 1) - 1 = i
      OBVIOUS
    <3> QED
      BY <3>1, <2>2, <1>7
  <2>3. /\ 1 \in 1 .. 4 /\ 2 \in 1 .. 4 /\ 3 \in 1 .. 4 /\ 4 \in 1 .. 4
        /\ 1 + 1 = 2 /\ 2 + 1 = 3 /\ 3 + 1 = 4 /\ 4 + 1 = 5
    OBVIOUS
  <2>4. F[2] = SubSeq(s, 1, 2)
    BY <2>1, <2>2, <2>3
  <2>5. F[3] = SubSeq(s, 1, 3)
    BY <2>2, <2>3, <2>4
  <2>6. F[4] = SubSeq(s, 1, 4)
    BY <2>2, <2>3, <2>5
  <2> QED
    BY <2>2, <2>3, <2>6
<1> QED
  BY <1>5, <1>8, SubSeqFull

-----------------------------------------------------------------------------
(* The values the file may have for the keys of the code.                  *)
LEMMA ValueTypes ==
    ASSUME NEW text \in Lines, text.kind = "entry"
    PROVE  /\ text.key \in {"AuthServerPort", "NetworkThreadProcessors"}
                  => text.value \in Int \union {Junk}
           /\ text.key = "AuthDatabase.ConnectionPool" => text.value \in Nat \union {Junk}
           /\ text.key = "AuthDatabaseInfo" => text.value \in Seq(Texts)
           /\ text.key = "BindIP" => text.value \in Texts
  BY DEF Lines

(* What GetStringDefault and GetIntDefault can return.                     *)
LEMMA Defaults ==
    ASSUME ReloadInv, LoadedInv, Loaded
    PROVE  /\ GetStringDefault("AuthServerPort", 10009) \in Int \union {Junk}
           /\ GetStringDefault("NetworkThreadProcessors", 1) \in Int \union {Junk}
           /\ PoolSize \in Nat \union {Junk}
           /\ GetStringDefault("AuthDatabaseInfo", <<>>) \in Seq(Texts)
           /\ BindIP \in Texts
<1>1. entries = newEntries /\ file \in Seq(Lines) /\ line = Len(file)
  BY DEF ReloadInv, LoadedInv
<1>2. ASSUME NEW key \in DOMAIN entries
      PROVE  \E text \in Lines : text.kind = "entry" /\ text.key = key
                                 /\ text.value = entries[key]
  <2>1. PICK i \in 1 .. line : LastFor(key, i, line) /\ newEntries[key] = file[i].value
    BY <1>1, <1>2 DEF ReloadInv
  <2>2. file[i] \in Lines
    BY <1>1, ElementOfSeq
  <2> QED
    BY <1>1, <2>1, <2>2 DEF LastFor, EntryFor
<1>3. <<>> \in Seq(Texts)
  OBVIOUS
<1> QED
  BY <1>2, <1>3, ValueTypes, StartupAssumption DEF GetStringDefault, PoolSize, BindIP

(* Once the whole file is read, the entries have the last value of a key.  *)
LEMMA LastOfIsEntry ==
    ASSUME ReloadInv, LoadedInv, Loaded, NEW key, NEW default
    PROVE  LastOf(key, default) = GetStringDefault(key, default)
<1> DEFINE of == {i \in DOMAIN file : file[i].kind = "entry" /\ file[i].key = key}
<1>1. /\ entries = newEntries /\ file \in Seq(Lines) /\ line = Len(file)
      /\ DOMAIN file = 1 .. line /\ line \in Nat
  BY LenProperties DEF ReloadInv, LoadedInv
<1>2. CASE key \in DOMAIN entries
  <2>1. PICK i \in 1 .. line : LastFor(key, i, line) /\ newEntries[key] = file[i].value
    BY <1>1, <1>2 DEF ReloadInv
  <2>2. i \in of /\ \A j \in of : j <= i
    BY <1>1, <2>1 DEF LastFor, EntryFor
  <2>3. ASSUME NEW k \in of, \A j \in of : j <= k PROVE k = i
    BY <1>1, <2>2, <2>3
  <2>4. (CHOOSE k \in of : \A j \in of : j <= k) = i
    BY <2>2, <2>3
  <2> QED
    BY <1>1, <1>2, <2>1, <2>2, <2>4 DEF LastOf, GetStringDefault
<1>3. CASE key \notin DOMAIN entries
  <2>1. of = {}
    BY <1>1, <1>3 DEF ReloadInv
  <2> QED
    BY <1>3, <2>1 DEF LastOf, GetStringDefault
<1> QED
  BY <1>2, <1>3
-----------------------------------------------------------------------------
LEMMA TypeFacts ==
    ASSUME IInv
    PROVE  /\ TypeOK /\ line \in Nat /\ connected \in Nat
           /\ phase \in StartingPhases \union {"up"} \union EndedPhases
           /\ database = None \/ database.size \in Int
  BY DEF IInv, TypeOK

(* Only Listen changes the listener.                                       *)
LEMMA TypeKept ==
    ASSUME TypeOK, listener' = listener, line' \in Nat, connected' \in Nat,
           phase' \in StartingPhases \union {"up"} \union EndedPhases,
           database' = None \/ database'.size \in Int
    PROVE  TypeOK'
<1>1. listener' \in [address : Texts, port : 0 .. 2^16 - 1, workers : 0 .. 2^8 - 1]
  BY Zenon DEF TypeOK
<1> QED
  BY <1>1 DEF TypeOK

LEMMA InitIInv == Init => IInv
<1> SUFFICES ASSUME Init PROVE IInv
  OBVIOUS
<1>1. TypeOK
  BY StartupAssumption DEF Init, TypeOK, StartingPhases
<1>2. ReloadInv
  <2>1. file # NoFile => file \in Seq(Lines) /\ Len(file) \in Nat
    BY StartupAssumption, LenProperties DEF Init
  <2>2. DOMAIN newEntries = {}
    BY DEF Init
  <2> QED
    BY <2>1, <2>2 DEF Init, ReloadInv
<1> QED
  BY <1>1, <1>2 DEF Init, IInv, LoadedInv, Loaded, DatabaseInv, ListenerInv

(* A line that is an entry takes the place of those before it with its key; *)
(* any other leaves the entries alone.                                      *)
LEMMA ReadLinePreserves == ASSUME IInv, ReadLine PROVE IInv'
<1> DEFINE text == file[line + 1]
<1>1. /\ line \in Nat /\ line' = line + 1 /\ file' = file /\ file # NoFile
      /\ file \in Seq(Lines) /\ line + 1 <= Len(file) /\ Len(file) \in Nat
      /\ text.kind # "bad" /\ newEntries' = AddEntry(newEntries, text)
  BY LenProperties DEF IInv, ReloadInv, ReadLine, AtLine
<1> HIDE DEF text
<1>2. ReloadInv'
  <2>1. \A i \in 1 .. line' : (file[i].kind # "bad")'
    BY <1>1 DEF IInv, ReloadInv, text
  <2>2. ASSUME NEW key, NEW i \in 1 .. line, LastFor(key, i, line),
               text.kind = "entry" => text.key # key
        PROVE  LastFor(key, i, line)'
    BY <1>1, <2>2 DEF LastFor, EntryFor, text
  <2>3. CASE text.kind # "entry"
    <3>1. newEntries' = newEntries
      BY <1>1, <2>3 DEF AddEntry
    <3>2. \A i \in 1 .. line' : (file[i].kind = "entry" => file[i].key \in DOMAIN newEntries)'
      BY <1>1, <2>3, <3>1 DEF IInv, ReloadInv, text
    <3>3. ASSUME NEW key \in DOMAIN newEntries'
          PROVE  \E i \in 1 .. line' : (LastFor(key, i, line) /\ newEntries[key] = file[i].value)'
      <4>1. PICK i \in 1 .. line : LastFor(key, i, line) /\ newEntries[key] = file[i].value
        BY <3>1, <3>3 DEF IInv, ReloadInv
      <4> QED
        BY <1>1, <2>2, <2>3, <3>1, <4>1
    <3> QED
      BY <1>1, <2>1, <3>2, <3>3 DEF ReloadInv
  <2>4. CASE text.kind = "entry"
    <3>1. /\ DOMAIN newEntries' = DOMAIN newEntries \union {text.key}
          /\ newEntries'[text.key] = text.value
          /\ \A key \in DOMAIN newEntries : key # text.key => newEntries'[key] = newEntries[key]
      BY <1>1, <2>4 DEF AddEntry
    <3>2. \A i \in 1 .. line' : (file[i].kind = "entry" => file[i].key \in DOMAIN newEntries)'
      BY <1>1, <3>1 DEF IInv, ReloadInv, text
    <3>3. ASSUME NEW key \in DOMAIN newEntries'
          PROVE  \E i \in 1 .. line' : (LastFor(key, i, line) /\ newEntries[key] = file[i].value)'
      <4>1. CASE key = text.key
        <5>1. LastFor(key, line, line)'
          BY <1>1, <2>4, <4>1 DEF LastFor, EntryFor, text
        <5>2. newEntries'[key] = file'[line'].value /\ line' \in 1 .. line'
          BY <1>1, <3>1, <4>1 DEF text
        <5> QED
          BY <5>1, <5>2
      <4>2. CASE key # text.key
        <5>1. PICK i \in 1 .. line : LastFor(key, i, line) /\ newEntries[key] = file[i].value
          BY <3>1, <3>3, <4>2 DEF IInv, ReloadInv
        <5> QED
          BY <1>1, <2>2, <3>1, <3>3, <4>2, <5>1
      <4> QED
        BY <4>1, <4>2
    <3> QED
      BY <1>1, <2>1, <3>2, <3>3 DEF ReloadInv
  <2> QED
    BY <2>3, <2>4
<1>3. phase = "config" /\ UNCHANGED <<phase, entries, connected, database, listener>>
  BY DEF ReadLine, AtLine
<1>4. TypeOK'
  BY <1>1, <1>3, TypeFacts, TypeKept
<1>5. LoadedInv' /\ ListenerInv'
  BY <1>3 DEF LoadedInv, Loaded, ListenerInv
<1>6. DatabaseInv'
  BY <1>3 DEF IInv, DatabaseInv
<1> QED
  BY <1>2, <1>4, <1>5, <1>6 DEF IInv

(* What was read of the file stays so while no line is read.               *)
LEMMA ReloadKept ==
    ASSUME ReloadInv, UNCHANGED <<file, line, newEntries>>
    PROVE  ReloadInv'
<1>1. \A key, i, n : LastFor(key, i, n)' <=> LastFor(key, i, n)
  BY DEF LastFor, EntryFor
<1>2. \A key \in DOMAIN newEntries' :
          \E i \in 1 .. line' : LastFor(key, i, line)' /\ newEntries'[key] = file'[i].value
  <2>1. SUFFICES ASSUME NEW key \in DOMAIN newEntries
                 PROVE  \E i \in 1 .. line : LastFor(key, i, line)'
                                             /\ newEntries[key] = file[i].value
    OBVIOUS
  <2>2. PICK i \in 1 .. line : LastFor(key, i, line) /\ newEntries[key] = file[i].value
    BY <2>1 DEF ReloadInv
  <2> QED
    BY <1>1, <2>2
<1>3. /\ line' \in Nat /\ (file' = NoFile => line' = 0)
      /\ file' # NoFile => file' \in Seq(Lines) /\ line' <= Len(file')
  BY DEF ReloadInv
<1>4. /\ \A i \in 1 .. line' : file'[i].kind # "bad"
      /\ \A i \in 1 .. line' : file'[i].kind = "entry" => file'[i].key \in DOMAIN newEntries'
  BY DEF ReloadInv
<1> QED
  BY <1>2, <1>3, <1>4 DEF ReloadInv

(* Nothing that main still needs changes when the process ends.            *)
LEMMA EndsPreserves ==
    ASSUME IInv, NEW how \in EndedPhases, Ends(how)
    PROVE  IInv'
<1>1. /\ phase' = how /\ UNCHANGED <<file, line, newEntries, entries>>
      /\ UNCHANGED <<connected, database, listener>>
      /\ phase' \notin {"config", "load", "connect", "listen", "up"}
  BY DEF Ends, config, EndedPhases
<1>2. ReloadInv'
  BY <1>1, ReloadKept DEF IInv
<1>3. TypeOK'
  BY <1>1, TypeFacts, TypeKept
<1>4. LoadedInv' /\ ListenerInv' /\ DatabaseInv'
  BY <1>1 DEF IInv, LoadedInv, Loaded, ListenerInv, DatabaseInv
<1> QED
  BY <1>2, <1>3, <1>4 DEF IInv

LEMMA ReloadPreserves == ASSUME IInv, Reload PROVE IInv'
<1>1. /\ phase = "config" /\ phase' = "load" /\ entries' = newEntries
      /\ file # NoFile /\ line = Len(file)
      /\ UNCHANGED <<file, line, newEntries, connected, database, listener>>
  BY DEF Reload
<1>2. ReloadInv'
  BY <1>1, ReloadKept DEF IInv
<1>3. TypeOK'
  BY <1>1, TypeFacts, TypeKept DEF StartingPhases
<1>4. LoadedInv' /\ ListenerInv' /\ DatabaseInv'
  BY <1>1 DEF IInv, LoadedInv, Loaded, ListenerInv, DatabaseInv
<1> QED
  BY <1>2, <1>3, <1>4 DEF IInv

(* After the file is read, what it says does not change.                   *)
LEMMA ConfigKept ==
    ASSUME IInv, Loaded, Loaded', UNCHANGED config
    PROVE  /\ ReloadInv' /\ LoadedInv'
           /\ \A key, default : GetStringDefault(key, default)' = GetStringDefault(key, default)
           /\ PoolSize' = PoolSize /\ BindIP' = BindIP
<1>1. UNCHANGED <<file, line, newEntries, entries>>
  BY DEF config
<1> QED
  BY <1>1, ReloadKept DEF IInv, LoadedInv, GetStringDefault, PoolSize, BindIP

LEMMA LoadDatabasePreserves == ASSUME IInv, LoadDatabase PROVE IInv'
<1>1. CASE GetIntThrows("AuthDatabase.ConnectionPool")
  BY <1>1, EndsPreserves DEF LoadDatabase, EndedPhases
<1>2. CASE ~GetIntThrows("AuthDatabase.ConnectionPool")
  <2>1. /\ phase = "load" /\ phase' = "connect" /\ UNCHANGED config
        /\ UNCHANGED <<connected, database, listener>>
    BY <1>2 DEF LoadDatabase, Ends
  <2>2. Loaded /\ Loaded'
    BY <2>1 DEF Loaded
  <2>3. PoolSize \in Nat
    <3>1. PoolSize \in Nat \union {Junk}
      BY <2>2, Defaults DEF IInv
    <3>2. PoolSize # Junk
      BY <1>2, StartupAssumption DEF GetIntThrows, GetStringDefault, PoolSize
    <3> QED
      BY <3>1, <3>2
  <2>4. TypeOK'
    BY <2>1, TypeFacts, TypeKept DEF StartingPhases, config
  <2>5. DatabaseInv' /\ ListenerInv'
    BY <2>1, <2>2, <2>3, ConfigKept DEF IInv, DatabaseInv, ListenerInv
  <2> QED
    BY <2>1, <2>2, <2>4, <2>5, ConfigKept DEF IInv
<1> QED
  BY <1>1, <1>2

LEMMA ConnectPreserves == ASSUME IInv, Connect PROVE IInv'
<1>1. /\ phase = "connect" /\ connected < PoolSize /\ connected' = connected + 1
      /\ UNCHANGED <<phase, database, listener>> /\ UNCHANGED config
  BY DEF Connect
<1>2. Loaded /\ Loaded'
  BY <1>1 DEF Loaded
<1>3. TypeOK'
  BY <1>1, TypeFacts, TypeKept DEF config
<1>4. DatabaseInv' /\ ListenerInv'
  BY <1>1, <1>2, ConfigKept DEF IInv, DatabaseInv, ListenerInv
<1> QED
  BY <1>1, <1>2, <1>3, <1>4, ConfigKept DEF IInv

LEMMA DatabaseCreatedPreserves == ASSUME IInv, DatabaseCreated PROVE IInv'
<1>1. /\ phase = "connect" /\ connected >= PoolSize /\ phase' = "listen"
      /\ database' = Holder(StrSplit(GetStringDefault("AuthDatabaseInfo", <<>>)), PoolSize)
      /\ UNCHANGED <<connected, listener>> /\ UNCHANGED config
  BY DEF DatabaseCreated
<1>2. Loaded /\ Loaded'
  BY <1>1 DEF Loaded
<1>3. connected = PoolSize /\ PoolSize \in Nat /\ database'.size = PoolSize
  BY <1>1 DEF IInv, DatabaseInv, Holder
<1>4. TypeOK'
  BY <1>1, <1>3, TypeFacts, TypeKept DEF StartingPhases, config
<1>5. DatabaseInv' /\ ListenerInv'
  BY <1>1, <1>2, <1>3, ConfigKept DEF DatabaseInv, ListenerInv
<1> QED
  BY <1>1, <1>2, <1>4, <1>5, ConfigKept DEF IInv

LEMMA ListenPreserves == ASSUME IInv, Listen PROVE IInv'
<1> DEFINE port == GetStringDefault("AuthServerPort", 10009)
           workers == GetStringDefault("NetworkThreadProcessors", 1)
           address == BindIP
<1>1. /\ phase = "listen" /\ phase' \in {"undefined", "up"}
      /\ listener' = [address |-> address, port |-> port % 2^16, workers |-> workers % 2^8]
      /\ UNCHANGED <<connected, database>> /\ UNCHANGED config
  BY DEF Listen
<1>2. Loaded
  BY <1>1 DEF Loaded
<1>3. port \in Int /\ workers \in Int /\ address \in Texts
  <2>1. port \in Int \union {Junk} /\ workers \in Int \union {Junk} /\ address \in Texts
    BY <1>2, Defaults DEF IInv
  <2>2. port # Junk /\ workers # Junk
    BY StartupAssumption DEF Listen, Listenable, GetIntThrows, GetStringDefault
  <2> QED
    BY <2>1, <2>2
<1> HIDE DEF port, workers, address
<1>4. port % 2^16 \in 0 .. 2^16 - 1 /\ workers % 2^8 \in 0 .. 2^8 - 1
  BY <1>3
<1>5. TypeOK'
  BY <1>1, <1>3, <1>4 DEF IInv, TypeOK, EndedPhases, config
<1>6. CASE phase' = "up"
  <2>1. Loaded'
    BY <1>6 DEF Loaded
  <2>2. DatabaseInv' /\ ListenerInv'
    BY <1>1, <1>2, <2>1, ConfigKept DEF IInv, DatabaseInv, ListenerInv, port, workers, address
  <2> QED
    BY <1>1, <1>2, <1>5, <2>1, <2>2, ConfigKept DEF IInv
<1>7. CASE phase' = "undefined"
  <2>1. ReloadInv'
    BY <1>1, ReloadKept DEF IInv, config
  <2>2. LoadedInv' /\ ListenerInv' /\ DatabaseInv'
    BY <1>1, <1>7 DEF IInv, LoadedInv, Loaded, ListenerInv, DatabaseInv
  <2> QED
    BY <1>5, <2>1, <2>2 DEF IInv
<1> QED
  BY <1>1, <1>6, <1>7

LEMMA StutterIInv == ASSUME IInv, UNCHANGED vars PROVE IInv'
<1>1. /\ UNCHANGED <<file, line, newEntries, entries>>
      /\ UNCHANGED <<phase, connected, database, listener>>
  BY DEF vars, config
<1>2. TypeOK'
  BY <1>1, TypeFacts, TypeKept
<1>3. ReloadInv'
  BY <1>1, ReloadKept DEF IInv
<1>4. LoadedInv' /\ DatabaseInv' /\ ListenerInv'
  BY <1>1 DEF IInv, LoadedInv, Loaded, DatabaseInv, ListenerInv, GetStringDefault, PoolSize, BindIP
<1> QED
  BY <1>2, <1>3, <1>4 DEF IInv

(* The invariant that the theorems below rest on is inductive.             *)
THEOREM StartupInvariance == Spec => []IInv
<1>1. ASSUME IInv, [Next]_vars PROVE IInv'
  <2>1. CASE OpenFails
    BY <1>1, <2>1, EndsPreserves DEF OpenFails, EndedPhases
  <2>2. CASE ReadLine
    BY <1>1, <2>2, ReadLinePreserves
  <2>3. CASE ReloadFails
    BY <1>1, <2>3, EndsPreserves DEF ReloadFails, EndedPhases
  <2>4. CASE Reload
    BY <1>1, <2>4, ReloadPreserves
  <2>5. CASE LoadDatabase
    BY <1>1, <2>5, LoadDatabasePreserves
  <2>6. CASE Connect
    BY <1>1, <2>6, ConnectPreserves
  <2>7. CASE ConnectFails
    BY <1>1, <2>7, EndsPreserves DEF ConnectFails, EndedPhases
  <2>8. CASE DatabaseCreated
    BY <1>1, <2>8, DatabaseCreatedPreserves
  <2>9. CASE Listen
    BY <1>1, <2>9, ListenPreserves
  <2>10. CASE ListenThrows
    BY <1>1, <2>10, EndsPreserves DEF ListenThrows, EndedPhases
  <2>11. CASE Login
    BY <1>1, <2>11, EndsPreserves, StutterIInv DEF Login, EndedPhases
  <2>12. CASE Over \/ UNCHANGED vars
    BY <1>1, <2>12, StutterIInv DEF Over
  <2> QED
    BY <1>1, <2>1, <2>2, <2>3, <2>4, <2>5, <2>6, <2>7, <2>8, <2>9, <2>10, <2>11, <2>12
       DEF Next, Main
<1> QED
  BY <1>1, InitIInv, PTL DEF Spec

(* The port and the number of workers fit the types of the parameters.     *)
THEOREM StartupTypeCorrect == Spec => []TypeOK
<1>1. IInv => TypeOK
  BY DEF IInv
<1> QED
  BY <1>1, StartupInvariance, PTL

(* However many lines the file has, in whatever order, a server that       *)
(* listens uses the last value of each key, as it is written, for as far   *)
(* as it fits the parameters and no field of the string is empty.          *)
THEOREM FileIsObeyedHolds == Spec => []FileIsObeyed
<1>1. IInv => FileIsObeyed
  <2> SUFFICES ASSUME IInv, phase = "up" PROVE FileIsObeyed
    BY DEF FileIsObeyed
  <2>1. Loaded
    BY DEF Loaded
  <2>2. \A key, default : LastOf(key, default) = GetStringDefault(key, default)
    BY <2>1, LastOfIsEntry DEF IInv
  <2>3. \A i \in DOMAIN file : file[i].kind # "bad"
    BY <2>1, LenProperties DEF IInv, ReloadInv, LoadedInv
  <2>4. listener = [address |-> LastOf("BindIP", Localhost),
                    port    |-> Port % 2^16, workers |-> Workers % 2^8]
    BY <2>2 DEF IInv, ListenerInv, BindIP, Port, Workers
  <2>5. /\ listener.address = LastOf("BindIP", Localhost)
        /\ Port \in 0 .. 2^16 - 1 => listener.port = Port
        /\ Workers \in 0 .. 2^8 - 1 => listener.workers = Workers
    <3>1. \A p \in 0 .. 2^16 - 1 : p % 2^16 = p
      OBVIOUS
    <3>2. \A w \in 0 .. 2^8 - 1 : w % 2^8 = w
      OBVIOUS
    <3> QED
      BY <2>4, <3>1, <3>2
  <2>6. /\ connected = LastOf("AuthDatabase.ConnectionPool", 10)
        /\ database.size = connected
        /\ database = Holder(StrSplit(Written), PoolSize)
    BY <2>2 DEF IInv, DatabaseInv, PoolSize, Holder, Written
  <2>7. ASSUME Len(Written) = 5, \A i \in 1 .. 5 : Written[i] # Empty
        PROVE  HolderOf(Written)
    <3>1. Written \in Seq(Texts)
      BY <2>1, <2>2, Defaults DEF IInv, Written
    <3>2. StrSplit(Written) = Written
      BY <2>7, <3>1, SplitKeepsAll
    <3>3. database = [host |-> Written[1], port |-> Written[2], user |-> Written[3],
                      password |-> Written[4], name |-> Written[5], size |-> PoolSize]
      BY <2>6, <2>7, <3>1, <3>2, HolderOfAll
    <3> QED
      BY <3>3 DEF HolderOf
  <2> QED
    BY <2>3, <2>5, <2>6, <2>7 DEF FileIsObeyed
<1> QED
  BY <1>1, StartupInvariance, PTL
=============================================================================
