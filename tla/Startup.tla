------------------------------ MODULE Startup ------------------------------
(***************************************************************************)
(* How main of the AuthServer gets from authserver.conf to a server that   *)
(* listens: Config::Reload, Config::GetIntDefault, Database::CreateDatabase *)
(* and the constructor of Listener, until the first login asks for the     *)
(* database named "auth".                                                  *)
(*                                                                         *)
(* A line of the file is a comment (or blank, or a section), bad, without  *)
(* an equals sign, or an entry.  Keys are lowered in the file and in the   *)
(* code, so their case does not matter.  The value of AuthDatabaseInfo is  *)
(* the sequence of what is between the semicolons; a number is an integer, *)
(* and Junk a text that std::stoi does not take for one.  The size of the  *)
(* pool is not negative: as a size_t it would be more than can be made.    *)
(***************************************************************************)
EXTENDS Integers, Sequences

CONSTANTS
    Files,   \* the files there may be, sequences of lines
    Texts,   \* what may be between two semicolons, or be the value of BindIP
    NoFile,  \* the file cannot be opened
    Empty,   \* the text with no character
    Auth,    \* the text "auth"
    Localhost, \* the text "127.0.0.1"
    Addresses, \* the texts that are an address in numbers, not a name
    Junk,
    None     \* no database yet

(* An entry that nobody reads is no different from a comment. *)
Lines ==
    [kind : {"comment", "bad"}]
    \union [kind : {"entry"}, key : {"AuthServerPort", "NetworkThreadProcessors"},
            value : Int \union {Junk}]
    \union [kind : {"entry"}, key : {"AuthDatabase.ConnectionPool"},
            value : Nat \union {Junk}]
    \union [kind : {"entry"}, key : {"BindIP"}, value : Texts]
    \union [kind : {"entry"}, key : {"AuthDatabaseInfo"}, value : Seq(Texts)]

ASSUME StartupAssumption ==
    /\ Files \subseteq Seq(Lines) /\ NoFile \notin Files
    /\ Junk \notin Int
    /\ {Empty, Localhost} \subseteq Texts

VARIABLES
    file,       \* authserver.conf
    phase,      \* where main is, or how the process ended
    line,       \* how many lines Reload has read
    newEntries, \* l_NewEntries of Reload
    entries,    \* Config::m_Entries
    connected,  \* connections the pool under construction has
    database,   \* what Database::m_DatabaseCont holds
    listener    \* address, port and number of workers of the Listener

config == <<file, line, newEntries, entries>>
vars   == <<config, phase, connected, database, listener>>

StartingPhases == {"config", "load", "connect", "listen"}
EndedPhases    == {"reported", "terminated", "crashed", "undefined"}

Init ==
    /\ file \in Files \union {NoFile}
    /\ phase = "config"
    /\ line = 0 /\ newEntries = <<>> /\ entries = <<>>
    /\ connected = 0 /\ database = None
    /\ listener = [address |-> Empty, port |-> 0, workers |-> 0]
-----------------------------------------------------------------------------
(* Operators named Mutant... are plausible bugs, see the README.           *)

(* emplace instead of operator[]: the first entry of a key stays. *)
MutantAddEntry(map, text) ==
    IF text.kind # "entry" THEN map
    ELSE [key \in DOMAIN map \union {text.key} |->
             IF key \in DOMAIN map THEN map[key] ELSE text.value]

(* What a line that has been parsed adds. *)
AddEntry(map, text) ==
    IF text.kind # "entry" THEN map
    ELSE [key \in DOMAIN map \union {text.key} |->
             IF key = text.key THEN text.value ELSE map[key]]

GetStringDefault(name, default) ==
    IF name \in DOMAIN entries THEN entries[name] ELSE default

(* std::stoi throws what nobody catches. *)
GetIntThrows(name) == GetStringDefault(name, 0) = Junk

(* The loop pushes a token only when it has a character. *)
StrSplit(info) ==
    LET tokens[i \in 0 .. Len(info)] ==
            IF i = 0 THEN <<>>
            ELSE IF info[i] = Empty THEN tokens[i - 1]
            ELSE Append(tokens[i - 1], info[i])
    IN  tokens[Len(info)]

(* The fields of DatabaseHolder, from the tokens there are. *)
Holder(tokens, size) ==
    LET token(i) == IF i <= Len(tokens) THEN tokens[i] ELSE Empty
    IN  [host |-> token(1), port |-> token(2), user |-> token(3),
         password |-> token(4), name |-> token(5), size |-> size]

Ends(how) == phase' = how /\ UNCHANGED <<config, connected, database, listener>>
-----------------------------------------------------------------------------
(* SetFile: the file cannot be opened. *)
OpenFails == phase = "config" /\ file = NoFile /\ Ends("reported")

(* Reload is at the next line of the file. *)
AtLine == phase = "config" /\ file # NoFile /\ line < Len(file)

(* One turn of the loop of Reload. *)
ReadLine ==
    /\ AtLine /\ file[line + 1].kind # "bad"
    /\ line' = line + 1
    /\ newEntries' = AddEntry(newEntries, file[line + 1])
    /\ UNCHANGED <<file, phase, entries, connected, database, listener>>

(* The loop does not get past such a line. *)
MutantReloadFails == AtLine /\ file[line + 1].kind = "bad" /\ UNCHANGED vars

(* A line without an equals sign: main ends as if there were no file. *)
ReloadFails == AtLine /\ file[line + 1].kind = "bad" /\ Ends("reported")

(* The end of the file. *)
Reload ==
    /\ phase = "config" /\ file # NoFile /\ line = Len(file)
    /\ entries' = newEntries
    /\ phase' = "load"
    /\ UNCHANGED <<file, line, newEntries, connected, database, listener>>

PoolSize == GetStringDefault("AuthDatabase.ConnectionPool", 10)

(* LoadDatabase reads the size of the pool before CreateDatabase is called. *)
LoadDatabase ==
    /\ phase = "load"
    /\ IF GetIntThrows("AuthDatabase.ConnectionPool") THEN Ends("terminated")
                                                      ELSE Ends("connect")

(* The constructor of ConnectionPool. *)
Connect ==
    /\ phase = "connect" /\ connected < PoolSize
    /\ connected' = connected + 1
    /\ UNCHANGED <<config, phase, database, listener>>

(* The server refuses the schema, or cannot be reached; see ConnectionPool. *)
ConnectFails ==
    /\ phase = "connect" /\ connected < PoolSize
    /\ Ends("reported") \/ Ends("crashed")

(* CreateDatabase, when all connections are made. *)
DatabaseCreated ==
    /\ phase = "connect" /\ connected >= PoolSize
    /\ database' = Holder(StrSplit(GetStringDefault("AuthDatabaseInfo", <<>>)), PoolSize)
    /\ phase' = "listen"
    /\ UNCHANGED <<config, connected, listener>>

BindIP == GetStringDefault("BindIP", Localhost)

(* from_string and std::stoi take what the file has for the Listener. *)
Listenable ==
    /\ BindIP \in Addresses
    /\ ~GetIntThrows("AuthServerPort") /\ ~GetIntThrows("NetworkThreadProcessors")

(* The number of workers is not narrowed to the type of the parameter. *)
MutantListen ==
    /\ phase = "listen" /\ Listenable
    /\ listener' = [address |-> BindIP,
                    port    |-> GetStringDefault("AuthServerPort", 10009) % 2^16,
                    workers |-> GetStringDefault("NetworkThreadProcessors", 1)]
    /\ phase' = "up"
    /\ UNCHANGED <<config, connected, database>>

(* The constructor of Listener; its parameters are uint16 and uint8, and   *)
(* BeginAccept takes the first of the workers.                             *)
Listen ==
    /\ phase = "listen" /\ Listenable
    /\ listener' = [address |-> BindIP,
                    port    |-> GetStringDefault("AuthServerPort", 10009) % 2^16,
                    workers |-> GetStringDefault("NetworkThreadProcessors", 1) % 2^8]
    /\ phase' = IF listener'.workers = 0 THEN "undefined" ELSE "up"
    /\ UNCHANGED <<config, connected, database>>

(* A number or an address that is none, or the port is not to be had. *)
ListenThrows == phase = "listen" /\ Ends("terminated")

(* The first QueryDatabase: GetDatabase knows the database by its name. *)
Login ==
    /\ phase = "up"
    /\ IF database.name = Auth THEN UNCHANGED vars ELSE Ends("crashed")

Over == phase \in EndedPhases /\ UNCHANGED vars

Main == \/ OpenFails \/ ReadLine \/ ReloadFails \/ Reload \/ LoadDatabase
        \/ Connect \/ ConnectFails \/ DatabaseCreated \/ Listen \/ ListenThrows

Next == Main \/ Login \/ Over

Spec == Init /\ [][Next]_vars

(* main goes on: a connect succeeds or fails in the end.                   *)
FairSpec == Spec /\ WF_vars(Main)
-----------------------------------------------------------------------------
(* The last value the file has for a key, or the default. *)
LastOf(key, default) ==
    LET of == {i \in DOMAIN file : file[i].kind = "entry" /\ file[i].key = key}
    IN  IF of = {} THEN default
        ELSE file[CHOOSE i \in of : \A j \in of : j <= i].value

Port    == LastOf("AuthServerPort", 10009)
Workers == LastOf("NetworkThreadProcessors", 1)
Written == LastOf("AuthDatabaseInfo", <<>>)

HolderOf(fields) ==
    /\ database.host = fields[1] /\ database.port = fields[2]
    /\ database.user = fields[3] /\ database.password = fields[4]
    /\ database.name = fields[5]

(* The types of the variables; the file and the texts in it are given. *)
TypeOK ==
    /\ phase \in StartingPhases \union {"up"} \union EndedPhases
    /\ line \in Nat /\ connected \in Nat
    /\ database = None \/ database.size \in Int
    /\ listener \in [address : Texts, port : 0 .. 2^16 - 1, workers : 0 .. 2^8 - 1]

(* A server that listens has read the file to its end, and uses of each    *)
(* key what the last line with it says, to the letter, or the default: the *)
(* address; the port, if it is one; the number of workers, if an uint8 can *)
(* hold it; a pool of the size given, which is filled; and the five fields *)
(* of AuthDatabaseInfo each in its place, if none is empty.  Of a number   *)
(* that does not fit, and of empty fields, it says nothing: with those the *)
(* server is another one than the file describes.                          *)
FileIsObeyed ==
    phase = "up" =>
        /\ \A i \in DOMAIN file : file[i].kind # "bad"
        /\ listener.address = LastOf("BindIP", Localhost)
        /\ Port \in 0 .. 2^16 - 1 => listener.port = Port
        /\ Workers \in 0 .. 2^8 - 1 => listener.workers = Workers
        /\ connected = LastOf("AuthDatabase.ConnectionPool", 10)
        /\ database.size = connected
        /\ Len(Written) = 5 /\ (\A i \in 1 .. 5 : Written[i] # Empty) => HolderOf(Written)

(* The start is over in the end, with a server or without.                 *)
StartsOrEnds == <>(phase \notin StartingPhases)
=============================================================================
