----------------------------- MODULE MCStartup -----------------------------
(***************************************************************************)
(* The start for TLC: files of up to MaxLines lines out of a few for each  *)
(* key the code reads, with a default overridden, twice, or mistyped.      *)
(***************************************************************************)
EXTENDS Startup, FiniteSets

CONSTANTS MaxLines, Host, SqlPort, User, Password, Habbo, AnyAddress

Entry(key, value) == [kind |-> "entry", key |-> key, value |-> value]

MCLines ==
    {[kind |-> "comment"], [kind |-> "bad"]}
    \union {Entry("AuthServerPort", v) : v \in {10010, 65537, Junk}}
    \union {Entry("NetworkThreadProcessors", v) : v \in {2, 256, 257, Junk}}
    \union {Entry("AuthDatabase.ConnectionPool", v) : v \in {0, 2, Junk}}
    \union {Entry("BindIP", v) : v \in {AnyAddress, Host}}
    \union {Entry("AuthDatabaseInfo", <<Host, SqlPort, User, password, name>>) :
                password \in {Password, Empty}, name \in {Habbo, Auth}}

MCTexts == {Empty, Host, SqlPort, User, Password, Habbo, Auth, Localhost, AnyAddress}

MCAddresses == {Localhost, AnyAddress}

MCFiles == UNION {[1 .. n -> MCLines] : n \in 0 .. MaxLines}
=============================================================================
