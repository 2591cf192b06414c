-------------------------------- MODULE MCDaZeus --------------------------------
(* Configuration files of the instances: good ones, and what an editor may *)
(* leave behind.                                                           *)
EXTENDS DaZeus

Section(kind, name, options) == <<Open(kind, name)>> \o options \o <<Closing(kind)>>

DatabaseWith(options) == Section("database", None, options)
Database(type) == DatabaseWith(<<Option("type", type)>>)
Net(name, options) == Section("network", name, options)
Server == Section("server", None, <<Option("host", "irc")>>)
Socket == Section("socket", None, <<Option("type", "unix"), Option("path", "/s")>>)
Plugin(name, options) == Section("plugin", name, options)
PerNet == <<Option("scope", "network")>>
Var(value) == Option("var", <<"key", value>>)
Twofold == PerNet \o <<Option("scope", "global")>>

\* Two names in force, one network before and one after the second.
Inheriting ==
  <<Option("nickname", "A")>> \o Net("n1", Server) \o <<Option("nickname", "B")>>
    \o Database("sqlite") \o Net("n2", <<>>)

Full ==
  Socket \o DatabaseWith(<<Option("type", "sqlite"), Option("port", 70000)>>)
    \o Net("n1", <<Option("nickname", "C")>> \o Server \o Server)
    \o Plugin("p", PerNet)

Other ==
  Database("sqlite") \o Net("n2", <<>>)
    \o Plugin("p", Twofold \o <<Option("parameters", "%s"), Var("v"), Var("w")>>)

\* Rejected by PluginMonitor: a plugin twice.
Twice == Database("sqlite") \o Net("n1", <<>>) \o Plugin("p", <<>>) \o Plugin("p", <<>>)

Unsupported == Database("oracle") \o Net("n1", <<>>)

\* Sections that are repeated, misplaced, unnamed, not closed or closed by
\* another, and an option with a value it may not have.
Broken ==
  { Database("sqlite") \o Database("sqlite"),
    Net("n1", <<>>),
    Net("n1", <<Open("socket", None)>>) \o Database("sqlite"),
    Plugin("", <<>>) \o Database("sqlite"),
    Database("sqlite") \o Server,
    Database("sqlite") \o Section("socket", None, <<Option("port", 65536)>>),
    Database("sqlite") \o Plugin("p", <<Option("var", <<"key">>)>>),
    Database("sqlite") \o <<Open("network", "n1")>>,
    Database("sqlite") \o <<Open("network", "n1"), Open("server", None), Closing("network")>>,
    <<Open("database", None)>> }

Files == {Inheriting, Full, Other, Twice, Unsupported, Missing} \union Broken
SomeFiles == {Inheriting, Other, Unsupported}
=============================================================================
