------------------------------- MODULE MCGates --------------------------------
EXTENDS Gates

CONSTANTS k1, j1, s1, s2, ann, r1, r2

MCPaths == {"page", "api", "open", "share", "ingest", "shell"}
MCPipelines == [p \in MCPaths |->
    CASE p = "share" -> <<"capability">>
      [] p = "ingest" -> <<"auth", "key">>
      [] OTHER -> <<"auth">>]

G(paths, kind, at) == [paths |-> paths, kind |-> kind, at |-> at]

Prod(gates, unmatched, onError) ==
    [gates |-> gates, unmatched |-> unmatched, onError |-> onError, dev |-> FALSE, persona |-> None]
Dev(persona) == [Prod(<<>>, "deny", FALSE) EXCEPT !.dev = TRUE, !.persona = persona]

(* Services before people, people before services and a public path behind  *)
(* a human rule, only services, and two apps in dev.                        *)
MCApps == {
    Prod(<< G({"open"}, "public", "authorization"),
            G({"api", "open"}, "service", "authorization"),
            G({"page", "api"}, "human", "authorization") >>, "public", FALSE),
    Prod(<< G({"api", "page"}, "human", "authorization"),
            G({"api"}, "service", "header"),
            G({"page"}, "public", "authorization") >>, "deny", FALSE),
    Prod(<< G({"api"}, "service", "query"),
            G({"api", "ingest"}, "service", "authorization") >>, "deny", TRUE),
    Dev(None), Dev(ann) }

Nothing == [p \in Places |-> None]
MCLoads ==
    { Nothing,
      [Nothing EXCEPT !["authorization"] = k1],
      [Nothing EXCEPT !["authorization"] = j1, !["query"] = k1],
      [Nothing EXCEPT !["authorization"] = Junk, !["header"] = Junk, !["token"] = s1, !["__as"] = Junk],
      [Nothing EXCEPT !["header"] = k1, !["opice_read"] = k1, !["persona"] = ann] }

===============================================================================
