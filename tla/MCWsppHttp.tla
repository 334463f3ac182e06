----------------------------- MODULE MCWsppHttp -----------------------------
(* WsppHttp for TLC: two settings files over five files and two directories. *)
EXTENDS WsppHttp, TLC

MCPaths == {"f/x.js", "f/x.js.gz", "a.html", "g/y.css", "g/z.html"}
MCName == ("f/x.js"    :> [size |-> 6, suffix |-> ".js"]) @@
          ("f/x.js.gz" :> [size |-> 9, suffix |-> ".js.gz"]) @@
          ("a.html"    :> [size |-> 6, suffix |-> ".html"]) @@
          ("g/y.css"   :> [size |-> 7, suffix |-> ".css"]) @@
          ("g/z.html"  :> [size |-> 8, suffix |-> ".html"])

MCLocations == {"/", "/x", "/d/", "/d/x.js", "/d/y.css", "/d/z.html"}
MCUnder == [lp \in MCLocations \X MCPaths |->
               CASE lp[2] \in {"f/x.js", "f/x.js.gz"} -> "/d/x.js"
                 [] lp[2] = "g/y.css" -> "/d/y.css"
                 [] OTHER -> "/d/z.html"]

MCDirs == {"f", "g"}
MCInDir == ("f" :> {"f/x.js", "f/x.js.gz"}) @@ ("g" :> {"g/y.css", "g/z.html"})

WithFiles(location, files) == [location |-> location, files |-> files, dirs |-> <<>>]
WithDirs(location, dirNames) == [location |-> location, files |-> <<>>, dirs |-> dirNames]

\* as in localhost.settings.json, with a broken entry and one of directories
MCSettingsFiles == {
    <<WithFiles("", <<"a.html">>),
      WithFiles("/x", <<"f/x.js", "f/x.js.gz">>),
      WithDirs("/d/", <<"f", "g">>)>>,
    <<WithDirs("/d/", <<>>),
      WithFiles("/", <<"a.html", "g/z.html">>),
      WithFiles("/x", <<"g/y.css">>)>>}
MCAppLocations == {"/"}
=============================================================================
