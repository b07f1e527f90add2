----------------------------- MODULE MCRequests -----------------------------
(* Three configurations and the requests for checking Requests. *)
EXTENDS Requests

Loc(matchType, match, type, root, targets) ==
  [matchType |-> matchType, match |-> match, type |-> type, root |-> root, targets |-> targets,
   address |-> FALSE]

\* with an upstream server, or a group that is not empty
Passing(loc) == [loc EXCEPT !.address = TRUE]

Targets(file) == << [kind |-> "$uri", text |-> <<"u">>], [kind |-> "$uri/", text |-> <<"u", "/">>],
                    [kind |-> "file", text |-> file] >>

Server(names, ports, autoIndex, locations) ==
  [names |-> names, ports |-> ports, autoIndex |-> autoIndex, locations |-> locations]

\* every kind of location
Mixed == << Server({"a"}, <<443>>, FALSE,
  << Loc("equal",  <<"t">>, {"DOC_ROOT", "TRY_FILES"}, <<"r">>, Targets(<<"x">>)),
     Loc("equal",  <<"m">>, {"DOC_ROOT", "TRY_FILES"}, <<"r">>, Tail(Targets(<<"x">>))),
     Passing(Loc("equal", <<"q">>, {"DOC_ROOT", "TRY_FILES", "PROXY_PASS"}, <<"r">>, Targets(<<"x">>))),
     Passing(Loc("regex", {<<"g">>, <<"t">>}, {"DOC_ROOT", "PROXY_PASS", "UPSTREAM_GROUP"}, <<"r">>, <<>>)),
     Loc("equal",  <<"f">>, {"DOC_ROOT", "FASTCGI_PASS"}, <<"r">>, <<>>),
     Loc("prefix", <<"d">>, {"DOC_ROOT"}, <<"r">>, <<>>) >>) >>

\* two servers, which tell requests apart by name and port
Named == << Server({"a"}, <<443>>, FALSE,
              << Loc("prefix", <<"t">>, {"DOC_ROOT", "TRY_FILES"}, <<"r">>, Targets(<<"x">>)),
                 Loc("prefix", <<"s">>, {"DOC_ROOT"}, <<"r">>, <<>>) >>),
            Server({"a", "b"}, <<8443, 443>>, FALSE,
              << Loc("prefix", <<"s">>, {"DOC_ROOT", "TRY_FILES"}, <<"s">>, Targets(<<"y", "y">>)) >>) >>

\* directories may be listed
Browsed == << Server({"a"}, <<443>>, TRUE,
                << Loc("prefix", <<"t">>, {"DOC_ROOT", "TRY_FILES"}, <<"r">>, Targets(<<"x">>)),
                   Loc("prefix", <<"d">>, {"DOC_ROOT"}, <<"r">>, <<>>) >>) >>

MCSites == {Mixed, Named, Browsed}

In(data, name, colon, port, path, verb) ==
  [data |-> data, name |-> name, colon |-> colon, port |-> port, path |-> path, verb |-> verb]

MCInputs ==
  {In(data, "a", FALSE, 0, <<>>, "GET") : data \in {"full", "nothing", "junk", "cut"}} \cup
  {In("ok", "a", FALSE, 0, <<path>>, "GET") : path \in {"t", "m", "q", "f", "g", "d"}} \cup
  {In("ok", "a", FALSE, 0, <<"d">>, "POST"), In("ok", "a", TRUE, 443, <<"d", "d", "d", "d">>, "GET"),
   In("ok", "a", TRUE, 8443, <<"s">>, "GET"), In("ok", "b", TRUE, 443, <<"s">>, "GET"),
   In("ok", "b", TRUE, 0, <<"s">>, "GET"), In("ok", "c", FALSE, 0, <<"s">>, "HEAD")}

WorkerSymmetry == Permutations(Workers)
=============================================================================
