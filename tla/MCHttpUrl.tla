----------------------------- MODULE MCHttpUrl -----------------------------
(* Small instances of HttpUrl.                                             *)
EXTENDS HttpUrl

MCSchemes == {<<>>, <<"https">>, <<"ftp">>}

MCHosts == {<<>>, <<"h">>}

MCPorts == {-1, 80, 443, 8080, 65536}

MCSegments == {<<>>, <<"a">>, <<".">>, <<"..">>}

MCPaths == {<<"/", "a", "/", "b", "/">>, <<"b", "/", "..", "/", ".", "/", "a">>}

MCNames == {<<"n">>, <<"m">>}

MCValues == {<<>>, <<"v">>}

MCFragments == {<<>>, <<"f">>}

MCBlanks == <<" ", "\t", "\n", "\f", "\r">>

(* Nothing missing, a path of dots, no path, ":" in the path, parameters   *)
(* without a name or a value, "#" before and behind "?", blanks in and out *)
(* of order, a scheme that is not known, no host and nothing but a scheme. *)
MCUrls ==
  {<<"http", ":", "/", "/", "h", ":", "8080", "/", "a", "/", "b",
     "?", "n", "=", "v", "#", "f">>,
   <<" ", "\t", "HTTPS", ":", "/", "/", "h", ":", "/", "..", "/", "a", "\r">>,
   <<"http", ":", "/", "/", "h", ":", "65536">>,
   <<"http", ":", "/", "/", "h", "/", "a", ":", "b">>,
   <<"http", ":", "/", "/", "h", "/", "a",
     "?", "n", "&", "&", "m", "=", "v", "=", "v", "&", "=", "v">>,
   <<"http", ":", "/", "/", "h", "/", "a", "#", "f", "?", "n", "=", "#">>,
   <<"\t", " ", "http", ":", "/", "/", "h">>,
   <<"ftp", ":", "/", "/", "h", "/", "a", "/", "b">>,
   <<"https", ":", "/", "/">>,
   <<"http", ":", " ", " ", " ", " ">>,
   <<"h", "/", "a">>}

=============================================================================
