------------------------------- MODULE MCRouter -------------------------------
(* Rules that share beginnings, differ in a slash or in the type of a       *)
(* parameter, or are for other methods: any three of them, in any order.    *)
EXTENDS Router

On(path, methods) == [path |-> path, methods |-> methods]

MCRules ==
    {On(<<"/">>, {"GET"}),
     On(<<"/", "a">>, {"GET"}),
     On(<<"/", "a">>, {"POST", "HEAD"}),
     On(<<"/", "a", "/">>, {"GET", "POST"}),
     On(<<"/", "a", "/", "/">>, {"GET"}),
     On(<<"/", "a", "b">>, {"GET", "OPTIONS"}),
     On(<<"/", "string">>, {"GET"}),
     On(<<"/", "string", "/">>, {"GET"}),
     On(<<"/", "string", "/", "b">>, {"GET"}),
     On(<<"/", "int", "a">>, {"GET", "POST"}),
     On(<<"/", "uint">>, {"POST"}),
     On(<<"/", "double", "/">>, {"POST"}),
     On(<<"/", "path">>, {"GET"}),
     On(<<"/", "a", "path", "/">>, {"GET"})}

MCUrls ==
    {<<"/">>, <<"/", "a">>, <<"/", "a", "/">>, <<"/", "a", "/", "/">>, <<"/", "a", "b">>, <<"/", "b">>,
     <<"/", "a", "/", "b">>, <<"/", "1">>, <<"/", "1", "2", "a">>, <<"/", "-", "1", "a">>,
     <<"/", "-", "a">>, <<"/", "1", ".", "2">>, <<"/", "*">>}
=============================================================================
