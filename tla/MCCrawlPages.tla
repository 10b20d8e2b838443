----------------------------- MODULE MCCrawlPages -----------------------------
(***************************************************************************)
(* A small instance of CrawlPages for TLC: two crawls that share the pool, *)
(* over pages with and without a title and a base tag, and links of all    *)
(* kinds: relative, with a host and no scheme, to a private network, to an *)
(* image, malformed, empty, and twice, once of them with nofollow.         *)
(***************************************************************************)
EXTENDS CrawlPages, TLC

U(scheme, host, path, fragment) == [scheme |-> scheme, host |-> host, path |-> path, fragment |-> fragment]
T(scheme, host, path, rooted, fragment) ==
    [scheme |-> scheme, host |-> host, path |-> path, rooted |-> rooted, fragment |-> fragment]
A(href, nofollow) == [href |-> href, nofollow |-> nofollow]

URLs == ("p1" :> U("http", "h1", <<"a", "b">>, None) @@
         "p2" :> U("https", "h2", <<>>, None) @@
         "p3" :> U("http", "h2", <<"x.png">>, None) @@
         "p4" :> U("http", "h1", <<"">>, None))

Contents ==
    ("p1" :> [base |-> None, titled |-> TRUE,
              tags |-> <<A(T(None, None, <<"c">>, FALSE, "f"), FALSE),
                         A(T("http", "h1", <<"a", "c">>, TRUE, None), TRUE),    \* the same again
                         A(T(None, "lan", <<>>, FALSE, None), FALSE),
                         A(T(None, "h2", <<"">>, TRUE, None), TRUE)>>] @@
     "p2" :> [base |-> T(None, None, <<"d">>, TRUE, None), titled |-> FALSE,
              tags |-> <<A(T(None, None, <<"x.png">>, FALSE, None), FALSE),
                         A(Empty, FALSE), A(Malformed, FALSE),
                         A(T("ftp", "h1", <<"e">>, TRUE, None), FALSE),
                         A(T(None, None, <<"e">>, FALSE, None), FALSE)>>] @@
     "p3" :> [base |-> None, titled |-> FALSE, tags |-> <<>>] @@
     "p4" :> [base |-> Empty, titled |-> TRUE, tags |-> <<>>])

InputSet == {("c1" :> <<"p1", "p2">> @@ "c2" :> <<"p4">>),
             ("c1" :> <<"p3", "p1">> @@ "c2" :> <<"p2">>)}

Symmetry == Permutations(Object) \union Permutations(Fetcher)
=============================================================================
