------------------------------- MODULE PageLinks -------------------------------
(***************************************************************************)
(* The link extractor of src/crawler/link_extractor.go: which links it     *)
(* finds in the content of a page, in which order, and whether they are    *)
(* to be followed.                                                         *)
(*                                                                         *)
(* A URL is a record of scheme, host, path and fragment, the path a        *)
(* sequence of segments the last of which is the name of a file, or "".    *)
(* A target, the value of an href attribute, is what url.Parse makes of    *)
(* it, with None for a part that is missing; or Empty, or Malformed.       *)
(* Content is a record of the target of the first base tag, or None, and   *)
(* of the sequence of a tags.                                              *)
(***************************************************************************)
EXTENDS Integers, Sequences, SequencesExt

CONSTANTS None, Empty, Malformed,
          Private,      \* hosts in private networks
          Excluded      \* names of files that cannot be HTML

(* Reference resolution, of package net/url.                                *)
ResolveReference(base, t) ==
    IF t.scheme # None THEN t
    ELSE IF t.host # None THEN [t EXCEPT !.scheme = base.scheme]
    ELSE [base EXCEPT
            !.path = IF t.path = <<>> THEN @
                     ELSE IF t.rooted THEN t.path
                     ELSE SubSeq(@, 1, Len(@) - 1) \o t.path,
            !.fragment = t.fragment]

(* resolveURL: a target with a host and no scheme takes the scheme of the  *)
(* page, which is what the reference resolution would do too.              *)
ResolveURL(relTo, t) ==
    IF t \in {Empty, Malformed} THEN None
    ELSE IF t.scheme = None /\ t.host # None
         THEN ResolveReference(relTo, [t EXCEPT !.scheme = relTo.scheme])
    ELSE ResolveReference(relTo, t)

(* ensureHasTrailingSlash, which has no answer for the empty string.        *)
EnsureHasTrailingSlash(t) ==
    IF t = Malformed \/ (t.path # <<>> /\ Last(t.path) = "") THEN t
    ELSE [t EXCEPT !.path = Append(@, "")]

Panics(content) == content.base = Empty

(* What links are relative to.                                              *)
RelTo(url, content) ==
    IF content.base = None THEN url
    ELSE LET base == ResolveURL(url, EnsureHasTrailingSlash(content.base))
         IN  IF base = None THEN url ELSE base

RetainLink(srcHost, link) ==
    /\ link # None
    /\ link.scheme \in {"http", "https"}
    /\ link.host = srcHost \/ link.host \notin Private

Unfragmented(link) == [scheme |-> link.scheme, host |-> link.host, path |-> link.path, fragment |-> None]

IsExcluded(url) == url.path # <<>> /\ Last(url.path) \in Excluded

(* One match of the loop over the a tags.                                   *)
Visit(relTo, found, tag) ==
    LET link == ResolveURL(relTo, tag.href)
    IN  IF ~RetainLink(relTo.host, link) THEN found
        ELSE LET url == Unfragmented(link)
             IN  IF url \in found.seen \/ IsExcluded(url) THEN found
                 ELSE IF tag.nofollow
                      THEN [found EXCEPT !.seen = @ \union {url}, !.noFollowLinks = Append(@, url)]
                      ELSE [found EXCEPT !.seen = @ \union {url}, !.links = Append(@, url)]

LinksIn(relTo, tags) ==
    LET found[n \in 0..Len(tags)] ==
            IF n = 0 THEN [seen |-> {}, noFollowLinks |-> <<>>, links |-> <<>>]
            ELSE Visit(relTo, found[n - 1], tags[n])
    IN  found[Len(tags)]

FindLinks(url, content) == LinksIn(RelTo(url, content), content.tags)
=============================================================================
