---------------------------- MODULE MCDomainInput ----------------------------
(***************************************************************************)
(* The instance of DomainInput that TLC checks: three items, two of which  *)
(* have names that sanitize_component maps to one, and CIDs of every       *)
(* documented form and of several that are not.                            *)
(***************************************************************************)
EXTENDS DomainInput

CONSTANTS dotted, plain, other, own, foreign, junk,
          nDotted, nPlain, nOther, manifestType, stamp

MCItems == {dotted, plain, other}
MCUuids == MCItems \cup {own, foreign}
MCNameOf == [i \in MCItems |-> CASE i = dotted -> nDotted [] i = plain -> nPlain
                                 [] i = other -> nOther]
MCTypeOf == [i \in MCItems |-> manifestType]
MCStamp == [n \in {nDotted, nPlain, nOther} |-> IF n = nOther THEN stamp ELSE None]
MCClean == [v \in {nDotted, nPlain, nOther, manifestType, stamp} |->
                IF v = nDotted THEN nPlain ELSE v]

Id(i) == [form |-> "id", id |-> i]
Url(path, pairs) == [form |-> "url", relative |-> FALSE, path |-> path, query |-> pairs]
Relative(url) == [url EXCEPT !.relative = TRUE]
At(d) == <<"api", "domains", d, "data">>
By(key, value) == [key |-> key, value |-> value]

MCCids ==
    {\* ids, one of them nobody's and one none at all
     Id(dotted), Id(foreign), Id(junk), [form |-> "malformed"],
     \* the two documented forms of a URL
     Url(At(own) \o <<plain>>, <<>>), Relative(Url(At(own) \o <<other>>, <<>>)),
     Url(At(foreign) \o <<plain>>, <<>>), Url(At(own) \o <<junk>>, <<>>),
     Url(At(own), <<>>), Url(At(foreign), <<>>),
     Url(At(own), <<By("ids", <<dotted, "", plain>>)>>),
     Url(At(own), <<By("ids", <<plain>>), By("name", nPlain), By("ids", <<other>>)>>),
     Url(At(own), <<By("name", nOther), By("data_type", manifestType), By("name", nPlain)>>),
     Url(At(own), <<By("ids", <<junk, plain>>)>>),
     \* others: an id and a query, more segments, a trailing slash, two Domains,
     \* and paths without a Domain
     Url(At(own) \o <<dotted>>, <<By("ids", <<other>>)>>),
     Url(At(own) \o <<plain, "content">>, <<>>), Url(At(own) \o <<plain, "">>, <<>>),
     Url(At(own) \o At(foreign), <<>>),
     Url(<<"data", plain>>, <<>>), Url(<<"domains", own>>, <<By("ids", <<other>>)>>)}
=============================================================================
