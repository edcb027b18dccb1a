------------------------------ MODULE MCRedirects ------------------------------
(* A pool, a manager and a manager of each kind of proxy, and redirects to *)
(* the proxy too; headers on one line and on two, in two cases, in both    *)
(* kinds of dictionary.                                                    *)
EXTENDS Redirects

Url(scheme, host) == [scheme |-> scheme, host |-> host]
MCUrls == {Url("http", "first"), Url("http", "second"), Url("https", "first"),
           Url("http", "proxy")}

NoHeaders == Dict(FALSE)
Base == [via |-> "manager", pool |-> Url("http", "first"), assertSameHost |-> TRUE,
         proxy |-> Url("http", "proxy"), forwarding |-> FALSE,
         proxyHeaders |-> NoHeaders]
MCSetups ==
  { Base, [Base EXCEPT !.via = "pool"],
    [Base EXCEPT !.via = "pool", !.assertSameHost = FALSE],
    [Base EXCEPT !.via = "proxy",
                 !.proxyHeaders = SetItem(NoHeaders, Key("proxy-authorization", 1), <<"p">>)],
    [Base EXCEPT !.via = "proxy", !.proxy = Url("https", "proxy"), !.forwarding = TRUE] }

MCSensitive == {"authorization", "cookie", "proxy-authorization"}

Set(d, name, case, val) == SetItem(d, Key(name, case), <<val>>)
AddLine(d, name, case, val) == Add(d, Key(name, case), <<val>>, FALSE)
MCUserHeaders ==
  { Set(Set(Set(Dict(FALSE), "Tag", 1, "a"), "authorization", 2, "s"), "content-type", 1, "t"),
    AddLine(AddLine(AddLine(AddLine(Dict(TRUE), "tag", 1, "a"), "cookie", 1, "c"),
            "tag", 2, "b"), "content-length", 1, "n"),
    Add(AddLine(AddLine(Set(Dict(TRUE), "tag", 1, "a"), "tag", 1, "b"),
            "transfer-encoding", 1, "chunked"), Key("tag", 1), <<"c">>, TRUE) }
================================================================================
