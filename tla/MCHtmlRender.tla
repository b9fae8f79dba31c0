---------------------------- MODULE MCHtmlRender ----------------------------
(* HtmlRender with one doctor and the requests of one page.                 *)
EXTENDS HtmlRender

CONSTANTS html, doctor

Sent(how, protocol, target, of_page) ==
    [route |-> how, scheme |-> protocol, host |-> target,
     local_origin |-> FALSE, attributed |-> of_page]

\* A resource of the page that the policy may reject or allow, and a request of
\* the browser itself that it rejects.
MCRequests ==
    {Sent("connect", "https", "name", TRUE), Sent("http", "http", "private", FALSE)}

\* Answers with one public address, none, and a public one before a private one.
MCDnsAnswers == {<<>>, <<"public">>, <<"public", "private">>}
=============================================================================
