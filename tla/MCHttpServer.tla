---------------------------- MODULE MCHttpServer ----------------------------
EXTENDS HttpServer

Version(v) == [size |-> 8, last |-> v]
Request(m, p, v, hs, b) ==
    [method |-> m, path |-> p, version |-> v, headers |-> hs, body |-> b]

KeepAlive == HeaderUnit("Connection", "Keep-Alive")
Close == HeaderUnit("Connection", "close")

MCRequests ==
    { Request("GET", "/", Version("0"), <<KeepAlive>>, <<>>),
      Request("GET", "/hello", Version("0"), <<>>, <<>>),
      Request("DELETE", "/favicon.ico", Version("1"), <<KeepAlive, Close>>, <<>>),
      Request("POST", "/hello", Version("1"), <<>>, <<TextUnit>>),
      Request("HEAD", "/missing", Version("1"), <<HeaderUnit("Host", "h")>>, <<>>),
      Request("GET", "/", Version("1"), <<TextUnit, Close>>, <<>>),
      Request("PATCH", "/", Version("1"), <<>>, <<>>),
      Request("GET", "/", Version("2"), <<>>, <<>>),
      Request("PUT", "/", [size |-> 0, last |-> ""], <<>>, <<>>) }

\* Three requests in a row are needed for a header to pass from one request to
\* the next but one.
MCThree ==
    { Request("GET", "/", Version("0"), <<KeepAlive>>, <<>>),
      Request("GET", "/hello", Version("0"), <<>>, <<>>) }

MCScripts == {<<r>> : r \in MCRequests} \cup (MCRequests \X MCRequests)
             \cup (MCThree \X MCThree \X MCThree)
=============================================================================
