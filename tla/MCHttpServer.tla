---------------------------- MODULE MCHttpServer ----------------------------
\* Instance of HttpServer for TLC: two connections, the streams of which are
\* pipelined, close in the middle, hold a body or end headers without a colon.
EXTENDS HttpServer

MCConn == 1..2
MCStreams ==
  << {<<"get11", "field", "", "get11", "", "get11", "close", "">>,
      <<"get20", "close", "keep-alive", "no colon", "head11", "", "get11", "">>,
      <<"get11", "", "a body", "get11", "">>},
     {<<"get10", "">>} >>
=============================================================================
