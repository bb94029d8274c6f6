------------------------------- MODULE IoStubs -------------------------------
(* The io interface as the mig_test stubs have it, ids 21000 to 21004.  The *)
(* handler of io_duplicate picks the disposition of its result.              *)
EXTENDS MigMessage, TLC

io_read_Reply == Layout(21100, <<Data("data", 1)>>, <<Count("data")>>)
io_read ==
  Stub("io_read", <<"offset", "amount">>,
       Layout(21000, <<>>, <<Int64("offset"), Int64("amount")>>), io_read_Reply,
       <<"data">>)
io_read_Request == Shape(<<>>, <<Int64("offset"), Int64("amount")>>)
Xio_read ==
  Routine("io_read", io_read_Request, <<"offset", "amount">>, <<>>,
          Shape(<<Data("data", 1)>>, <<Count("data")>>), <<"data">>)

io_write_Reply == Layout(21101, <<>>, <<Int32("RetCode"), Int64("amount")>>)
io_write ==
  Stub("io_write", <<"data", "offset">>,
       Layout(21001, <<Data("data", 1)>>, <<Count("data"), Int64("offset")>>),
       io_write_Reply, <<"amount">>)
io_write_Request == Shape(<<Data("data", 1)>>, <<Count("data"), Int64("offset")>>)
Xio_write ==
  Routine("io_write", io_write_Request, <<"data", "offset">>, <<"data">>,
          Shape(<<>>, <<Int32("RetCode"), Int64("amount")>>), <<"amount">>)

io_seek_Reply == Layout(21102, <<>>, <<Int32("RetCode"), Int64("newp")>>)
io_seek ==
  Stub("io_seek", <<"offset", "whence">>,
       Layout(21002, <<>>, <<Int64("offset"), Int32("whence")>>), io_seek_Reply,
       <<"newp">>)
io_seek_Request == Shape(<<>>, <<Int64("offset"), Int32("whence")>>)
Xio_seek ==
  Routine("io_seek", io_seek_Request, <<"offset", "whence">>, <<>>,
          Shape(<<>>, <<Int32("RetCode"), Int64("newp")>>), <<"newp">>)

io_readable_Reply == Layout(21103, <<>>, <<Int32("RetCode"), Int64("amount")>>)
io_readable ==
  Stub("io_readable", <<>>,
       Layout(21003, <<>>, <<>>), io_readable_Reply, <<"amount">>)
io_readable_Request == Shape(<<>>, <<>>)
Xio_readable ==
  Routine("io_readable", io_readable_Request, <<>>, <<>>,
          Shape(<<>>, <<Int32("RetCode"), Int64("amount")>>), <<"amount">>)

io_duplicate_Reply == Layout(21104, <<Right("newport", Polymorphic)>>, <<>>)
io_duplicate ==
  Stub("io_duplicate", <<>>,
       Layout(21004, <<>>, <<>>), io_duplicate_Reply, <<"newport">>)
io_duplicate_Request == Shape(<<>>, <<>>)
Xio_duplicate ==
  Routine("io_duplicate", io_duplicate_Request, <<>>, <<>>,
          Shape(<<Right("newport", Polymorphic)>>, <<>>), <<"newport">>)

io_server ==
  [name |-> "io", table |->
    21000 :> Xio_read @@
    21001 :> Xio_write @@
    21002 :> Xio_seek @@
    21003 :> Xio_readable @@
    21004 :> Xio_duplicate]

Callers ==
  {io_read, io_write, io_seek, io_readable, io_duplicate}
==============================================================================
