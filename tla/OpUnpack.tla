--------------------------------- MODULE OpUnpack --------------------------
(***************************************************************************)
(* What the unpack functions of the MPI operations read after the header.  *)
(***************************************************************************)
EXTENDS OpLayout

unpack_op_MPI_Abort == Fields(<<"comm", "errorcode">>)
unpack_op_MPI_Address == Fields(<<"location", "address">>)
unpack_op_MPI_Allgather ==
  Fields(<<"buf", "count", "datatype", "recvbuf", "recvcount", "recvtype", "comm">>)
unpack_op_MPI_Allgatherv ==
  Fields(<<"buf", "count", "datatype", "recvbuf">>) \o Counted("recvcounts") \o Counted("displs")
  \o Fields(<<"recvtype", "comm", "size">>)
unpack_op_MPI_Allreduce == Fields(<<"buf", "recvbuf", "count", "datatype", "op", "comm">>)
unpack_op_MPI_Alltoall ==
  Fields(<<"buf", "count", "datatype", "recvbuf", "recvcount", "recvtype", "comm">>)
unpack_op_MPI_Alltoallv ==
  Fields(<<"buf">>) \o Counted("counts") \o Counted("sdispls") \o Fields(<<"datatype",
  "recvbuf">>) \o Counted("recvcounts") \o Counted("rdispls") \o Fields(<<"recvtype", "comm",
  "size">>)
unpack_op_MPI_Attr_delete == Fields(<<"comm", "keyval">>)
unpack_op_MPI_Attr_get == Fields(<<"comm", "keyval", "attr_value", "flag">>)
unpack_op_MPI_Attr_put == Fields(<<"comm", "keyval", "attr_value">>)
unpack_op_MPI_Barrier == Fields(<<"comm">>)
unpack_op_MPI_Bcast == Fields(<<"buf", "count", "datatype", "root", "comm">>)
unpack_op_MPI_Bsend == Fields(<<"buf", "count", "datatype", "dest", "tag", "comm">>)
unpack_op_MPI_Bsend_init == Fields(<<"buf", "count", "datatype", "dest", "tag", "comm", "request">>)
unpack_op_MPI_Buffer_attach == Fields(<<"buf", "size">>)
unpack_op_MPI_Buffer_detach == Fields(<<"bufptr", "size">>)
unpack_op_MPI_Cancel == Fields(<<"request">>)
unpack_op_MPI_Cart_coords == Fields(<<"comm", "rank", "count">>) \o Counted("array_of_coords")
unpack_op_MPI_Cart_create ==
  Fields(<<"comm", "count">>) \o Counted("array_of_dims") \o Counted("array_of_periods")
  \o Fields(<<"reorder", "comm_out">>)
unpack_op_MPI_Cart_get ==
  Fields(<<"comm", "count">>) \o Counted("array_of_dims") \o Counted("array_of_periods")
  \o Counted("array_of_coords")
unpack_op_MPI_Cart_map ==
  Fields(<<"comm", "count">>) \o Counted("array_of_dims") \o Counted("array_of_periods")
  \o Fields(<<"newrank">>)
unpack_op_MPI_Cart_rank == Fields(<<"comm">>) \o Counted("retcoords") \o Fields(<<"rank", "size">>)
unpack_op_MPI_Cart_shift == Fields(<<"comm", "direction", "displ", "cart_src", "cart_dest">>)
unpack_op_MPI_Cart_sub == Fields(<<"comm">>) \o Counted("dimsp") \o Fields(<<"comm_out", "size">>)
unpack_op_MPI_Cartdim_get == Fields(<<"comm", "ndims_p">>)
unpack_op_MPI_Comm_compare == Fields(<<"comm1", "comm2", "result">>)
unpack_op_MPI_Comm_create == Fields(<<"comm", "group", "comm_out">>)
unpack_op_MPI_Comm_dup == Fields(<<"comm", "comm_out">>)
unpack_op_MPI_Comm_free == Fields(<<"commp", "comm">>)
unpack_op_MPI_Comm_get_name == Fields(<<"comm", "namep", "reslen">>)
unpack_op_MPI_Comm_group == Fields(<<"comm", "group_out">>)
unpack_op_MPI_Comm_rank == Fields(<<"comm", "rank">>)
unpack_op_MPI_Comm_remote_group == Fields(<<"comm", "group_out">>)
unpack_op_MPI_Comm_remote_size == Fields(<<"comm", "size">>)
unpack_op_MPI_Comm_set_name == Fields(<<"comm", "name">>)
unpack_op_MPI_Comm_size == Fields(<<"comm", "size">>)
unpack_op_MPI_Comm_split == Fields(<<"comm", "color", "key", "comm_out">>)
unpack_op_MPI_Comm_test_inter == Fields(<<"comm", "flag">>)
unpack_op_MPI_Dims_create == Fields(<<"nnodes", "count">>) \o Counted("array_of_dims")
unpack_op_MPI_Errhandler_create == Fields(<<"function", "errhandler">>)
unpack_op_MPI_Errhandler_free == Fields(<<"errhandler">>)
unpack_op_MPI_Errhandler_get == Fields(<<"comm", "errhandler">>)
unpack_op_MPI_Errhandler_set == Fields(<<"comm", "errhandler_notptr">>)
unpack_op_MPI_Error_class == Fields(<<"errorcode", "errorclass">>)
unpack_op_MPI_Error_string == Fields(<<"errorcode", "string", "reslen">>)
unpack_op_MPI_Finalize == <<>>
unpack_op_MPI_Finalized == Fields(<<"flag">>)
unpack_op_MPI_Gather ==
  Fields(<<"buf", "count", "datatype", "recvbuf", "recvcount", "recvtype", "root", "comm">>)
unpack_op_MPI_Gatherv ==
  Fields(<<"buf", "count", "datatype", "recvbuf">>) \o Counted("recvcounts") \o Counted("displs")
  \o Fields(<<"recvtype", "root", "comm", "size">>)
unpack_op_MPI_Get_count ==
  Fields(<<"status_src", "datatype", "countp", "status_src", "statuses_srcs">>)
unpack_op_MPI_Get_elements == Fields(<<"status_src", "datatype", "elements">>)
unpack_op_MPI_Get_processor_name == Fields(<<"name", "reslen">>)
unpack_op_MPI_Get_version == Fields(<<"version", "subversion">>)
unpack_op_MPI_Graph_create ==
  Fields(<<"comm", "count">>) \o Counted("array_of_degrees") \o Counted("edges")
  \o Fields(<<"reorder", "comm_out">>)
unpack_op_MPI_Graph_get ==
  Fields(<<"comm", "count", "edgecount">>) \o Counted("array_of_degrees") \o Counted("retedges")
unpack_op_MPI_Graph_map ==
  Fields(<<"comm", "count">>) \o Counted("array_of_degrees") \o Counted("edges")
  \o Fields(<<"newrank">>)
unpack_op_MPI_Graph_neighbors ==
  Fields(<<"comm", "rank", "count">>) \o Counted("array_of_neighbors")
unpack_op_MPI_Graph_neighbors_count == Fields(<<"comm", "rank", "nneighbors">>)
unpack_op_MPI_Graphdims_get == Fields(<<"comm", "nnodes", "edgecountp">>)
unpack_op_MPI_Group_compare == Fields(<<"group1", "group2", "result">>)
unpack_op_MPI_Group_difference == Fields(<<"group1", "group2", "group_out">>)
unpack_op_MPI_Group_excl ==
  Fields(<<"group", "count">>) \o Counted("array_of_ranks") \o Fields(<<"group_out">>)
unpack_op_MPI_Group_free == Fields(<<"group_out">>)
unpack_op_MPI_Group_incl ==
  Fields(<<"group", "count">>) \o Counted("array_of_ranks") \o Fields(<<"group_out">>)
unpack_op_MPI_Group_intersection == Fields(<<"group1", "group2", "group_out">>)
unpack_op_MPI_Group_range_excl ==
  Fields(<<"group", "count">>) \o Counted("ranges") \o Fields(<<"group_out">>)
unpack_op_MPI_Group_range_incl ==
  Fields(<<"group", "count">>) \o Counted("ranges") \o Fields(<<"group_out">>)
unpack_op_MPI_Group_rank == Fields(<<"group", "rank">>)
unpack_op_MPI_Group_size == Fields(<<"group", "size">>)
unpack_op_MPI_Group_translate_ranks ==
  Fields(<<"group1", "count">>) \o Counted("array_of_ranks") \o Fields(<<"group2">>)
  \o Counted("array_of_ranks2")
unpack_op_MPI_Group_union == Fields(<<"group1", "group2", "group_out">>)
unpack_op_MPI_Handle2int == Fields(<<"c_handle", "handle_kind">>)
unpack_op_MPI_Ibsend == Fields(<<"buf", "count", "datatype", "dest", "tag", "comm", "request">>)
unpack_op_MPI_Info_c2f == Fields(<<"info">>)
unpack_op_MPI_Info_create == Fields(<<"info">>)
unpack_op_MPI_Info_delete == Fields(<<"info", "key">>)
unpack_op_MPI_Info_dup == Fields(<<"info", "newinfo">>)
unpack_op_MPI_Info_f2c == Fields(<<"info">>)
unpack_op_MPI_Info_free == Fields(<<"info">>)
unpack_op_MPI_Info_get == Fields(<<"info", "key", "valuelen", "value", "flag">>)
unpack_op_MPI_Info_get_nkeys == Fields(<<"info", "nkeys">>)
unpack_op_MPI_Info_get_nthkey == Fields(<<"info", "count", "key">>)
unpack_op_MPI_Info_get_valuelen == Fields(<<"info", "key", "valuelen", "flag">>)
unpack_op_MPI_Info_set == Fields(<<"info", "key", "value">>)
unpack_op_MPI_Init == Fields(<<"argc", "argv">>)
unpack_op_MPI_Initialized == Fields(<<"flag">>)
unpack_op_MPI_Int2handle == Fields(<<"f_handle", "handle_kind">>)
unpack_op_MPI_Intercomm_create ==
  Fields(<<"comm", "local_leader", "peer_comm", "remote_leader", "tag", "comm_out", "comm1">>)
unpack_op_MPI_Intercomm_merge == Fields(<<"comm", "high", "comm_out">>)
unpack_op_MPI_Iprobe == Fields(<<"source", "tag", "comm", "flag", "status_src">>)
unpack_op_MPI_Irecv == Fields(<<"buf", "count", "datatype", "source", "tag", "comm", "request">>)
unpack_op_MPI_Irsend == Fields(<<"buf", "count", "datatype", "dest", "tag", "comm", "request">>)
unpack_op_MPI_Isend == Fields(<<"buf", "count", "datatype", "dest", "tag", "comm", "request">>)
unpack_op_MPI_Issend == Fields(<<"buf", "count", "datatype", "dest", "tag", "comm", "request">>)
unpack_op_MPI_Keyval_create ==
  Fields(<<"copy_function", "delete_function", "keyval", "extra_state">>)
unpack_op_MPI_Keyval_free == Fields(<<"keyval">>)
unpack_op_MPI_Op_create == Fields(<<"function", "commute", "op">>)
unpack_op_MPI_Op_free == Fields(<<"op">>)
unpack_op_MPI_Pack ==
  Fields(<<"inbuf", "incount", "datatype", "outbuf", "outcount", "position", "comm">>)
unpack_op_MPI_Pack_size == Fields(<<"incount", "datatype", "comm", "size">>)
unpack_op_MPI_Pcontrol == Fields(<<"level">>)
unpack_op_MPI_Probe == Fields(<<"source", "tag", "comm", "status_src">>)
unpack_op_MPI_Recv == Fields(<<"buf", "count", "datatype", "source", "tag", "comm", "status_src">>)
unpack_op_MPI_Recv_init ==
  Fields(<<"buf", "count", "datatype", "source", "tag", "comm", "request">>)
unpack_op_MPI_Reduce == Fields(<<"buf", "recvbuf", "count", "datatype", "op", "root", "comm">>)
unpack_op_MPI_Reduce_scatter ==
  Fields(<<"buf", "recvbuf">>) \o Counted("recvcounts") \o Fields(<<"datatype", "op", "comm",
  "size">>)
unpack_op_MPI_Request_c2f == Fields(<<"c_request">>)
unpack_op_MPI_Request_free == Fields(<<"request">>)
unpack_op_MPI_Rsend == Fields(<<"buf", "count", "datatype", "dest", "tag", "comm">>)
unpack_op_MPI_Rsend_init == Fields(<<"buf", "count", "datatype", "dest", "tag", "comm", "request">>)
unpack_op_MPI_Scan == Fields(<<"buf", "recvbuf", "count", "datatype", "op", "comm">>)
unpack_op_MPI_Scatter ==
  Fields(<<"buf", "count", "datatype", "recvbuf", "recvcount", "recvtype", "root", "comm">>)
unpack_op_MPI_Scatterv ==
  Fields(<<"buf">>) \o Counted("counts") \o Counted("displs") \o Fields(<<"datatype", "recvbuf",
  "recvcount", "recvtype", "root", "comm", "size">>)
unpack_op_MPI_Send == Fields(<<"buf", "count", "datatype", "dest", "tag", "comm">>)
unpack_op_MPI_Send_init == Fields(<<"buf", "count", "datatype", "dest", "tag", "comm", "request">>)
unpack_op_MPI_Sendrecv ==
  Fields(<<"buf", "count", "datatype", "dest", "sendtag", "recvbuf", "recvcount", "recvtype",
  "source", "recvtag", "comm", "status_src">>)
unpack_op_MPI_Sendrecv_replace ==
  Fields(<<"buf", "count", "datatype", "dest", "sendtag", "source", "recvtag", "comm",
  "status_src", "recvbuf", "recvcount", "recvtype">>)
unpack_op_MPI_Ssend == Fields(<<"buf", "count", "datatype", "dest", "tag", "comm">>)
unpack_op_MPI_Ssend_init == Fields(<<"buf", "count", "datatype", "dest", "tag", "comm", "request">>)
unpack_op_MPI_Start == Fields(<<"request">>)
unpack_op_MPI_Startall == Fields(<<"count">>) \o Counted("array_of_requests")
unpack_op_MPI_Status_c2f == Fields(<<"c_status", "f_status">>)
unpack_op_MPI_Status_f2c == Fields(<<"f_status", "c_status">>)
unpack_op_MPI_Test == Fields(<<"request", "flag", "status_src">>)
unpack_op_MPI_Test_cancelled == Fields(<<"status_src", "flag">>)
unpack_op_MPI_Testall ==
  Fields(<<"count">>) \o Counted("array_of_requests") \o Fields(<<"flag">>)
  \o Counted("statuses_srcs")
unpack_op_MPI_Testany ==
  Fields(<<"count">>) \o Counted("array_of_requests") \o Fields(<<"index", "flag",
  "status_src">>)
unpack_op_MPI_Testsome ==
  Fields(<<"count">>) \o Counted("array_of_requests") \o Fields(<<"outcount">>)
  \o Counted("array_of_indices") \o Counted("statuses_srcs") \o Fields(<<"flag">>)
unpack_op_MPI_Topo_test == Fields(<<"comm", "top_type">>)
unpack_op_MPI_Type_commit == Fields(<<"newtype">>)
unpack_op_MPI_Type_contiguous == Fields(<<"count", "old_type", "newtype">>)
unpack_op_MPI_Type_count == Fields(<<"datatype", "count">>)
unpack_op_MPI_Type_create_darray ==
  Fields(<<"size", "rank", "count">>) \o Counted("array_of_gsizes")
  \o Counted("array_of_distribs") \o Counted("array_of_dargs") \o Counted("array_of_psizes")
  \o Fields(<<"order", "datatype", "newtype">>)
unpack_op_MPI_Type_create_indexed_block ==
  Fields(<<"count", "blocklength">>) \o Counted("array_of_displacements") \o Fields(<<"datatype",
  "newtype">>)
unpack_op_MPI_Type_create_subarray ==
  Fields(<<"count">>) \o Counted("array_of_sizes") \o Counted("array_of_subsizes")
  \o Counted("array_of_starts") \o Fields(<<"order", "datatype", "newtype">>)
unpack_op_MPI_Type_extent == Fields(<<"datatype", "extent">>)
unpack_op_MPI_Type_free == Fields(<<"newtype">>)
unpack_op_MPI_Type_get_contents ==
  Fields(<<"datatype", "count", "addrcount", "dtypecount">>) \o Counted("array_of_integers")
  \o Counted("the_addresses") \o Counted("the_datatypes")
unpack_op_MPI_Type_get_envelope ==
  Fields(<<"datatype", "num_integers", "num_addresses", "num_datatypes", "combiner">>)
unpack_op_MPI_Type_hindexed ==
  Fields(<<"count">>) \o Counted("array_of_blocklens") \o Counted("array_of_displacements")
  \o Fields(<<"datatype", "newtype">>)
unpack_op_MPI_Type_hvector == Fields(<<"count", "blocklen", "stride", "datatype", "newtype">>)
unpack_op_MPI_Type_indexed ==
  Fields(<<"count">>) \o Counted("array_of_blocklens") \o Counted("array_of_displacements")
  \o Fields(<<"datatype", "newtype">>)
unpack_op_MPI_Type_lb == Fields(<<"datatype", "displacement">>)
unpack_op_MPI_Type_size == Fields(<<"datatype", "size">>)
unpack_op_MPI_Type_struct ==
  Fields(<<"count">>) \o Counted("array_of_blocklens") \o Counted("array_of_displacements")
  \o Counted("array_of_types") \o Fields(<<"newtype">>)
unpack_op_MPI_Type_ub == Fields(<<"datatype", "displacement">>)
=============================================================================
