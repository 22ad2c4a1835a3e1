---------------------------------- MODULE OpPack ---------------------------
(***************************************************************************)
(* What the pack functions of the MPI operations write after the header, in *)
(* order: one layout per function.  An array stands for its length and that *)
(* many elements.                                                          *)
(***************************************************************************)
EXTENDS OpLayout

pack_op_MPI_Abort == Fields(<<"comm", "errorcode">>)
pack_op_MPI_Address == Fields(<<"location", "address">>)
pack_op_MPI_Allgather ==
  Fields(<<"buf", "count", "datatype", "recvbuf", "recvcount", "recvtype", "comm">>)
pack_op_MPI_Allgatherv ==
  Fields(<<"buf", "count", "datatype", "recvbuf">>) \o Array("recvcounts", "size")
  \o Array("displs", "size") \o Fields(<<"recvtype", "comm", "size">>)
pack_op_MPI_Allreduce == Fields(<<"buf", "recvbuf", "count", "datatype", "op", "comm">>)
pack_op_MPI_Alltoall ==
  Fields(<<"buf", "count", "datatype", "recvbuf", "recvcount", "recvtype", "comm">>)
pack_op_MPI_Alltoallv ==
  Fields(<<"buf">>) \o Array("counts", "size") \o Array("sdispls", "size")
  \o Fields(<<"datatype", "recvbuf">>) \o Array("recvcounts", "size") \o Array("rdispls", "size")
  \o Fields(<<"recvtype", "comm", "size">>)
pack_op_MPI_Attr_delete == Fields(<<"comm", "keyval">>)
pack_op_MPI_Attr_get == Fields(<<"comm", "keyval", "attr_value", "flag">>)
pack_op_MPI_Attr_put == Fields(<<"comm", "keyval", "attr_value">>)
pack_op_MPI_Barrier == Fields(<<"comm">>)
pack_op_MPI_Bcast == Fields(<<"buf", "count", "datatype", "root", "comm">>)
pack_op_MPI_Bsend == Fields(<<"buf", "count", "datatype", "dest", "tag", "comm">>)
pack_op_MPI_Bsend_init == Fields(<<"buf", "count", "datatype", "dest", "tag", "comm", "request">>)
pack_op_MPI_Buffer_attach == Fields(<<"buf", "size">>)
pack_op_MPI_Buffer_detach == Fields(<<"bufptr", "size">>)
pack_op_MPI_Cancel == Fields(<<"request">>)
pack_op_MPI_Cart_coords == Fields(<<"comm", "rank", "count">>) \o Array("array_of_coords", "count")
pack_op_MPI_Cart_create ==
  Fields(<<"comm", "count">>) \o Array("array_of_dims", "count") \o Array("array_of_periods",
  "count") \o Fields(<<"reorder", "comm_out">>)
pack_op_MPI_Cart_get ==
  Fields(<<"comm", "count">>) \o Array("array_of_dims", "count") \o Array("array_of_periods",
  "count") \o Array("array_of_coords", "count")
pack_op_MPI_Cart_map ==
  Fields(<<"comm", "count">>) \o Array("array_of_dims", "count") \o Array("array_of_periods",
  "count") \o Fields(<<"newrank">>)
pack_op_MPI_Cart_rank ==
  Fields(<<"comm">>) \o Array("retcoords", "size") \o Fields(<<"rank", "size">>)
pack_op_MPI_Cart_shift == Fields(<<"comm", "direction", "displ", "cart_src", "cart_dest">>)
pack_op_MPI_Cart_sub ==
  Fields(<<"comm">>) \o Array("dimsp", "size") \o Fields(<<"comm_out", "size">>)
pack_op_MPI_Cartdim_get == Fields(<<"comm", "ndims_p">>)
pack_op_MPI_Comm_compare == Fields(<<"comm1", "comm2", "result">>)
pack_op_MPI_Comm_create == Fields(<<"comm", "group", "comm_out">>)
pack_op_MPI_Comm_dup == Fields(<<"comm", "comm_out">>)
pack_op_MPI_Comm_free == Fields(<<"commp", "comm">>)
pack_op_MPI_Comm_get_name == Fields(<<"comm", "namep", "reslen">>)
pack_op_MPI_Comm_group == Fields(<<"comm", "group_out">>)
pack_op_MPI_Comm_rank == Fields(<<"comm", "rank">>)
pack_op_MPI_Comm_remote_group == Fields(<<"comm", "group_out">>)
pack_op_MPI_Comm_remote_size == Fields(<<"comm", "size">>)
pack_op_MPI_Comm_set_name == Fields(<<"comm", "name">>)
pack_op_MPI_Comm_size == Fields(<<"comm", "size">>)
pack_op_MPI_Comm_split == Fields(<<"comm", "color", "key", "comm_out">>)
pack_op_MPI_Comm_test_inter == Fields(<<"comm", "flag">>)
pack_op_MPI_Dims_create == Fields(<<"nnodes", "count">>) \o Array("array_of_dims", "count")
pack_op_MPI_Errhandler_create == Fields(<<"function", "errhandler">>)
pack_op_MPI_Errhandler_free == Fields(<<"errhandler">>)
pack_op_MPI_Errhandler_get == Fields(<<"comm", "errhandler">>)
pack_op_MPI_Errhandler_set == Fields(<<"comm", "errhandler_notptr">>)
pack_op_MPI_Error_class == Fields(<<"errorcode", "errorclass">>)
pack_op_MPI_Error_string == Fields(<<"errorcode", "string", "reslen">>)
pack_op_MPI_Finalize == <<>>
pack_op_MPI_Finalized == Fields(<<"flag">>)
pack_op_MPI_Gather ==
  Fields(<<"buf", "count", "datatype", "recvbuf", "recvcount", "recvtype", "root", "comm">>)
pack_op_MPI_Gatherv ==
  Fields(<<"buf", "count", "datatype", "recvbuf">>) \o Array("recvcounts", "size")
  \o Array("displs", "size") \o Fields(<<"recvtype", "root", "comm", "size">>)
pack_op_MPI_Get_count ==
  Fields(<<"status_src", "datatype", "countp", "status_src", "statuses_srcs">>)
pack_op_MPI_Get_elements == Fields(<<"status_src", "datatype", "elements">>)
pack_op_MPI_Get_processor_name == Fields(<<"name", "reslen">>)
pack_op_MPI_Get_version == Fields(<<"version", "subversion">>)
pack_op_MPI_Graph_create ==
  Fields(<<"comm", "count">>) \o Array("array_of_degrees", "count") \o Array("edges", "degree")
  \o Fields(<<"reorder", "comm_out">>)
pack_op_MPI_Graph_get ==
  Fields(<<"comm", "count", "edgecount">>) \o Array("array_of_degrees", "count")
  \o Array("retedges", "edgecount")
pack_op_MPI_Graph_map ==
  Fields(<<"comm", "count">>) \o Array("array_of_degrees", "count") \o Array("edges", "degree")
  \o Fields(<<"newrank">>)
pack_op_MPI_Graph_neighbors ==
  Fields(<<"comm", "rank", "count">>) \o Array("array_of_neighbors", "count")
pack_op_MPI_Graph_neighbors_count == Fields(<<"comm", "rank", "nneighbors">>)
pack_op_MPI_Graphdims_get == Fields(<<"comm", "nnodes", "edgecountp">>)
pack_op_MPI_Group_compare == Fields(<<"group1", "group2", "result">>)
pack_op_MPI_Group_difference == Fields(<<"group1", "group2", "group_out">>)
pack_op_MPI_Group_excl ==
  Fields(<<"group", "count">>) \o Array("array_of_ranks", "count") \o Fields(<<"group_out">>)
pack_op_MPI_Group_free == Fields(<<"group_out">>)
pack_op_MPI_Group_incl ==
  Fields(<<"group", "count">>) \o Array("array_of_ranks", "count") \o Fields(<<"group_out">>)
pack_op_MPI_Group_intersection == Fields(<<"group1", "group2", "group_out">>)
pack_op_MPI_Group_range_excl ==
  Fields(<<"group", "count">>) \o Array("ranges", "three") \o Fields(<<"group_out">>)
pack_op_MPI_Group_range_incl ==
  Fields(<<"group", "count">>) \o Array("ranges", "three") \o Fields(<<"group_out">>)
pack_op_MPI_Group_rank == Fields(<<"group", "rank">>)
pack_op_MPI_Group_size == Fields(<<"group", "size">>)
pack_op_MPI_Group_translate_ranks ==
  Fields(<<"group1", "count">>) \o Array("array_of_ranks", "count") \o Fields(<<"group2">>)
  \o Array("array_of_ranks2", "count")
pack_op_MPI_Group_union == Fields(<<"group1", "group2", "group_out">>)
pack_op_MPI_Handle2int == Fields(<<"c_handle", "handle_kind">>)
pack_op_MPI_Ibsend == Fields(<<"buf", "count", "datatype", "dest", "tag", "comm", "request">>)
pack_op_MPI_Info_c2f == Fields(<<"info">>)
pack_op_MPI_Info_create == Fields(<<"info">>)
pack_op_MPI_Info_delete == Fields(<<"info", "key">>)
pack_op_MPI_Info_dup == Fields(<<"info", "newinfo">>)
pack_op_MPI_Info_f2c == Fields(<<"info">>)
pack_op_MPI_Info_free == Fields(<<"info">>)
pack_op_MPI_Info_get == Fields(<<"info", "key", "valuelen", "value", "flag">>)
pack_op_MPI_Info_get_nkeys == Fields(<<"info", "nkeys">>)
pack_op_MPI_Info_get_nthkey == Fields(<<"info", "count", "key">>)
pack_op_MPI_Info_get_valuelen == Fields(<<"info", "key", "valuelen", "flag">>)
pack_op_MPI_Info_set == Fields(<<"info", "key", "value">>)
pack_op_MPI_Init == Fields(<<"argc", "argv">>)
pack_op_MPI_Initialized == Fields(<<"flag">>)
pack_op_MPI_Int2handle == Fields(<<"f_handle", "handle_kind">>)
pack_op_MPI_Intercomm_create ==
  Fields(<<"comm", "local_leader", "peer_comm", "remote_leader", "tag", "comm_out", "comm1">>)
pack_op_MPI_Intercomm_merge == Fields(<<"comm", "high", "comm_out">>)
pack_op_MPI_Iprobe == Fields(<<"source", "tag", "comm", "flag", "status_src">>)
pack_op_MPI_Irecv == Fields(<<"buf", "count", "datatype", "source", "tag", "comm", "request">>)
pack_op_MPI_Irsend == Fields(<<"buf", "count", "datatype", "dest", "tag", "comm", "request">>)
pack_op_MPI_Isend == Fields(<<"buf", "count", "datatype", "dest", "tag", "comm", "request">>)
pack_op_MPI_Issend == Fields(<<"buf", "count", "datatype", "dest", "tag", "comm", "request">>)
pack_op_MPI_Keyval_create == Fields(<<"copy_function", "delete_function", "keyval", "extra_state">>)
pack_op_MPI_Keyval_free == Fields(<<"keyval">>)
pack_op_MPI_Op_create == Fields(<<"function", "commute", "op">>)
pack_op_MPI_Op_free == Fields(<<"op">>)
pack_op_MPI_Pack ==
  Fields(<<"inbuf", "incount", "datatype", "outbuf", "outcount", "position", "comm">>)
pack_op_MPI_Pack_size == Fields(<<"incount", "datatype", "comm", "size">>)
pack_op_MPI_Pcontrol == Fields(<<"level">>)
pack_op_MPI_Probe == Fields(<<"source", "tag", "comm", "status_src">>)
pack_op_MPI_Recv == Fields(<<"buf", "count", "datatype", "source", "tag", "comm", "status_src">>)
pack_op_MPI_Recv_init == Fields(<<"buf", "count", "datatype", "source", "tag", "comm", "request">>)
pack_op_MPI_Reduce == Fields(<<"buf", "recvbuf", "count", "datatype", "op", "root", "comm">>)
pack_op_MPI_Reduce_scatter ==
  Fields(<<"buf", "recvbuf">>) \o Array("recvcounts", "size") \o Fields(<<"datatype", "op",
  "comm", "size">>)
pack_op_MPI_Request_c2f == Fields(<<"c_request">>)
pack_op_MPI_Request_free == Fields(<<"request">>)
pack_op_MPI_Rsend == Fields(<<"buf", "count", "datatype", "dest", "tag", "comm">>)
pack_op_MPI_Rsend_init == Fields(<<"buf", "count", "datatype", "dest", "tag", "comm", "request">>)
pack_op_MPI_Scan == Fields(<<"buf", "recvbuf", "count", "datatype", "op", "comm">>)
pack_op_MPI_Scatter ==
  Fields(<<"buf", "count", "datatype", "recvbuf", "recvcount", "recvtype", "root", "comm">>)
pack_op_MPI_Scatterv ==
  Fields(<<"buf">>) \o Array("counts", "size") \o Array("displs", "size") \o Fields(<<"datatype",
  "recvbuf", "recvcount", "recvtype", "root", "comm", "size">>)
pack_op_MPI_Send == Fields(<<"buf", "count", "datatype", "dest", "tag", "comm">>)
pack_op_MPI_Send_init == Fields(<<"buf", "count", "datatype", "dest", "tag", "comm", "request">>)
pack_op_MPI_Sendrecv ==
  Fields(<<"buf", "count", "datatype", "dest", "sendtag", "recvbuf", "recvcount", "recvtype",
  "source", "recvtag", "comm", "status_src">>)
pack_op_MPI_Sendrecv_replace ==
  Fields(<<"buf", "count", "datatype", "dest", "sendtag", "source", "recvtag", "comm",
  "status_src", "recvbuf", "recvcount", "recvtype">>)
pack_op_MPI_Ssend == Fields(<<"buf", "count", "datatype", "dest", "tag", "comm">>)
pack_op_MPI_Ssend_init == Fields(<<"buf", "count", "datatype", "dest", "tag", "comm", "request">>)
pack_op_MPI_Start == Fields(<<"request">>)
pack_op_MPI_Startall == Fields(<<"count">>) \o Array("array_of_requests", "count")
pack_op_MPI_Status_c2f == Fields(<<"c_status", "f_status">>)
pack_op_MPI_Status_f2c == Fields(<<"f_status", "c_status">>)
pack_op_MPI_Test == Fields(<<"request", "flag", "status_src">>)
pack_op_MPI_Test_cancelled == Fields(<<"status_src", "flag">>)
pack_op_MPI_Testall ==
  Fields(<<"count">>) \o Array("array_of_requests", "count") \o Fields(<<"flag">>)
  \o Array("statuses_srcs", "count")
pack_op_MPI_Testany ==
  Fields(<<"count">>) \o Array("array_of_requests", "count") \o Fields(<<"index", "flag",
  "status_src">>)
pack_op_MPI_Testsome ==
  Fields(<<"count">>) \o Array("array_of_requests", "count") \o Fields(<<"outcount">>)
  \o Array("array_of_indices", "count") \o Array("statuses_srcs", "count") \o Fields(<<"flag">>)
pack_op_MPI_Topo_test == Fields(<<"comm", "top_type">>)
pack_op_MPI_Type_commit == Fields(<<"newtype">>)
pack_op_MPI_Type_contiguous == Fields(<<"count", "old_type", "newtype">>)
pack_op_MPI_Type_count == Fields(<<"datatype", "count">>)
pack_op_MPI_Type_create_darray ==
  Fields(<<"size", "rank", "count">>) \o Array("array_of_gsizes", "count")
  \o Array("array_of_distribs", "count") \o Array("array_of_dargs", "count")
  \o Array("array_of_psizes", "count") \o Fields(<<"order", "datatype", "newtype">>)
pack_op_MPI_Type_create_indexed_block ==
  Fields(<<"count", "blocklength">>) \o Array("array_of_displacements", "count")
  \o Fields(<<"datatype", "newtype">>)
pack_op_MPI_Type_create_subarray ==
  Fields(<<"count">>) \o Array("array_of_sizes", "count") \o Array("array_of_subsizes", "count")
  \o Array("array_of_starts", "count") \o Fields(<<"order", "datatype", "newtype">>)
pack_op_MPI_Type_extent == Fields(<<"datatype", "extent">>)
pack_op_MPI_Type_free == Fields(<<"newtype">>)
pack_op_MPI_Type_get_contents ==
  Fields(<<"datatype", "count", "addrcount", "dtypecount">>) \o Array("array_of_integers",
  "count") \o Array("the_addresses", "addrcount") \o Array("the_datatypes", "dtypecount")
pack_op_MPI_Type_get_envelope ==
  Fields(<<"datatype", "num_integers", "num_addresses", "num_datatypes", "combiner">>)
pack_op_MPI_Type_hindexed ==
  Fields(<<"count">>) \o Array("array_of_blocklens", "count") \o Array("array_of_displacements",
  "count") \o Fields(<<"datatype", "newtype">>)
pack_op_MPI_Type_hvector == Fields(<<"count", "blocklen", "stride", "datatype", "newtype">>)
pack_op_MPI_Type_indexed ==
  Fields(<<"count">>) \o Array("array_of_blocklens", "count") \o Array("array_of_displacements",
  "count") \o Fields(<<"datatype", "newtype">>)
pack_op_MPI_Type_lb == Fields(<<"datatype", "displacement">>)
pack_op_MPI_Type_size == Fields(<<"datatype", "size">>)
pack_op_MPI_Type_struct ==
  Fields(<<"count">>) \o Array("array_of_blocklens", "count") \o Array("array_of_displacements",
  "count") \o Array("array_of_types", "count") \o Fields(<<"newtype">>)
pack_op_MPI_Type_ub == Fields(<<"datatype", "displacement">>)
pack_op_MPI_Type_vector == Fields(<<"count", "blocklen", "stride", "datatype", "newtype">>)
pack_op_MPI_Unpack ==
  Fields(<<"inbuf", "insize", "position", "outbuf", "outcount", "datatype", "comm">>)
pack_op_MPI_Wait == Fields(<<"request", "status_src">>)
pack_op_MPI_Waitall ==
  Fields(<<"count">>) \o Array("array_of_requests", "count") \o Array("statuses_srcs", "count")
=============================================================================
