------------------------------ MODULE OpLookup ------------------------------
(***************************************************************************)
(* The table that finds an operation's functions by its code.              *)
(***************************************************************************)
EXTENDS OpPack, OpPackSize, OpUnpack

\* The operations in the order of their codes.
Names ==
  <<"MPI_Abort", "MPI_Address", "MPI_Allgather", "MPI_Allgatherv", "MPI_Allreduce",
    "MPI_Alltoall", "MPI_Alltoallv", "MPI_Attr_delete", "MPI_Attr_get", "MPI_Attr_put",
    "MPI_Barrier", "MPI_Bcast", "MPI_Bsend", "MPI_Bsend_init", "MPI_Buffer_attach",
    "MPI_Buffer_detach", "MPI_Cancel", "MPI_Cart_coords", "MPI_Cart_create", "MPI_Cart_get",
    "MPI_Cart_map", "MPI_Cart_rank", "MPI_Cart_shift", "MPI_Cart_sub", "MPI_Cartdim_get",
    "MPI_Comm_compare", "MPI_Comm_create", "MPI_Comm_dup", "MPI_Comm_free", "MPI_Comm_get_name",
    "MPI_Comm_group", "MPI_Comm_rank", "MPI_Comm_remote_group", "MPI_Comm_remote_size",
    "MPI_Comm_set_name", "MPI_Comm_size", "MPI_Comm_split", "MPI_Comm_test_inter",
    "MPI_Dims_create", "MPI_Errhandler_create", "MPI_Errhandler_free", "MPI_Errhandler_get",
    "MPI_Errhandler_set", "MPI_Error_class", "MPI_Error_string", "MPI_Finalize", "MPI_Finalized",
    "MPI_Gather", "MPI_Gatherv", "MPI_Get_count", "MPI_Get_elements", "MPI_Get_processor_name",
    "MPI_Get_version", "MPI_Graph_create", "MPI_Graph_get", "MPI_Graph_map",
    "MPI_Graph_neighbors", "MPI_Graph_neighbors_count", "MPI_Graphdims_get", "MPI_Group_compare",
    "MPI_Group_difference", "MPI_Group_excl", "MPI_Group_free", "MPI_Group_incl",
    "MPI_Group_intersection", "MPI_Group_range_excl", "MPI_Group_range_incl", "MPI_Group_rank",
    "MPI_Group_size", "MPI_Group_translate_ranks", "MPI_Group_union", "MPI_Handle2int",
    "MPI_Ibsend", "MPI_Info_c2f", "MPI_Info_create", "MPI_Info_delete", "MPI_Info_dup",
    "MPI_Info_f2c", "MPI_Info_free", "MPI_Info_get", "MPI_Info_get_nkeys", "MPI_Info_get_nthkey",
    "MPI_Info_get_valuelen", "MPI_Info_set", "MPI_Init", "MPI_Initialized", "MPI_Int2handle",
    "MPI_Intercomm_create", "MPI_Intercomm_merge", "MPI_Iprobe", "MPI_Irecv", "MPI_Irsend",
    "MPI_Isend", "MPI_Issend", "MPI_Keyval_create", "MPI_Keyval_free", "MPI_Op_create",
    "MPI_Op_free", "MPI_Pack", "MPI_Pack_size", "MPI_Pcontrol", "MPI_Probe", "MPI_Recv",
    "MPI_Recv_init", "MPI_Reduce", "MPI_Reduce_scatter", "MPI_Request_c2f", "MPI_Request_free",
    "MPI_Rsend", "MPI_Rsend_init", "MPI_Scan", "MPI_Scatter", "MPI_Scatterv", "MPI_Send",
    "MPI_Send_init", "MPI_Sendrecv", "MPI_Sendrecv_replace", "MPI_Ssend", "MPI_Ssend_init",
    "MPI_Start", "MPI_Startall", "MPI_Status_c2f", "MPI_Status_f2c", "MPI_Test",
    "MPI_Test_cancelled", "MPI_Testall", "MPI_Testany", "MPI_Testsome", "MPI_Topo_test",
    "MPI_Type_commit", "MPI_Type_contiguous", "MPI_Type_count", "MPI_Type_create_darray",
    "MPI_Type_create_indexed_block", "MPI_Type_create_subarray", "MPI_Type_extent",
    "MPI_Type_free", "MPI_Type_get_contents", "MPI_Type_get_envelope", "MPI_Type_hindexed",
    "MPI_Type_hvector", "MPI_Type_indexed", "MPI_Type_lb", "MPI_Type_size", "MPI_Type_struct",
    "MPI_Type_ub", "MPI_Type_vector">>

PackOp ==
  [MPI_Abort |-> pack_op_MPI_Abort, MPI_Address |-> pack_op_MPI_Address,
   MPI_Allgather |-> pack_op_MPI_Allgather, MPI_Allgatherv |-> pack_op_MPI_Allgatherv,
   MPI_Allreduce |-> pack_op_MPI_Allreduce, MPI_Alltoall |-> pack_op_MPI_Alltoall,
   MPI_Alltoallv |-> pack_op_MPI_Alltoallv, MPI_Attr_delete |-> pack_op_MPI_Attr_delete,
   MPI_Attr_get |-> pack_op_MPI_Attr_get, MPI_Attr_put |-> pack_op_MPI_Attr_put,
   MPI_Barrier |-> pack_op_MPI_Barrier, MPI_Bcast |-> pack_op_MPI_Bcast,
   MPI_Bsend |-> pack_op_MPI_Bsend, MPI_Bsend_init |-> pack_op_MPI_Bsend_init,
   MPI_Buffer_attach |-> pack_op_MPI_Buffer_attach,
   MPI_Buffer_detach |-> pack_op_MPI_Buffer_detach, MPI_Cancel |-> pack_op_MPI_Cancel,
   MPI_Cart_coords |-> pack_op_MPI_Cart_coords, MPI_Cart_create |-> pack_op_MPI_Cart_create,
   MPI_Cart_get |-> pack_op_MPI_Cart_get, MPI_Cart_map |-> pack_op_MPI_Cart_map,
   MPI_Cart_rank |-> pack_op_MPI_Cart_rank, MPI_Cart_shift |-> pack_op_MPI_Cart_shift,
   MPI_Cart_sub |-> pack_op_MPI_Cart_sub, MPI_Cartdim_get |-> pack_op_MPI_Cartdim_get,
   MPI_Comm_compare |-> pack_op_MPI_Comm_compare, MPI_Comm_create |-> pack_op_MPI_Comm_create,
   MPI_Comm_dup |-> pack_op_MPI_Comm_dup, MPI_Comm_free |-> pack_op_MPI_Comm_free,
   MPI_Comm_get_name |-> pack_op_MPI_Comm_get_name, MPI_Comm_group |-> pack_op_MPI_Comm_group,
   MPI_Comm_rank |-> pack_op_MPI_Comm_rank,
   MPI_Comm_remote_group |-> pack_op_MPI_Comm_remote_group,
   MPI_Comm_remote_size |-> pack_op_MPI_Comm_remote_size,
   MPI_Comm_set_name |-> pack_op_MPI_Comm_set_name, MPI_Comm_size |-> pack_op_MPI_Comm_size,
   MPI_Comm_split |-> pack_op_MPI_Comm_split,
   MPI_Comm_test_inter |-> pack_op_MPI_Comm_test_inter,
   MPI_Dims_create |-> pack_op_MPI_Dims_create,
   MPI_Errhandler_create |-> pack_op_MPI_Errhandler_create,
   MPI_Errhandler_free |-> pack_op_MPI_Errhandler_free,
   MPI_Errhandler_get |-> pack_op_MPI_Errhandler_get,
   MPI_Errhandler_set |-> pack_op_MPI_Errhandler_set,
   MPI_Error_class |-> pack_op_MPI_Error_class, MPI_Error_string |-> pack_op_MPI_Error_string,
   MPI_Finalize |-> pack_op_MPI_Finalize, MPI_Finalized |-> pack_op_MPI_Finalized,
   MPI_Gather |-> pack_op_MPI_Gather, MPI_Gatherv |-> pack_op_MPI_Gatherv,
   MPI_Get_count |-> pack_op_MPI_Get_count, MPI_Get_elements |-> pack_op_MPI_Get_elements,
   MPI_Get_processor_name |-> pack_op_MPI_Get_processor_name,
   MPI_Get_version |-> pack_op_MPI_Get_version, MPI_Graph_create |-> pack_op_MPI_Graph_create,
   MPI_Graph_get |-> pack_op_MPI_Graph_get, MPI_Graph_map |-> pack_op_MPI_Graph_map,
   MPI_Graph_neighbors |-> pack_op_MPI_Graph_neighbors,
   MPI_Graph_neighbors_count |-> pack_op_MPI_Graph_neighbors_count,
   MPI_Graphdims_get |-> pack_op_MPI_Graphdims_get,
   MPI_Group_compare |-> pack_op_MPI_Group_compare,
   MPI_Group_difference |-> pack_op_MPI_Group_difference,
   MPI_Group_excl |-> pack_op_MPI_Group_excl, MPI_Group_free |-> pack_op_MPI_Group_free,
   MPI_Group_incl |-> pack_op_MPI_Group_incl,
   MPI_Group_intersection |-> pack_op_MPI_Group_intersection,
   MPI_Group_range_excl |-> pack_op_MPI_Group_range_excl,
   MPI_Group_range_incl |-> pack_op_MPI_Group_range_incl,
   MPI_Group_rank |-> pack_op_MPI_Group_rank, MPI_Group_size |-> pack_op_MPI_Group_size,
   MPI_Group_translate_ranks |-> pack_op_MPI_Group_translate_ranks,
   MPI_Group_union |-> pack_op_MPI_Group_union, MPI_Handle2int |-> pack_op_MPI_Handle2int,
   MPI_Ibsend |-> pack_op_MPI_Ibsend, MPI_Info_c2f |-> pack_op_MPI_Info_c2f,
   MPI_Info_create |-> pack_op_MPI_Info_create, MPI_Info_delete |-> pack_op_MPI_Info_delete,
   MPI_Info_dup |-> pack_op_MPI_Info_dup, MPI_Info_f2c |-> pack_op_MPI_Info_f2c,
   MPI_Info_free |-> pack_op_MPI_Info_free, MPI_Info_get |-> pack_op_MPI_Info_get,
   MPI_Info_get_nkeys |-> pack_op_MPI_Info_get_nkeys,
   MPI_Info_get_nthkey |-> pack_op_MPI_Info_get_nthkey,
   MPI_Info_get_valuelen |-> pack_op_MPI_Info_get_valuelen,
   MPI_Info_set |-> pack_op_MPI_Info_set, MPI_Init |-> pack_op_MPI_Init,
   MPI_Initialized |-> pack_op_MPI_Initialized, MPI_Int2handle |-> pack_op_MPI_Int2handle,
   MPI_Intercomm_create |-> pack_op_MPI_Intercomm_create,
   MPI_Intercomm_merge |-> pack_op_MPI_Intercomm_merge, MPI_Iprobe |-> pack_op_MPI_Iprobe,
   MPI_Irecv |-> pack_op_MPI_Irecv, MPI_Irsend |-> pack_op_MPI_Irsend,
   MPI_Isend |-> pack_op_MPI_Isend, MPI_Issend |-> pack_op_MPI_Issend,
   MPI_Keyval_create |-> pack_op_MPI_Keyval_create, MPI_Keyval_free |-> pack_op_MPI_Keyval_free,
   MPI_Op_create |-> pack_op_MPI_Op_create, MPI_Op_free |-> pack_op_MPI_Op_free,
   MPI_Pack |-> pack_op_MPI_Pack, MPI_Pack_size |-> pack_op_MPI_Pack_size,
   MPI_Pcontrol |-> pack_op_MPI_Pcontrol, MPI_Probe |-> pack_op_MPI_Probe,
   MPI_Recv |-> pack_op_MPI_Recv, MPI_Recv_init |-> pack_op_MPI_Recv_init,
   MPI_Reduce |-> pack_op_MPI_Reduce, MPI_Reduce_scatter |-> pack_op_MPI_Reduce_scatter,
   MPI_Request_c2f |-> pack_op_MPI_Request_c2f, MPI_Request_free |-> pack_op_MPI_Request_free,
   MPI_Rsend |-> pack_op_MPI_Rsend, MPI_Rsend_init |-> pack_op_MPI_Rsend_init,
   MPI_Scan |-> pack_op_MPI_Scan, MPI_Scatter |-> pack_op_MPI_Scatter,
   MPI_Scatterv |-> pack_op_MPI_Scatterv, MPI_Send |-> pack_op_MPI_Send,
   MPI_Send_init |-> pack_op_MPI_Send_init, MPI_Sendrecv |-> pack_op_MPI_Sendrecv,
   MPI_Sendrecv_replace |-> pack_op_MPI_Sendrecv_replace, MPI_Ssend |-> pack_op_MPI_Ssend,
   MPI_Ssend_init |-> pack_op_MPI_Ssend_init, MPI_Start |-> pack_op_MPI_Start,
   MPI_Startall |-> pack_op_MPI_Startall, MPI_Status_c2f |-> pack_op_MPI_Status_c2f,
   MPI_Status_f2c |-> pack_op_MPI_Status_f2c, MPI_Test |-> pack_op_MPI_Test,
   MPI_Test_cancelled |-> pack_op_MPI_Test_cancelled, MPI_Testall |-> pack_op_MPI_Testall,
   MPI_Testany |-> pack_op_MPI_Testany, MPI_Testsome |-> pack_op_MPI_Testsome,
   MPI_Topo_test |-> pack_op_MPI_Topo_test, MPI_Type_commit |-> pack_op_MPI_Type_commit,
   MPI_Type_contiguous |-> pack_op_MPI_Type_contiguous,
   MPI_Type_count |-> pack_op_MPI_Type_count,
   MPI_Type_create_darray |-> pack_op_MPI_Type_create_darray,
   MPI_Type_create_indexed_block |-> pack_op_MPI_Type_create_indexed_block,
   MPI_Type_create_subarray |-> pack_op_MPI_Type_create_subarray,
   MPI_Type_extent |-> pack_op_MPI_Type_extent, MPI_Type_free |-> pack_op_MPI_Type_free,
   MPI_Type_get_contents |-> pack_op_MPI_Type_get_contents,
   MPI_Type_get_envelope |-> pack_op_MPI_Type_get_envelope,
   MPI_Type_hindexed |-> pack_op_MPI_Type_hindexed,
   MPI_Type_hvector |-> pack_op_MPI_Type_hvector, MPI_Type_indexed |-> pack_op_MPI_Type_indexed,
   MPI_Type_lb |-> pack_op_MPI_Type_lb, MPI_Type_size |-> pack_op_MPI_Type_size,
   MPI_Type_struct |-> pack_op_MPI_Type_struct, MPI_Type_ub |-> pack_op_MPI_Type_ub,
   MPI_Type_vector |-> pack_op_MPI_Type_vector]

PackOpSize ==
  [MPI_Abort |-> pack_op_size_MPI_Abort, MPI_Address |-> pack_op_size_MPI_Address,
   MPI_Allgather |-> pack_op_size_MPI_Allgather, MPI_Allgatherv |-> pack_op_size_MPI_Allgatherv,
   MPI_Allreduce |-> pack_op_size_MPI_Allreduce, MPI_Alltoall |-> pack_op_size_MPI_Alltoall,
   MPI_Alltoallv |-> pack_op_size_MPI_Alltoallv,
   MPI_Attr_delete |-> pack_op_size_MPI_Attr_delete, MPI_Attr_get |-> pack_op_size_MPI_Attr_get,
   MPI_Attr_put |-> pack_op_size_MPI_Attr_put, MPI_Barrier |-> pack_op_size_MPI_Barrier,
   MPI_Bcast |-> pack_op_size_MPI_Bcast, MPI_Bsend |-> pack_op_size_MPI_Bsend,
   MPI_Bsend_init |-> pack_op_size_MPI_Bsend_init,
   MPI_Buffer_attach |-> pack_op_size_MPI_Buffer_attach,
   MPI_Buffer_detach |-> pack_op_size_MPI_Buffer_detach, MPI_Cancel |-> pack_op_size_MPI_Cancel,
   MPI_Cart_coords |-> pack_op_size_MPI_Cart_coords,
   MPI_Cart_create |-> pack_op_size_MPI_Cart_create, MPI_Cart_get |-> pack_op_size_MPI_Cart_get,
   MPI_Cart_map |-> pack_op_size_MPI_Cart_map, MPI_Cart_rank |-> pack_op_size_MPI_Cart_rank,
   MPI_Cart_shift |-> pack_op_size_MPI_Cart_shift, MPI_Cart_sub |-> pack_op_size_MPI_Cart_sub,
   MPI_Cartdim_get |-> pack_op_size_MPI_Cartdim_get,
   MPI_Comm_compare |-> pack_op_size_MPI_Comm_compare,
   MPI_Comm_create |-> pack_op_size_MPI_Comm_create, MPI_Comm_dup |-> pack_op_size_MPI_Comm_dup,
   MPI_Comm_free |-> pack_op_size_MPI_Comm_free,
   MPI_Comm_get_name |-> pack_op_size_MPI_Comm_get_name,
   MPI_Comm_group |-> pack_op_size_MPI_Comm_group, MPI_Comm_rank |-> pack_op_size_MPI_Comm_rank,
   MPI_Comm_remote_group |-> pack_op_size_MPI_Comm_remote_group,
   MPI_Comm_remote_size |-> pack_op_size_MPI_Comm_remote_size,
   MPI_Comm_set_name |-> pack_op_size_MPI_Comm_set_name,
   MPI_Comm_size |-> pack_op_size_MPI_Comm_size, MPI_Comm_split |-> pack_op_size_MPI_Comm_split,
   MPI_Comm_test_inter |-> pack_op_size_MPI_Comm_test_inter,
   MPI_Dims_create |-> pack_op_size_MPI_Dims_create,
   MPI_Errhandler_create |-> pack_op_size_MPI_Errhandler_create,
   MPI_Errhandler_free |-> pack_op_size_MPI_Errhandler_free,
   MPI_Errhandler_get |-> pack_op_size_MPI_Errhandler_get,
   MPI_Errhandler_set |-> pack_op_size_MPI_Errhandler_set,
   MPI_Error_class |-> pack_op_size_MPI_Error_class,
   MPI_Error_string |-> pack_op_size_MPI_Error_string,
   MPI_Finalize |-> pack_op_size_MPI_Finalize, MPI_Finalized |-> pack_op_size_MPI_Finalized,
   MPI_Gather |-> pack_op_size_MPI_Gather, MPI_Gatherv |-> pack_op_size_MPI_Gatherv,
   MPI_Get_count |-> pack_op_size_MPI_Get_count,
   MPI_Get_elements |-> pack_op_size_MPI_Get_elements,
   MPI_Get_processor_name |-> pack_op_size_MPI_Get_processor_name,
   MPI_Get_version |-> pack_op_size_MPI_Get_version,
   MPI_Graph_create |-> pack_op_size_MPI_Graph_create,
   MPI_Graph_get |-> pack_op_size_MPI_Graph_get, MPI_Graph_map |-> pack_op_size_MPI_Graph_map,
   MPI_Graph_neighbors |-> pack_op_size_MPI_Graph_neighbors,
   MPI_Graph_neighbors_count |-> pack_op_size_MPI_Graph_neighbors_count,
   MPI_Graphdims_get |-> pack_op_size_MPI_Graphdims_get,
   MPI_Group_compare |-> pack_op_size_MPI_Group_compare,
   MPI_Group_difference |-> pack_op_size_MPI_Group_difference,
   MPI_Group_excl |-> pack_op_size_MPI_Group_excl,
   MPI_Group_free |-> pack_op_size_MPI_Group_free,
   MPI_Group_incl |-> pack_op_size_MPI_Group_incl,
   MPI_Group_intersection |-> pack_op_size_MPI_Group_intersection,
   MPI_Group_range_excl |-> pack_op_size_MPI_Group_range_excl,
   MPI_Group_range_incl |-> pack_op_size_MPI_Group_range_incl,
   MPI_Group_rank |-> pack_op_size_MPI_Group_rank,
   MPI_Group_size |-> pack_op_size_MPI_Group_size,
   MPI_Group_translate_ranks |-> pack_op_size_MPI_Group_translate_ranks,
   MPI_Group_union |-> pack_op_size_MPI_Group_union,
   MPI_Handle2int |-> pack_op_size_MPI_Handle2int, MPI_Ibsend |-> pack_op_size_MPI_Ibsend,
   MPI_Info_c2f |-> pack_op_size_MPI_Info_c2f, MPI_Info_create |-> pack_op_size_MPI_Info_create,
   MPI_Info_delete |-> pack_op_size_MPI_Info_delete, MPI_Info_dup |-> pack_op_size_MPI_Info_dup,
   MPI_Info_f2c |-> pack_op_size_MPI_Info_f2c, MPI_Info_free |-> pack_op_size_MPI_Info_free,
   MPI_Info_get |-> pack_op_size_MPI_Info_get,
   MPI_Info_get_nkeys |-> pack_op_size_MPI_Info_get_nkeys,
   MPI_Info_get_nthkey |-> pack_op_size_MPI_Info_get_nthkey,
   MPI_Info_get_valuelen |-> pack_op_size_MPI_Info_get_valuelen,
   MPI_Info_set |-> pack_op_size_MPI_Info_set, MPI_Init |-> pack_op_size_MPI_Init,
   MPI_Initialized |-> pack_op_size_MPI_Initialized,
   MPI_Int2handle |-> pack_op_size_MPI_Int2handle,
   MPI_Intercomm_create |-> pack_op_size_MPI_Intercomm_create,
   MPI_Intercomm_merge |-> pack_op_size_MPI_Intercomm_merge,
   MPI_Iprobe |-> pack_op_size_MPI_Iprobe, MPI_Irecv |-> pack_op_size_MPI_Irecv,
   MPI_Irsend |-> pack_op_size_MPI_Irsend, MPI_Isend |-> pack_op_size_MPI_Isend,
   MPI_Issend |-> pack_op_size_MPI_Issend, MPI_Keyval_create |-> pack_op_size_MPI_Keyval_create,
   MPI_Keyval_free |-> pack_op_size_MPI_Keyval_free,
   MPI_Op_create |-> pack_op_size_MPI_Op_create, MPI_Op_free |-> pack_op_size_MPI_Op_free,
   MPI_Pack |-> pack_op_size_MPI_Pack, MPI_Pack_size |-> pack_op_size_MPI_Pack_size,
   MPI_Pcontrol |-> pack_op_size_MPI_Pcontrol, MPI_Probe |-> pack_op_size_MPI_Probe,
   MPI_Recv |-> pack_op_size_MPI_Recv, MPI_Recv_init |-> pack_op_size_MPI_Recv_init,
   MPI_Reduce |-> pack_op_size_MPI_Reduce,
   MPI_Reduce_scatter |-> pack_op_size_MPI_Reduce_scatter,
   MPI_Request_c2f |-> pack_op_size_MPI_Request_c2f,
   MPI_Request_free |-> pack_op_size_MPI_Request_free, MPI_Rsend |-> pack_op_size_MPI_Rsend,
   MPI_Rsend_init |-> pack_op_size_MPI_Rsend_init, MPI_Scan |-> pack_op_size_MPI_Scan,
   MPI_Scatter |-> pack_op_size_MPI_Scatter, MPI_Scatterv |-> pack_op_size_MPI_Scatterv,
   MPI_Send |-> pack_op_size_MPI_Send, MPI_Send_init |-> pack_op_size_MPI_Send_init,
   MPI_Sendrecv |-> pack_op_size_MPI_Sendrecv,
   MPI_Sendrecv_replace |-> pack_op_size_MPI_Sendrecv_replace,
   MPI_Ssend |-> pack_op_size_MPI_Ssend, MPI_Ssend_init |-> pack_op_size_MPI_Ssend_init,
   MPI_Start |-> pack_op_size_MPI_Start, MPI_Startall |-> pack_op_size_MPI_Startall,
   MPI_Status_c2f |-> pack_op_size_MPI_Status_c2f,
   MPI_Status_f2c |-> pack_op_size_MPI_Status_f2c, MPI_Test |-> pack_op_size_MPI_Test,
   MPI_Test_cancelled |-> pack_op_size_MPI_Test_cancelled,
   MPI_Testall |-> pack_op_size_MPI_Testall, MPI_Testany |-> pack_op_size_MPI_Testany,
   MPI_Testsome |-> pack_op_size_MPI_Testsome, MPI_Topo_test |-> pack_op_size_MPI_Topo_test,
   MPI_Type_commit |-> pack_op_size_MPI_Type_commit,
   MPI_Type_contiguous |-> pack_op_size_MPI_Type_contiguous,
   MPI_Type_count |-> pack_op_size_MPI_Type_count,
   MPI_Type_create_darray |-> pack_op_size_MPI_Type_create_darray,
   MPI_Type_create_indexed_block |-> pack_op_size_MPI_Type_create_indexed_block,
   MPI_Type_create_subarray |-> pack_op_size_MPI_Type_create_subarray,
   MPI_Type_extent |-> pack_op_size_MPI_Type_extent,
   MPI_Type_free |-> pack_op_size_MPI_Type_free,
   MPI_Type_get_contents |-> pack_op_size_MPI_Type_get_contents,
   MPI_Type_get_envelope |-> pack_op_size_MPI_Type_get_envelope,
   MPI_Type_hindexed |-> pack_op_size_MPI_Type_hindexed,
   MPI_Type_hvector |-> pack_op_size_MPI_Type_hvector,
   MPI_Type_indexed |-> pack_op_size_MPI_Type_indexed, MPI_Type_lb |-> pack_op_size_MPI_Type_lb,
   MPI_Type_size |-> pack_op_size_MPI_Type_size,
   MPI_Type_struct |-> pack_op_size_MPI_Type_struct, MPI_Type_ub |-> pack_op_size_MPI_Type_ub,
   MPI_Type_vector |-> pack_op_size_MPI_Type_vector]

UnpackOp ==
  [MPI_Abort |-> unpack_op_MPI_Abort, MPI_Address |-> unpack_op_MPI_Address,
   MPI_Allgather |-> unpack_op_MPI_Allgather, MPI_Allgatherv |-> unpack_op_MPI_Allgatherv,
   MPI_Allreduce |-> unpack_op_MPI_Allreduce, MPI_Alltoall |-> unpack_op_MPI_Alltoall,
   MPI_Alltoallv |-> unpack_op_MPI_Alltoallv, MPI_Attr_delete |-> unpack_op_MPI_Attr_delete,
   MPI_Attr_get |-> unpack_op_MPI_Attr_get, MPI_Attr_put |-> unpack_op_MPI_Attr_put,
   MPI_Barrier |-> unpack_op_MPI_Barrier, MPI_Bcast |-> unpack_op_MPI_Bcast,
   MPI_Bsend |-> unpack_op_MPI_Bsend, MPI_Bsend_init |-> unpack_op_MPI_Bsend_init,
   MPI_Buffer_attach |-> unpack_op_MPI_Buffer_attach,
   MPI_Buffer_detach |-> unpack_op_MPI_Buffer_detach, MPI_Cancel |-> unpack_op_MPI_Cancel,
   MPI_Cart_coords |-> unpack_op_MPI_Cart_coords, MPI_Cart_create |-> unpack_op_MPI_Cart_create,
   MPI_Cart_get |-> unpack_op_MPI_Cart_get, MPI_Cart_map |-> unpack_op_MPI_Cart_map,
   MPI_Cart_rank |-> unpack_op_MPI_Cart_rank, MPI_Cart_shift |-> unpack_op_MPI_Cart_shift,
   MPI_Cart_sub |-> unpack_op_MPI_Cart_sub, MPI_Cartdim_get |-> unpack_op_MPI_Cartdim_get,
   MPI_Comm_compare |-> unpack_op_MPI_Comm_compare,
   MPI_Comm_create |-> unpack_op_MPI_Comm_create, MPI_Comm_dup |-> unpack_op_MPI_Comm_dup,
   MPI_Comm_free |-> unpack_op_MPI_Comm_free, MPI_Comm_get_name |-> unpack_op_MPI_Comm_get_name,
   MPI_Comm_group |-> unpack_op_MPI_Comm_group, MPI_Comm_rank |-> unpack_op_MPI_Comm_rank,
   MPI_Comm_remote_group |-> unpack_op_MPI_Comm_remote_group,
   MPI_Comm_remote_size |-> unpack_op_MPI_Comm_remote_size,
   MPI_Comm_set_name |-> unpack_op_MPI_Comm_set_name, MPI_Comm_size |-> unpack_op_MPI_Comm_size,
   MPI_Comm_split |-> unpack_op_MPI_Comm_split,
   MPI_Comm_test_inter |-> unpack_op_MPI_Comm_test_inter,
   MPI_Dims_create |-> unpack_op_MPI_Dims_create,
   MPI_Errhandler_create |-> unpack_op_MPI_Errhandler_create,
   MPI_Errhandler_free |-> unpack_op_MPI_Errhandler_free,
   MPI_Errhandler_get |-> unpack_op_MPI_Errhandler_get,
   MPI_Errhandler_set |-> unpack_op_MPI_Errhandler_set,
   MPI_Error_class |-> unpack_op_MPI_Error_class,
   MPI_Error_string |-> unpack_op_MPI_Error_string, MPI_Finalize |-> unpack_op_MPI_Finalize,
   MPI_Finalized |-> unpack_op_MPI_Finalized, MPI_Gather |-> unpack_op_MPI_Gather,
   MPI_Gatherv |-> unpack_op_MPI_Gatherv, MPI_Get_count |-> unpack_op_MPI_Get_count,
   MPI_Get_elements |-> unpack_op_MPI_Get_elements,
   MPI_Get_processor_name |-> unpack_op_MPI_Get_processor_name,
   MPI_Get_version |-> unpack_op_MPI_Get_version,
   MPI_Graph_create |-> unpack_op_MPI_Graph_create, MPI_Graph_get |-> unpack_op_MPI_Graph_get,
   MPI_Graph_map |-> unpack_op_MPI_Graph_map,
   MPI_Graph_neighbors |-> unpack_op_MPI_Graph_neighbors,
   MPI_Graph_neighbors_count |-> unpack_op_MPI_Graph_neighbors_count,
   MPI_Graphdims_get |-> unpack_op_MPI_Graphdims_get,
   MPI_Group_compare |-> unpack_op_MPI_Group_compare,
   MPI_Group_difference |-> unpack_op_MPI_Group_difference,
   MPI_Group_excl |-> unpack_op_MPI_Group_excl, MPI_Group_free |-> unpack_op_MPI_Group_free,
   MPI_Group_incl |-> unpack_op_MPI_Group_incl,
   MPI_Group_intersection |-> unpack_op_MPI_Group_intersection,
   MPI_Group_range_excl |-> unpack_op_MPI_Group_range_excl,
   MPI_Group_range_incl |-> unpack_op_MPI_Group_range_incl,
   MPI_Group_rank |-> unpack_op_MPI_Group_rank, MPI_Group_size |-> unpack_op_MPI_Group_size,
   MPI_Group_translate_ranks |-> unpack_op_MPI_Group_translate_ranks,
   MPI_Group_union |-> unpack_op_MPI_Group_union, MPI_Handle2int |-> unpack_op_MPI_Handle2int,
   MPI_Ibsend |-> unpack_op_MPI_Ibsend, MPI_Info_c2f |-> unpack_op_MPI_Info_c2f,
   MPI_Info_create |-> unpack_op_MPI_Info_create, MPI_Info_delete |-> unpack_op_MPI_Info_delete,
   MPI_Info_dup |-> unpack_op_MPI_Info_dup, MPI_Info_f2c |-> unpack_op_MPI_Info_f2c,
   MPI_Info_free |-> unpack_op_MPI_Info_free, MPI_Info_get |-> unpack_op_MPI_Info_get,
   MPI_Info_get_nkeys |-> unpack_op_MPI_Info_get_nkeys,
   MPI_Info_get_nthkey |-> unpack_op_MPI_Info_get_nthkey,
   MPI_Info_get_valuelen |-> unpack_op_MPI_Info_get_valuelen,
   MPI_Info_set |-> unpack_op_MPI_Info_set, MPI_Init |-> unpack_op_MPI_Init,
   MPI_Initialized |-> unpack_op_MPI_Initialized, MPI_Int2handle |-> unpack_op_MPI_Int2handle,
   MPI_Intercomm_create |-> unpack_op_MPI_Intercomm_create,
   MPI_Intercomm_merge |-> unpack_op_MPI_Intercomm_merge, MPI_Iprobe |-> unpack_op_MPI_Iprobe,
   MPI_Irecv |-> unpack_op_MPI_Irecv, MPI_Irsend |-> unpack_op_MPI_Irsend,
   MPI_Isend |-> unpack_op_MPI_Isend, MPI_Issend |-> unpack_op_MPI_Issend,
   MPI_Keyval_create |-> unpack_op_MPI_Keyval_create,
   MPI_Keyval_free |-> unpack_op_MPI_Keyval_free, MPI_Op_create |-> unpack_op_MPI_Op_create,
   MPI_Op_free |-> unpack_op_MPI_Op_free, MPI_Pack |-> unpack_op_MPI_Pack,
   MPI_Pack_size |-> unpack_op_MPI_Pack_size, MPI_Pcontrol |-> unpack_op_MPI_Pcontrol,
   MPI_Probe |-> unpack_op_MPI_Probe, MPI_Recv |-> unpack_op_MPI_Recv,
   MPI_Recv_init |-> unpack_op_MPI_Recv_init, MPI_Reduce |-> unpack_op_MPI_Reduce,
   MPI_Reduce_scatter |-> unpack_op_MPI_Reduce_scatter,
   MPI_Request_c2f |-> unpack_op_MPI_Request_c2f,
   MPI_Request_free |-> unpack_op_MPI_Request_free, MPI_Rsend |-> unpack_op_MPI_Rsend,
   MPI_Rsend_init |-> unpack_op_MPI_Rsend_init, MPI_Scan |-> unpack_op_MPI_Scan,
   MPI_Scatter |-> unpack_op_MPI_Scatter, MPI_Scatterv |-> unpack_op_MPI_Scatterv,
   MPI_Send |-> unpack_op_MPI_Send, MPI_Send_init |-> unpack_op_MPI_Send_init,
   MPI_Sendrecv |-> unpack_op_MPI_Sendrecv,
   MPI_Sendrecv_replace |-> unpack_op_MPI_Sendrecv_replace, MPI_Ssend |-> unpack_op_MPI_Ssend,
   MPI_Ssend_init |-> unpack_op_MPI_Ssend_init, MPI_Start |-> unpack_op_MPI_Start,
   MPI_Startall |-> unpack_op_MPI_Startall, MPI_Status_c2f |-> unpack_op_MPI_Status_c2f,
   MPI_Status_f2c |-> unpack_op_MPI_Status_f2c, MPI_Test |-> unpack_op_MPI_Test,
   MPI_Test_cancelled |-> unpack_op_MPI_Test_cancelled, MPI_Testall |-> unpack_op_MPI_Testall,
   MPI_Testany |-> unpack_op_MPI_Testany, MPI_Testsome |-> unpack_op_MPI_Testsome,
   MPI_Topo_test |-> unpack_op_MPI_Topo_test, MPI_Type_commit |-> unpack_op_MPI_Type_commit,
   MPI_Type_contiguous |-> unpack_op_MPI_Type_contiguous,
   MPI_Type_count |-> unpack_op_MPI_Type_count,
   MPI_Type_create_darray |-> unpack_op_MPI_Type_create_darray,
   MPI_Type_create_indexed_block |-> unpack_op_MPI_Type_create_indexed_block,
   MPI_Type_create_subarray |-> unpack_op_MPI_Type_create_subarray,
   MPI_Type_extent |-> unpack_op_MPI_Type_extent, MPI_Type_free |-> unpack_op_MPI_Type_free,
   MPI_Type_get_contents |-> unpack_op_MPI_Type_get_contents,
   MPI_Type_get_envelope |-> unpack_op_MPI_Type_get_envelope,
   MPI_Type_hindexed |-> unpack_op_MPI_Type_hindexed,
   MPI_Type_hvector |-> unpack_op_MPI_Type_hvector,
   MPI_Type_indexed |-> unpack_op_MPI_Type_indexed, MPI_Type_lb |-> unpack_op_MPI_Type_lb,
   MPI_Type_size |-> unpack_op_MPI_Type_size, MPI_Type_struct |-> unpack_op_MPI_Type_struct,
   MPI_Type_ub |-> unpack_op_MPI_Type_ub]

\* The fields of all operations.
PackedFields ==
  UNION {{PackOp[name][i].field : i \in DOMAIN PackOp[name]} : name \in DOMAIN PackOp}
=============================================================================
