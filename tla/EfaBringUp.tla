----------------------------- MODULE EfaBringUp ------------------------------
(***************************************************************************)
(* What the EFA driver acquires and releases: its device, and the verbs    *)
(* objects of a client, one of each kind: a user context, a protection     *)
(* domain, a completion queue, a queue pair, a memory region, an address   *)
(* handle.  See Steps for the vocabulary and BringUp for what is asked.    *)
(***************************************************************************)
EXTENDS Steps

\* Registers, read through a mailbox in memory.
efa_com_mmio_reg_read_init == Simple(Get("mmio_read", Return))
efa_com_mmio_reg_read_destroy == Simple(Put("mmio_read"))
efa_com_reg_read32 == Simple(Use("mmio_read", Return))
efa_com_validate_version == Simple(Call("efa_com_reg_read32", Return) \o Try(Return))
efa_com_get_dma_width == Simple(Call("efa_com_reg_read32", Return) \o Try(Return))
wait_for_reset_state == Simple(Call("efa_com_reg_read32", Return) \o Try(Return))
efa_com_dev_reset == Simple(
    Wipe \o
    Call("efa_com_reg_read32", Return) \o
    Try(Return) \o
    Call("wait_for_reset_state", Return) \o
    Call("wait_for_reset_state", Return))

\* The admin queue.  The pool of context numbers stays with the device's memory
\* when the queue is not made, and goes with it.
efa_com_init_comp_ctxt == Simple(Get("comp_ctx", Return))
efa_com_admin_init_sq == Simple(Get("admin_sq", Return))
efa_com_admin_init_cq == Simple(Get("admin_cq", Return))
efa_com_admin_init_aenq == Simple(Get("aenq", Return))
efa_com_admin_init == Fn(
    Call("efa_com_reg_read32", Return) \o
    Try(Return) \o
    Call("efa_com_init_comp_ctxt", Return) \o
    Call("efa_com_admin_init_sq", "err_destroy_comp_ctxt") \o
    Call("efa_com_admin_init_cq", "err_destroy_sq") \o
    Call("efa_com_admin_init_aenq", "err_destroy_cq") \o
    Set("aenq_armed") \o
    Set("RUNNING"),
    Label("err_destroy_cq", Put("admin_cq")) \o
    Label("err_destroy_sq", Put("admin_sq")) \o
    Label("err_destroy_comp_ctxt", Put("comp_ctx")))
efa_com_admin_destroy == Simple(
    Clear("RUNNING") \o
    Put("comp_ctx") \o Put("admin_sq") \o Put("admin_cq") \o Put("aenq"))

\* A command is refused, or times out and closes the queue for good.  What exists
\* the device does not refuse to destroy.
efa_com_cmd_exec == Fn(Cmd("done"), Label("done", If(Maybe, Clear("RUNNING"))))
efa_com_cmd_destroy == Fn(Cmd("timeout"), Label("timeout", Clear("RUNNING")))
Creates(r) == Simple(Call("efa_com_cmd_exec", Return) \o Have(r))
Destroys(r) == Simple(Call("efa_com_cmd_destroy", Return) \o Put(r))
efa_com_create_qp == Creates("device_qp")
efa_com_destroy_qp == Destroys("device_qp")
efa_com_modify_qp == Simple(Touch("device_qp") \o Call("efa_com_cmd_exec", Return))
efa_com_create_cq == Creates("device_cq")
efa_com_destroy_cq == Destroys("device_cq")
efa_com_register_mr == Creates("device_mr")
efa_com_alloc_mr == Creates("device_mr")
efa_com_dereg_mr == Destroys("device_mr")
efa_com_create_ah == Creates("device_ah")
efa_com_destroy_ah == Destroys("device_ah")
efa_com_alloc_pd == Creates("device_pd")
efa_com_dealloc_pd == Destroys("device_pd")
efa_com_alloc_uar == Creates("device_uar")
efa_com_dealloc_uar == Destroys("device_uar")
efa_com_alloc_dev_uar == Creates("dev_uar")
efa_com_dealloc_dev_uar == Destroys("dev_uar")
efa_com_create_eq == Creates("device_eq")
efa_com_destroy_eq == Destroys("device_eq")
efa_com_get_feature_ex == Simple(Lacks(Return) \o Call("efa_com_cmd_exec", Return))
efa_com_set_feature_ex == Simple(Lacks(Return) \o Call("efa_com_cmd_exec", Return))
efa_com_get_device_attr == Simple(
    Call("efa_com_get_feature_ex", Return) \o
    Call("efa_com_get_feature_ex", Return) \o
    Try(Return) \o
    Call("efa_com_get_feature_ex", Return))
efa_com_get_hw_hints == Simple(CallIfAble("efa_com_get_feature_ex", Return))
efa_com_set_aenq_config == Simple(
    Call("efa_com_get_feature_ex", Return) \o
    Call("efa_com_set_feature_ex", Return))

\* Event queues, each with its interrupt.
efa_com_eq_init == Fn(
    Get("eq_mem", Return) \o
    Call("efa_com_create_eq", "err_free_coherent"),
    Label("err_free_coherent", Put("eq_mem")))
efa_com_eq_destroy == Simple(Best("efa_com_destroy_eq") \o Put("eq_mem"))
efa_create_eq == Fn(
    Get("eq_irq", Return) \o
    Call("efa_com_eq_init", "err_free_comp_irq"),
    Label("err_free_comp_irq", Put("eq_irq")))
efa_destroy_eq == Simple(Best("efa_com_eq_destroy") \o Put("eq_irq"))
efa_create_eqs == Fn(
    Get("eqs", Return) \o
    Each(Call("efa_create_eq", "err_destroy_eqs")),
    Label("err_destroy_eqs", Below(Best("efa_destroy_eq")) \o Put("eqs")))
efa_destroy_eqs == Simple(Each(Best("efa_destroy_eq")) \o Put("eqs"))

\* The device and its registration.
efa_request_mgmnt_irq == Simple(Touch("msix") \o Get("mgmnt_irq", Return))
efa_enable_msix == Simple(Get("msix", Return))
efa_disable_msix == Simple(Put("msix"))
efa_request_doorbell_bar == Simple(If(Maybe, Leave) \o Get("db_bar", Return))
efa_release_doorbell_bar == Simple(PutIfHeld("db_bar"))
efa_set_host_info == Simple(
    Get("host_info", Return) \o
    Best("efa_com_set_feature_ex") \o
    Put("host_info"))
efa_create_qp_table == Simple(Get("qp_table", Return))
efa_device_init == Simple(
    Call("efa_com_dev_reset", Return) \o
    Call("efa_com_validate_version", Return) \o
    Call("efa_com_get_dma_width", Return) \o
    Try(Return))
efa_probe_device == Fn(
    Get("pci", Return) \o
    Get("ibdev", "err_disable_device") \o
    Get("bars", "err_ibdev_destroy") \o
    Get("reg_bar", "err_release_bars") \o
    Call("efa_com_mmio_reg_read_init", "err_iounmap") \o
    Call("efa_device_init", "err_reg_read_destroy") \o
    Call("efa_enable_msix", "err_reg_read_destroy") \o
    Call("efa_request_mgmnt_irq", "err_disable_msix") \o
    Call("efa_com_admin_init", "err_free_mgmnt_irq") \o
    Have("sysfs"),
    Label("err_free_mgmnt_irq", Put("mgmnt_irq")) \o
    Label("err_disable_msix", Best("efa_disable_msix")) \o
    Label("err_reg_read_destroy", Best("efa_com_mmio_reg_read_destroy")) \o
    Label("err_iounmap", Put("reg_bar")) \o
    Label("err_release_bars", Put("bars")) \o
    Label("err_ibdev_destroy", Put("ibdev")) \o
    Label("err_disable_device", Put("pci")))
efa_ib_device_add == Fn(
    Call("efa_com_get_device_attr", Return) \o
    Call("efa_request_doorbell_bar", Return) \o
    Call("efa_com_get_hw_hints", "err_release_doorbell_bar") \o
    Call("efa_com_set_aenq_config", "err_release_doorbell_bar") \o
    Call("efa_create_eqs", "err_release_doorbell_bar") \o
    Best("efa_set_host_info") \o
    Call("efa_com_alloc_dev_uar", "err_destroy_eqs") \o
    Call("efa_create_qp_table", "err_dealloc_uar") \o
    Get("ib_registered", "err_free_qp_table"),
    Label("err_free_qp_table", Put("qp_table")) \o
    Label("err_dealloc_uar", Best("efa_com_dealloc_dev_uar")) \o
    Label("err_destroy_eqs", Best("efa_destroy_eqs")) \o
    Label("err_release_doorbell_bar", Best("efa_release_doorbell_bar")))
efa_ib_device_remove == Simple(
    Best("ib_unregister_device") \o
    Put("qp_table") \o
    Best("efa_com_dealloc_dev_uar") \o
    Best("efa_destroy_eqs") \o
    Best("efa_release_doorbell_bar"))
efa_remove_device == Simple(
    Put("sysfs") \o
    Best("efa_com_dev_reset") \o
    Best("efa_com_admin_destroy") \o
    Put("mgmnt_irq") \o
    Best("efa_disable_msix") \o
    Best("efa_com_mmio_reg_read_destroy") \o
    Put("reg_bar") \o Put("bars") \o Put("ibdev") \o Put("pci"))
efa_probe == Fn(
    Call("efa_probe_device", Return) \o
    Call("efa_ib_device_add", "err_remove_device"),
    Label("err_remove_device", Best("efa_remove_device")))
efa_remove == Simple(Best("efa_ib_device_remove") \o Best("efa_remove_device"))
efa_shutdown == Simple(
    Best("efa_destroy_eqs") \o
    Best("efa_com_dev_reset") \o
    Put("mgmnt_irq") \o
    Best("efa_disable_msix"))

\* The RDMA core: what rests on an object goes first, and an object that cannot
\* be destroyed is dropped when the device goes.
ib_unregister_device == Simple(
    If(Held("qp"), Best("efa_destroy_qp")) \o
    If(Held("device_ah"), Best("efa_destroy_ah")) \o
    If(Held("cq"), Best("efa_destroy_cq")) \o
    If(Held("mr"), Best("efa_dereg_mr")) \o
    If(Held("pd"), Best("efa_dealloc_pd")) \o
    If(Held("ucontext"), Best("efa_dealloc_ucontext")) \o
    Put("ib_registered"))

\* Contexts, protection domains and address handles.  The core allocates the
\* object and frees it when the call fails.
efa_alloc_ucontext == Fn(
    Try(Return) \o
    Call("efa_com_alloc_uar", Return) \o
    Try("err_dealloc_uar") \o
    Have("ucontext"),
    Label("err_dealloc_uar", Best("efa_com_dealloc_uar")))
efa_dealloc_ucontext == Simple(Best("efa_com_dealloc_uar") \o Put("ucontext"))
efa_alloc_pd == Fn(
    Try(Return) \o
    Call("efa_com_alloc_pd", Return) \o
    If(Feature("user"), Try("err_dealloc_pd")) \o
    Have("pd"),
    Label("err_dealloc_pd", Best("efa_com_dealloc_pd")))
efa_dealloc_pd == Simple(Best("efa_com_dealloc_pd") \o Put("pd"))
efa_create_ah == Fn(
    Try(Return) \o
    Call("efa_com_create_ah", Return) \o
    If(Feature("user"), Try("err_destroy_ah")),
    Label("err_destroy_ah", Best("efa_com_destroy_ah")))
efa_destroy_ah == Simple(Best("efa_com_destroy_ah"))

\* Completion queues: in memory of the driver or of the user, with or without an
\* event queue.
cq_mmap_entries_setup == Fn(
    Get("cq_mmap", Return) \o
    If(Maybe, Get("cq_db_mmap", "db")),
    Label("db", Put("cq_mmap")))
efa_cq_user_mmap_entries_remove == Simple(PutIfHeld("cq_db_mmap") \o PutIfHeld("cq_mmap"))
efa_create_cq_kernel == Fn(
    Try(Return) \o
    Get("sub_cq_arr", Return) \o
    Get("cq_buf", "err_free_sub_cq_arr") \o
    If(Maybe, Set("cq_eq")) \o
    If(Held("cq_eq"), Try("err_free_mapped")) \o
    Call("efa_com_create_cq", "err_free_mapped") \o
    If(Held("cq_eq"), Get("cqs_xa", "err_destroy_cq")) \o
    Have("cq"),
    Label("err_destroy_cq", Best("efa_com_destroy_cq")) \o
    Label("err_free_mapped", Put("cq_buf")) \o
    Label("err_free_sub_cq_arr", Put("sub_cq_arr") \o Clear("cq_eq")))
efa_create_user_cq == Fn(
    Try(Return) \o
    If(Free("umem_cq"), Get("cq_buf", Return)) \o
    If(Maybe, Set("cq_eq")) \o
    Call("efa_com_create_cq", "err_free_mapped") \o
    If(Held("cq_buf"), Call("cq_mmap_entries_setup", "err_destroy_cq")) \o
    If(Held("cq_eq"), Get("cqs_xa", "err_remove_mmap")) \o
    Try("err_xa_erase") \o
    Have("cq"),
    Label("err_xa_erase", If(Held("cq_eq"), Put("cqs_xa"))) \o
    Label("err_remove_mmap", If(Held("cq_buf"), Best("efa_cq_user_mmap_entries_remove"))) \o
    Label("err_destroy_cq", Best("efa_com_destroy_cq")) \o
    Label("err_free_mapped", PutIfHeld("cq_buf") \o Clear("cq_eq")))
efa_create_cq_umem_backport == Fn(
    If(Maybe, Get("umem_cq", Return)) \o
    Call("efa_create_user_cq", "err"),
    Label("err", PutIfHeld("umem_cq")))
efa_destroy_cq == Simple(
    Best("efa_com_destroy_cq") \o
    If(Held("cq_buf"), Best("efa_cq_user_mmap_entries_remove")) \o
    If(Held("cq_eq"), Put("cqs_xa") \o Touch("eqs")) \o
    PutIfHeld("cq_buf") \o PutIfHeld("umem_cq") \o
    PutIfHeld("sub_cq_arr") \o
    Put("cq") \o Clear("cq_eq"))

\* Queue pairs.
efa_qp_user_mmap_entries_remove == Simple(
    PutIfHeld("rq_mmap") \o PutIfHeld("rq_db_mmap") \o
    PutIfHeld("llq_desc_mmap") \o PutIfHeld("sq_db_mmap"))
qp_mmap_entries_setup == Fn(
    Get("sq_db_mmap", Return) \o
    Get("llq_desc_mmap", "err_remove_mmap") \o
    If(Held("rq_buf"), Get("rq_db_mmap", "err_remove_mmap")) \o
    If(Held("rq_buf"), Get("rq_mmap", "err_remove_mmap")),
    Label("err_remove_mmap", Best("efa_qp_user_mmap_entries_remove")))
efa_wq_initialize(wq) == Fn(
    Get(wq \o "_wrid", Return) \o
    Get(wq \o "_wrid_idx_pool", "err_free_wrid"),
    Label("err_free_wrid", Put(wq \o "_wrid")))
efa_wq_terminate(wq) ==
    Simple(PutIfHeld(wq \o "_wrid_idx_pool") \o PutIfHeld(wq \o "_wrid"))
efa_create_qp_kernel == Fn(
    Try(Return) \o
    If(Maybe, Get("rq_buf", Return)) \o
    Call("efa_com_create_qp", "err_free_mapped") \o
    If(Held("rq_buf"), Call("efa_rq_initialize", "err_destroy_qp")) \o
    Call("efa_sq_initialize", "err_terminate_rq") \o
    Touch("sub_cq_arr") \o
    Touch("qp_table") \o Set("in_qp_table") \o
    Have("qp"),
    Label("err_terminate_rq", Best("efa_rq_terminate")) \o
    Label("err_destroy_qp", Best("efa_com_destroy_qp")) \o
    Label("err_free_mapped", PutIfHeld("rq_buf")))
efa_create_qp == Fn(
    If(Feature("kernel"), Call("efa_create_qp_kernel", Return) \o Leave) \o
    Try(Return) \o
    If(Maybe, Get("rq_buf", Return)) \o
    Call("efa_com_create_qp", "err_free_mapped") \o
    Call("qp_mmap_entries_setup", "err_destroy_qp") \o
    Try("err_remove_mmap_entries") \o
    Have("qp"),
    Label("err_remove_mmap_entries", Best("efa_qp_user_mmap_entries_remove")) \o
    Label("err_destroy_qp", Best("efa_com_destroy_qp")) \o
    Label("err_free_mapped", PutIfHeld("rq_buf")))
efa_modify_qp == Simple(Try(Return) \o Call("efa_com_modify_qp", Return))
efa_qp_terminate == Simple(
    Touch("qp_table") \o Touch("sub_cq_arr") \o Clear("in_qp_table") \o
    Best("efa_sq_terminate") \o
    Best("efa_rq_terminate"))
efa_destroy_qp == Simple(
    Call("efa_com_destroy_qp", Return) \o
    If(Feature("user"), Best("efa_qp_user_mmap_entries_remove")) \o
    If(Feature("kernel"), Best("efa_qp_terminate")) \o
    PutIfHeld("rq_buf") \o
    Put("qp"))

\* Memory regions.  A list of pages that does not fit the command is a buffer of
\* its own, in one piece or in chunks, which lives as long as the command.  There
\* are two chunks here, and the last is mapped first.
pbl_chunk_list_create == Fn(
    Get("chunks", Return) \o
    Get("chunk_bufs", "chunk_list_dealloc") \o
    Get("last_chunk_map", "unmap_from_last") \o
    Get("first_chunk_map", "unmap_from_first"),
    Label("unmap_from_first", Put("first_chunk_map")) \o
    Label("unmap_from_last", Put("last_chunk_map")) \o
    Label("chunk_list_dealloc", PutIfHeld("chunk_bufs") \o Put("chunks")))
pbl_chunk_list_destroy == Simple(
    Put("first_chunk_map") \o Put("last_chunk_map") \o
    Put("chunk_bufs") \o Put("chunks"))
pbl_continuous_initialize == Simple(Get("pbl_map", Return))
pbl_indirect_initialize == Fn(
    Get("sgl", Return) \o
    Get("sgl_map", "err_map") \o
    Call("pbl_chunk_list_create", "err_chunk"),
    Label("err_chunk", Put("sgl_map")) \o
    Label("err_map", Put("sgl")))
pbl_indirect_terminate ==
    Simple(Best("pbl_chunk_list_destroy") \o Put("sgl_map") \o Put("sgl"))
pbl_create == Fn(
    Get("pbl_buf", Return) \o
    If(Maybe, Set("in_chunks")) \o
    Try("err_free") \o
    If(Held("in_chunks"), Call("pbl_indirect_initialize", "err_free")) \o
    If(Free("in_chunks"), Call("pbl_continuous_initialize", "err_free")),
    Label("err_free", Put("pbl_buf")))
pbl_destroy == Simple(
    If(Free("in_chunks"), Put("pbl_map")) \o
    If(Held("in_chunks"), Best("pbl_indirect_terminate")) \o
    Put("pbl_buf"))
efa_create_pbl == Simple(Call("pbl_create", Return))
efa_alloc_mr == Simple(Try(Return) \o Get("mr", Return))
efa_register_mr == Fn(
    Try(Return) \o
    If(Maybe, Set("by_list")) \o
    If(Held("by_list"), Call("efa_create_pbl", Return)) \o
    Call("efa_com_register_mr", "list") \o
    If(Held("by_list"), Best("pbl_destroy")),
    Label("list", If(Held("by_list"), Best("pbl_destroy"))))
efa_reg_user_mr_dmabuf == Fn(
    Call("efa_alloc_mr", Return) \o
    Get("umem", "err_free") \o
    Call("efa_register_mr", "err_release"),
    Label("err_release", Put("umem")) \o
    Label("err_free", Put("mr")))
\* Memory the kernel cannot pin may belong to a device.
efa_reg_mr == Fn(
    Call("efa_alloc_mr", Return) \o
    If(Maybe, Get("umem", "err_free")) \o
    If(Free("umem"), Get("p2pmem", "err_free")) \o
    Call("efa_register_mr", "err_release"),
    Label("err_release", PutIfHeld("p2pmem") \o PutIfHeld("umem")) \o
    Label("err_free", Put("mr")))
efa_get_dma_mr == Fn(
    Try(Return) \o
    Get("mr", Return) \o
    Set("dma_mr") \o
    Call("efa_com_register_mr", "err_free"),
    Label("err_free", Put("mr") \o Clear("dma_mr")))
efa_alloc_fast_mr == Fn(
    Try(Return) \o
    Get("mr", Return) \o
    Get("pages_list", "err_free_mr") \o
    Get("pages_map", "err_free_pages_list") \o
    Call("efa_com_alloc_mr", "err_unmap_pages"),
    Label("err_unmap_pages", Put("pages_map")) \o
    Label("err_free_pages_list", Put("pages_list")) \o
    Label("err_free_mr", Put("mr")))
efa_p2p_put == Simple(Call("efa_com_dereg_mr", Return) \o Put("p2pmem"))
efa_dereg_mr == Simple(
    If(Held("p2pmem"), Set("is_p2p")) \o
    If(Held("is_p2p"), Call("efa_p2p_put", Return) \o Put("mr") \o Leave) \o
    Call("efa_com_dereg_mr", Return) \o
    PutIfHeld("umem") \o
    PutIfHeld("pages_map") \o PutIfHeld("pages_list") \o
    Put("mr") \o Clear("dma_mr"))
\* The code above by name.
EfaCode ==
    [efa_com_mmio_reg_read_init |-> efa_com_mmio_reg_read_init,
     efa_com_mmio_reg_read_destroy |-> efa_com_mmio_reg_read_destroy,
     efa_com_reg_read32 |-> efa_com_reg_read32,
     efa_com_validate_version |-> efa_com_validate_version,
     efa_com_get_dma_width |-> efa_com_get_dma_width,
     wait_for_reset_state |-> wait_for_reset_state,
     efa_com_dev_reset |-> efa_com_dev_reset,
     efa_com_init_comp_ctxt |-> efa_com_init_comp_ctxt,
     efa_com_admin_init_sq |-> efa_com_admin_init_sq,
     efa_com_admin_init_cq |-> efa_com_admin_init_cq,
     efa_com_admin_init_aenq |-> efa_com_admin_init_aenq,
     efa_com_admin_init |-> efa_com_admin_init,
     efa_com_admin_destroy |-> efa_com_admin_destroy,
     efa_com_cmd_exec |-> efa_com_cmd_exec,
     efa_com_cmd_destroy |-> efa_com_cmd_destroy,
     efa_com_create_qp |-> efa_com_create_qp,
     efa_com_destroy_qp |-> efa_com_destroy_qp,
     efa_com_modify_qp |-> efa_com_modify_qp, efa_com_create_cq |-> efa_com_create_cq,
     efa_com_destroy_cq |-> efa_com_destroy_cq,
     efa_com_register_mr |-> efa_com_register_mr,
     efa_com_alloc_mr |-> efa_com_alloc_mr, efa_com_dereg_mr |-> efa_com_dereg_mr,
     efa_com_create_ah |-> efa_com_create_ah,
     efa_com_destroy_ah |-> efa_com_destroy_ah, efa_com_alloc_pd |-> efa_com_alloc_pd,
     efa_com_dealloc_pd |-> efa_com_dealloc_pd,
     efa_com_alloc_uar |-> efa_com_alloc_uar,
     efa_com_dealloc_uar |-> efa_com_dealloc_uar,
     efa_com_alloc_dev_uar |-> efa_com_alloc_dev_uar,
     efa_com_dealloc_dev_uar |-> efa_com_dealloc_dev_uar,
     efa_com_create_eq |-> efa_com_create_eq,
     efa_com_destroy_eq |-> efa_com_destroy_eq,
     efa_com_get_feature_ex |-> efa_com_get_feature_ex,
     efa_com_set_feature_ex |-> efa_com_set_feature_ex,
     efa_com_get_device_attr |-> efa_com_get_device_attr,
     efa_com_get_hw_hints |-> efa_com_get_hw_hints,
     efa_com_set_aenq_config |-> efa_com_set_aenq_config,
     efa_com_eq_init |-> efa_com_eq_init, efa_com_eq_destroy |-> efa_com_eq_destroy,
     efa_create_eq |-> efa_create_eq, efa_destroy_eq |-> efa_destroy_eq,
     efa_create_eqs |-> efa_create_eqs, efa_destroy_eqs |-> efa_destroy_eqs,
     efa_request_mgmnt_irq |-> efa_request_mgmnt_irq,
     efa_enable_msix |-> efa_enable_msix, efa_disable_msix |-> efa_disable_msix,
     efa_request_doorbell_bar |-> efa_request_doorbell_bar,
     efa_release_doorbell_bar |-> efa_release_doorbell_bar,
     efa_set_host_info |-> efa_set_host_info,
     efa_create_qp_table |-> efa_create_qp_table, efa_device_init |-> efa_device_init,
     efa_probe_device |-> efa_probe_device, efa_ib_device_add |-> efa_ib_device_add,
     efa_ib_device_remove |-> efa_ib_device_remove,
     efa_remove_device |-> efa_remove_device, efa_probe |-> efa_probe,
     efa_remove |-> efa_remove, efa_shutdown |-> efa_shutdown,
     ib_unregister_device |-> ib_unregister_device,
     efa_alloc_ucontext |-> efa_alloc_ucontext,
     efa_dealloc_ucontext |-> efa_dealloc_ucontext, efa_alloc_pd |-> efa_alloc_pd,
     efa_dealloc_pd |-> efa_dealloc_pd, efa_create_ah |-> efa_create_ah,
     efa_destroy_ah |-> efa_destroy_ah,
     cq_mmap_entries_setup |-> cq_mmap_entries_setup,
     efa_cq_user_mmap_entries_remove |-> efa_cq_user_mmap_entries_remove,
     efa_create_cq_kernel |-> efa_create_cq_kernel,
     efa_create_user_cq |-> efa_create_user_cq,
     efa_create_cq_umem_backport |-> efa_create_cq_umem_backport,
     efa_destroy_cq |-> efa_destroy_cq,
     efa_qp_user_mmap_entries_remove |-> efa_qp_user_mmap_entries_remove,
     qp_mmap_entries_setup |-> qp_mmap_entries_setup,
     efa_create_qp_kernel |-> efa_create_qp_kernel, efa_create_qp |-> efa_create_qp,
     efa_modify_qp |-> efa_modify_qp, efa_qp_terminate |-> efa_qp_terminate,
     efa_destroy_qp |-> efa_destroy_qp,
     pbl_chunk_list_create |-> pbl_chunk_list_create,
     pbl_chunk_list_destroy |-> pbl_chunk_list_destroy,
     pbl_continuous_initialize |-> pbl_continuous_initialize,
     pbl_indirect_initialize |-> pbl_indirect_initialize,
     pbl_indirect_terminate |-> pbl_indirect_terminate, pbl_create |-> pbl_create,
     pbl_destroy |-> pbl_destroy, efa_create_pbl |-> efa_create_pbl,
     efa_alloc_mr |-> efa_alloc_mr, efa_register_mr |-> efa_register_mr,
     efa_reg_user_mr_dmabuf |-> efa_reg_user_mr_dmabuf, efa_reg_mr |-> efa_reg_mr,
     efa_get_dma_mr |-> efa_get_dma_mr, efa_alloc_fast_mr |-> efa_alloc_fast_mr,
     efa_p2p_put |-> efa_p2p_put, efa_dereg_mr |-> efa_dereg_mr,
     efa_rq_initialize |-> efa_wq_initialize("rq"),
     efa_sq_initialize |-> efa_wq_initialize("sq"),
     efa_rq_terminate |-> efa_wq_terminate("rq"),
     efa_sq_terminate |-> efa_wq_terminate("sq")]

EfaProbed == {"pci", "ibdev", "bars", "reg_bar", "mmio_read", "comp_ctx", "admin_sq",
    "admin_cq", "aenq", "sysfs", "qp_table", "ib_registered"}
EfaRunning == EfaProbed \cup {"msix", "mgmnt_irq", "eqs", "eq_irq", "eq_mem", "device_eq",
    "dev_uar", "aenq_armed"}
\* The objects of a client; those of them that are lost when their destroy command
\* is not answered before the device goes.
EfaLost == {"qp", "rq_buf", "sq_db_mmap", "llq_desc_mmap", "rq_db_mmap", "rq_mmap",
    "sq_wrid", "sq_wrid_idx_pool", "rq_wrid", "rq_wrid_idx_pool",
    "mr", "umem", "p2pmem", "pages_list", "pages_map"}
EfaClient == EfaLost \cup {"ucontext", "pd", "cq", "cq_buf", "umem_cq", "sub_cq_arr",
    "cq_mmap", "cq_db_mmap", "cqs_xa"}
EfaOnDevice == {"device_uar", "device_pd", "device_cq", "device_qp", "device_mr",
    "device_ah", "device_eq", "dev_uar"}
EfaOwns == [absent |-> {}, off |-> EfaProbed, up |-> EfaRunning]
EfaMayOwn ==
    [absent |-> EfaLost, off |-> EfaClient \cup {"db_bar"},
     up |-> EfaClient \cup EfaOnDevice \cup {"db_bar"}]

\* The RDMA core creates an object after what it rests on, and destroys it before.
EfaVerbs ==
    {Verb("efa_alloc_ucontext", "up", {Free("ucontext")}),
     Verb("efa_dealloc_ucontext", "up", {Held("ucontext"), Free("pd"), Free("cq")}),
     Verb("efa_alloc_pd", "up", {Held("ucontext"), Free("pd")}),
     Verb("efa_dealloc_pd", "up",
          {Held("pd"), Free("qp"), Free("mr"), Free("device_ah")}),
     Verb("efa_create_ah", "up", {Held("pd"), Free("device_ah")}),
     Verb("efa_destroy_ah", "up", {Held("device_ah")}),
     Verb("efa_create_cq_umem_backport", "up",
          {Feature("user"), Held("ucontext"), Free("cq")}),
     Verb("efa_create_cq_kernel", "up", {Feature("kernel"), Held("ucontext"), Free("cq")}),
     Verb("efa_destroy_cq", "up", {Held("cq"), Free("qp")}),
     Verb("efa_create_qp", "up", {Held("pd"), Held("cq"), Free("qp")}),
     Verb("efa_modify_qp", "up", {Held("qp")}),
     Verb("efa_destroy_qp", "up", {Held("qp")}),
     Verb("efa_reg_mr", "up", {Feature("user"), Held("pd"), Free("mr")}),
     Verb("efa_reg_user_mr_dmabuf", "up", {Feature("user"), Held("pd"), Free("mr")}),
     Verb("efa_get_dma_mr", "up", {Feature("kernel"), Held("pd"), Free("mr")}),
     Verb("efa_alloc_fast_mr", "up", {Feature("kernel"), Held("pd"), Free("mr")}),
     Verb("efa_dereg_mr", "up", {Held("mr")})}

Efa ==
    [entries |-> EfaVerbs \cup
        {Entry("efa_probe", {"absent", "off"}, "up", "absent"),
         Entry("efa_remove", {"up"}, "absent", "absent"),
         Entry("efa_shutdown", {"up"}, "off", "off")},
     phases |-> DOMAIN EfaOwns, owns |-> EfaOwns, mayOwn |-> EfaMayOwn,
     features |-> {{"user"}, {"kernel"}},
     flags |-> {"RUNNING", "cq_eq", "in_qp_table", "dma_mr"},
     locals |-> {"by_list", "in_chunks", "is_p2p"},
     up |-> "ib_registered", alive |-> "ib_registered",
     accepts |-> {"RUNNING", "comp_ctx"},
     running |-> "RUNNING",
     onDevice |-> EfaOnDevice \cup {"aenq_armed"},
     base |->
        [mgmnt_irq |-> {{"msix"}}, eq_irq |-> {{"msix"}}, device_eq |-> {{"eq_mem"}},
         eq_mem |-> {{"eqs"}}, aenq_armed |-> {{"aenq"}}, reg_bar |-> {{"bars"}},
         device_pd |-> {{"device_uar"}}, device_ah |-> {{"device_pd"}},
         device_cq |-> {{"cq_buf", "umem_cq"}}, cq_mmap |-> {{"cq_buf"}},
         device_qp |-> {{"device_pd"}, {"device_cq"}}, rq_mmap |-> {{"rq_buf"}},
         in_qp_table |-> {{"qp_table"}, {"sq_wrid"}},
         device_mr |-> {{"device_pd"}, {"umem", "p2pmem", "pages_map", "dma_mr"}},
         pbl_map |-> {{"pbl_buf"}}, sgl_map |-> {{"sgl"}, {"pbl_buf"}},
         last_chunk_map |-> {{"chunk_bufs"}}, first_chunk_map |-> {{"chunk_bufs"}},
         pages_map |-> {{"pages_list"}}],
     objects |->
        {{"ucontext", "device_uar"}, {"pd", "device_pd"}, {"cq", "device_cq"},
         {"qp", "device_qp"}, {"mr", "device_mr"}, {"sq_db_mmap", "llq_desc_mmap"},
         {"rq_db_mmap", "rq_mmap"}, {"sq_wrid", "sq_wrid_idx_pool"},
         {"rq_wrid", "rq_wrid_idx_pool"}, {"pages_list", "pages_map"}},
     givenUp |-> EfaOnDevice,
     excused |-> {"efa_reg_mr", "efa_reg_user_mr_dmabuf"} \X
                 {"first_chunk_map", "last_chunk_map"} \cup
        {"efa_remove", "absent"} \X {"in_qp_table"}]
=============================================================================
