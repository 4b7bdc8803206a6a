---------------------------- MODULE FbsdBringUp ------------------------------
(***************************************************************************)
(* What the FreeBSD ENA driver acquires and releases: attach and detach,   *)
(* up and down, reset, and the changes an administrator may ask for.  See  *)
(* Steps for the vocabulary and BringUp for what is asked of it.           *)
(***************************************************************************)
EXTENDS FbsdHal

\* What a ring needs even while the interface is down.
ena_init_io_rings_advanced == Simple(Each(
    Have("br") \o Have("tx_stats") \o Have("rx_stats") \o Have("ring_mtx")))
ena_init_io_rings == Simple(Best("ena_init_io_rings_advanced"))
ena_free_io_ring_resources == Simple(
    Put("tx_stats") \o Put("rx_stats") \o Touch("ring_mtx") \o Put("br") \o
    Put("ring_mtx"))
ena_free_all_io_rings_resources ==
    Simple(If(Held("num_io_queues"), Each(Best("ena_free_io_ring_resources"))))
ena_setup_tx_dma_tag == Simple(Get("tx_buf_tag", Return))
ena_free_tx_dma_tag == Simple(Put("tx_buf_tag"))
ena_setup_rx_dma_tag == Simple(Get("rx_buf_tag", Return))
ena_free_rx_dma_tag == Simple(Put("rx_buf_tag"))

\* Memory of a ring while the interface is up.
ena_release_all_tx_dmamap == Simple(PutIfHeld("tx_maps"))
ena_setup_tx_resources == Fn(
    Get("tx_buffer_info", Return) \o
    Get("free_tx_ids", "err_buf_info_free") \o
    Get("push_buf", "err_tx_ids_free") \o
    Touch("ring_mtx") \o Touch("br") \o
    Get("tx_maps", "err_map_release") \o
    Get("enqueue_tq", "err_map_release"),
    Label("err_map_release", Best("ena_release_all_tx_dmamap")) \o
    Label("err_tx_ids_free", Put("free_tx_ids")) \o
    Label("err_buf_info_free", Put("tx_buffer_info")))
ena_free_tx_resources == Simple(
    Put("enqueue_tq") \o
    Touch("ring_mtx") \o Touch("br") \o
    Put("tx_maps") \o
    Put("tx_buffer_info") \o Put("free_tx_ids") \o Put("push_buf"))
ena_setup_all_tx_resources == Fn(
    Each(Call("ena_setup_tx_resources", "err_setup_tx")),
    Label("err_setup_tx", Below(Best("ena_free_tx_resources"))))
ena_free_all_tx_resources == Simple(Each(Best("ena_free_tx_resources")))
ena_setup_rx_resources == Fn(
    Have("rx_buffer_info") \o
    Have("free_rx_ids") \o
    Get("rx_maps", "err_buf_info_unmap"),
    Label("err_buf_info_unmap", Put("free_rx_ids")) \o Put("rx_buffer_info"))
ena_free_rx_resources == Simple(
    Clear("rx_bufs") \o Put("rx_maps") \o
    Put("rx_buffer_info") \o Put("free_rx_ids"))
ena_setup_all_rx_resources == Fn(
    Each(Call("ena_setup_rx_resources", "err_setup_rx")),
    Label("err_setup_rx", Below(Best("ena_free_rx_resources"))))
ena_free_all_rx_resources == Simple(Each(Best("ena_free_rx_resources")))
ena_refill_all_rx_bufs == Simple(Each(Touch("rx_maps") \o Set("rx_bufs")))
ena_free_all_rx_bufs == Simple(Each(Touch("rx_maps") \o Clear("rx_bufs")))
ena_free_tx_bufs == Simple(Touch("ring_mtx") \o Touch("tx_maps"))
ena_free_all_tx_bufs == Simple(Each(Best("ena_free_tx_bufs")))

\* Queues of the device.  A queue whose handlers cannot be had goes at once.
ena_destroy_all_tx_queues == Simple(Each(Best("ena_com_destroy_io_queue")))
ena_destroy_all_rx_queues == Simple(Each(Rx(Best("ena_com_destroy_io_queue"))))
ena_destroy_all_io_queues == Simple(
    Each(Put("cleanup_tq")) \o
    Best("ena_destroy_all_tx_queues") \o
    Best("ena_destroy_all_rx_queues"))
ena_create_io_queues == Fn(
    Each(Call("ena_com_create_io_queue", "err_tx")) \o
    Each(Rx(Call("ena_com_create_io_queue", "err_rx"))) \o
    Each(Have("cleanup_tq")),
    Label("err_rx", Below(Rx(Best("ena_com_destroy_io_queue")))) \o
    Each(Best("ena_com_destroy_io_queue")) \o
    Raise(Return) \o
    Label("err_tx", Below(Best("ena_com_destroy_io_queue"))))
\* Only what is short of memory is tried again; a queue that the device does not
\* create is not.
create_queues_with_size_backoff == Fn(
    Call("ena_setup_all_tx_resources", "err_setup_tx") \o
    Call("ena_setup_all_rx_resources", "err_setup_rx") \o
    Call("ena_create_io_queues", "err_io_que"),
    Label("err_io_que", Best("ena_free_all_rx_resources")) \o
    Best("ena_free_all_tx_resources") \o
    Raise(Return) \o
    Label("err_setup_rx", Best("ena_free_all_tx_resources")) \o
    Label("err_setup_tx", If(Maybe, Retry)))

\* Interrupts.
ena_enable_msix == Fn(
    If(Held("MSIX_ENABLED"), Raise(Return)) \o
    Have("msix_entries") \o
    Get("msix", "err_msix_free") \o
    Set("MSIX_ENABLED"),
    Label("err_msix_free", Put("msix_entries")))
ena_disable_msix == Simple(
    If(Held("MSIX_ENABLED"), Put("msix")) \o
    Clear("MSIX_ENABLED") \o
    PutIfHeld("msix_entries"))
ena_setup_mgmnt_intr == Simple(Touch("msix_entries"))
ena_request_mgmnt_irq == Simple(Get("mgmnt_irq", Return))
ena_free_mgmnt_irq == Simple(PutIfHeld("mgmnt_irq"))
ena_setup_io_intr == Simple(If(Free("msix_entries"), Raise(Return)))
ena_request_io_irq == Fn(
    If(Free("MSIX_ENABLED"), Raise(Return)) \o
    Each(If(Free("io_irq"), Get("io_irq", "err"))),
    Label("err", Below(Put("io_irq"))))
ena_free_io_irq == Simple(Each(PutIfHeld("io_irq")))
ena_free_irqs == Simple(
    Best("ena_free_io_irq") \o Best("ena_free_mgmnt_irq") \o Best("ena_disable_msix"))
ena_unmask_all_io_irqs == Simple(Each(Touch("io_irq") \o Touch("tx_stats")))
ena_enable_msix_and_set_admin_interrupts == Fn(
    Call("ena_enable_msix", Return) \o
    Best("ena_setup_mgmnt_intr") \o
    Call("ena_request_mgmnt_irq", "err_disable_msix") \o
    Best("ena_com_admin_aenq_enable"),
    Label("err_disable_msix", Best("ena_disable_msix")))

\* Receive side scaling.
ena_rss_indir_get == Simple(Call("ena_com_indirect_table_get", Return))
ena_rss_indir_init == Fn(
    If(Free("rss_indir"), Have("rss_indir")) \o
    Call("ena_rss_indir_get", "get"),
    Label("get", Put("rss_indir")))
ena_rss_init_default == Fn(
    Call("ena_com_rss_init", Return) \o
    CallIfAble("ena_com_indirect_table_fill_entry", "err_rss_destroy") \o
    CallIfAble("ena_com_fill_hash_function", "err_rss_destroy") \o
    CallIfAble("ena_com_set_default_hash_ctrl", "err_rss_destroy") \o
    CallIfAble("ena_rss_indir_init", Return),
    Label("err_rss_destroy", Best("ena_com_rss_destroy")))
ena_rss_configure == Fn(
    If(Free("rss_ind_tbl"), CallIfAble("ena_rss_init_default", "inactive")) \o
    CallIfAble("ena_com_indirect_table_set", Return) \o
    CallIfAble("ena_com_set_hash_function", Return) \o
    CallIfAble("ena_com_set_hash_ctrl", Return),
    Label("inactive", Clear("RSS_ACTIVE")))
\* Once, when the kernel has started.
ena_rss_init_default_deferred == Fn(
    Set("started") \o
    Call("ena_rss_init_default", "inactive") \o
    Set("RSS_ACTIVE"),
    Label("inactive", Clear("RSS_ACTIVE")))

\* Up and down.
ena_change_mtu == Simple(Try(Return) \o Call("ena_com_set_dev_mtu", Return))
ena_up_complete == Simple(
    If(Held("RSS_ACTIVE"), Call("ena_rss_configure", Return)) \o
    Call("ena_change_mtu", Return) \o
    Best("ena_refill_all_rx_bufs"))
ena_up == Fn(
    Touch("ena_lock") \o
    If(Held("DEV_UP"), Leave) \o
    Call("ena_setup_io_intr", "error") \o
    Call("ena_request_io_irq", "error") \o
    Call("create_queues_with_size_backoff", "err_create_queues_with_backoff") \o
    Call("ena_up_complete", "err_up_complete") \o
    Set("DEV_UP") \o
    Best("ena_unmask_all_io_irqs"),
    Label("err_up_complete", Best("ena_destroy_all_io_queues")) \o
    Best("ena_free_all_rx_resources") \o
    Best("ena_free_all_tx_resources") \o
    Label("err_create_queues_with_backoff", Best("ena_free_io_irq")))
ena_down == Simple(
    Touch("ena_lock") \o
    If(Free("DEV_UP"), Leave) \o
    Clear("DEV_UP") \o
    Best("ena_free_io_irq") \o
    If(Held("TRIGGER_RESET"), Best("ena_com_dev_reset")) \o
    Best("ena_destroy_all_io_queues") \o
    Best("ena_free_all_tx_bufs") \o
    Best("ena_free_all_rx_bufs") \o
    Best("ena_free_all_tx_resources") \o
    Best("ena_free_all_rx_resources"))

\* The device: its admin queue and what it is told first.
ena_config_host_info == Fn(
    Call("ena_com_allocate_host_info", Return) \o
    Call("ena_com_set_host_attributes", "err"),
    Label("err", Best("ena_com_delete_host_info")))
ena_map_llq_mem_bar == Simple(
    If(Feature("mem_bar"), Have("memory")) \o If(Feature("mem_bar"), Try(Return)))
ena_set_queues_placement_policy == Simple(
    If(Free("memory"), Leave) \o If(Maybe, Leave) \o Best("ena_com_config_dev_mode"))
ena_device_init == Fn(
    Call("ena_com_mmio_reg_read_request_init", Return) \o
    Call("ena_com_dev_reset", "err_mmio_read_less") \o
    Call("ena_com_validate_version", "err_mmio_read_less") \o
    Call("ena_com_get_dma_width", "err_mmio_read_less") \o
    Call("ena_com_admin_init", "err_mmio_read_less") \o
    Best("ena_config_host_info") \o
    Call("ena_com_get_dev_attr_feat", "err_admin_init") \o
    Call("ena_com_set_aenq_config", "err_admin_init") \o
    Best("ena_set_queues_placement_policy"),
    Label("err_admin_init", Best("ena_com_delete_host_info")) \o
    Best("ena_com_admin_destroy") \o
    Label("err_mmio_read_less", Best("ena_com_mmio_reg_read_request_destroy")))
ena_destroy_device(graceful) == Simple(
    If(Free("DEVICE_RUNNING"), Leave) \o
    PutIfHeld("timer") \o
    Clear("dev_up") \o
    If(Held("DEV_UP"), Set("DEV_UP_BEFORE_RESET")) \o
    If(Held("DEV_UP"), Set("dev_up")) \o
    (IF graceful THEN <<>> ELSE Best("ena_com_set_admin_running_state")) \o
    If(Held("DEV_UP"), Best("ena_down")) \o
    If(Free("dev_up"), Best("ena_com_dev_reset")) \o
    If(Free("TRIGGER_RESET"), If(Held("dev_up"), Best("ena_com_dev_reset"))) \o
    Best("ena_free_mgmnt_irq") \o
    Best("ena_disable_msix") \o
    Best("ena_free_all_io_rings_resources") \o
    Best("ena_com_abort_admin_commands") \o
    Best("ena_com_admin_destroy") \o
    Best("ena_com_mmio_reg_read_request_destroy") \o
    Clear("TRIGGER_RESET") \o
    Clear("DEVICE_RUNNING"))
ena_restore_device == Fn(
    Call("ena_device_init", "err") \o
    Try("err_device_destroy") \o
    Call("ena_enable_msix_and_set_admin_interrupts", "err_device_destroy") \o
    Best("ena_init_io_rings") \o
    If(Held("DEV_UP_BEFORE_RESET"), Call("ena_up", "err_disable_msix")) \o
    Set("DEVICE_RUNNING") \o
    Have("timer") \o
    Clear("DEV_UP_BEFORE_RESET"),
    Label("err_disable_msix", Best("ena_free_mgmnt_irq")) \o
    Best("ena_disable_msix") \o
    Label("err_device_destroy", Best("ena_com_abort_admin_commands")) \o
    Best("ena_com_admin_destroy") \o
    Best("ena_com_dev_reset") \o
    Best("ena_com_mmio_reg_read_request_destroy") \o
    Label("err", Clear("DEVICE_RUNNING")))
ena_trigger_reset == Simple(Set("TRIGGER_RESET"))
check_for_admin_com_state == Simple(If(Free("ADMIN_RUNNING"), Set("TRIGGER_RESET")))

\* What the kernel and the administrator ask for, under the driver's lock.
locked(s) == Have("ena_lock") \o s \o Put("ena_lock")
ena_reset_task == Simple(locked(
    If(Held("TRIGGER_RESET"), Set("destroyed") \o Best("ena_destroy_device")) \o
    If(Held("destroyed"), Best("ena_restore_device"))))
ena_init == Simple(If(Held("DEV_UP"), Leave) \o locked(Best("ena_up")))
SIOCSIFMTU == Simple(locked(
    Best("ena_down") \o Best("ena_change_mtu") \o Best("ena_up")))
SIOCSIFFLAGS_up == Simple(If(Held("DEV_UP"), Leave) \o locked(Best("ena_up")))
SIOCSIFFLAGS_down == Simple(If(Free("DEV_UP"), Leave) \o locked(Best("ena_down")))
SIOCSIFCAP == Simple(
    If(Free("DEV_UP"), Leave) \o locked(Best("ena_down") \o Best("ena_up")))
ena_reinit_netmap == Simple(
    PutIfHeld("netmap") \o Call("ena_netmap_attach", Return))
note_dev_was_up == Clear("dev_was_up") \o If(Held("DEV_UP"), Set("dev_was_up"))
revive == Set("DEV_UP_BEFORE_RESET") \o Best("ena_trigger_reset")
ena_update_buf_ring_size == Fn(
    note_dev_was_up \o
    Best("ena_down") \o
    Best("ena_free_all_io_rings_resources") \o
    Best("ena_init_io_rings_advanced") \o
    If(Feature("netmap"), Call("ena_reinit_netmap", Return)) \o
    If(Held("dev_was_up"), Call("ena_up", "revert")),
    Label("revert", Best("ena_free_all_io_rings_resources")) \o
    Best("ena_init_io_rings_advanced") \o
    If(Feature("netmap"), Call("ena_reinit_netmap", Return)) \o
    revive)
ena_update_queue_size == Fn(
    note_dev_was_up \o
    Best("ena_down") \o
    If(Feature("netmap"), Call("ena_reinit_netmap", Return)) \o
    If(Held("dev_was_up"), Call("ena_up", "revert")),
    Label("revert", If(Feature("netmap"), Call("ena_reinit_netmap", Return))) \o
    Call("ena_up", "reset") \o
    Leave \o
    Label("reset", revive))
ena_update_base_cpu == Fn(
    note_dev_was_up \o
    Best("ena_down") \o
    If(Held("dev_was_up"), Call("ena_up", "revert")),
    Label("revert", Call("ena_up", "reset")) \o
    Leave \o
    Label("reset", revive))
ena_update_cpu_stride == Fn(
    note_dev_was_up \o
    Best("ena_down") \o
    If(Held("dev_was_up"), Call("ena_up", "revert")),
    Label("revert", Call("ena_up", "reset")) \o
    Leave \o
    Label("reset", revive))
ena_update_io_rings == Simple(
    Best("ena_free_all_io_rings_resources") \o
    Best("ena_com_rss_destroy") \o
    Best("ena_init_io_rings"))
ena_update_io_queue_nb == Fn(
    note_dev_was_up \o
    Best("ena_down") \o
    Best("ena_update_io_rings") \o
    If(Feature("netmap"), Call("ena_reinit_netmap", Return)) \o
    If(Held("dev_was_up"), Call("ena_up", "revert")),
    Label("revert", Best("ena_update_io_rings")) \o
    If(Feature("netmap"), Call("ena_reinit_netmap", Return)) \o
    Call("ena_up", "reset") \o
    Leave \o
    Label("reset", revive))
ena_sysctl_buf_ring_size == Simple(locked(
    If(Held("DEVICE_RUNNING"), Best("ena_update_buf_ring_size"))))
ena_sysctl_rx_queue_size == Simple(locked(
    If(Held("DEVICE_RUNNING"), Best("ena_update_queue_size"))))
ena_sysctl_irq_base_cpu == Simple(locked(
    If(Held("DEVICE_RUNNING"), Best("ena_update_base_cpu"))))
ena_sysctl_irq_cpu_stride == Simple(locked(
    If(Held("DEVICE_RUNNING"), Best("ena_update_cpu_stride"))))
\* On an error this one returns without the unlock.
ena_sysctl_io_queues_nb == Simple(locked(
    If(Held("DEVICE_RUNNING"), Call("ena_update_io_queue_nb", Return))))
ena_rss_set_hash == Simple(Call("ena_com_fill_hash_function", Return))
ena_rss_get_hash_key == Simple(Best("ena_com_get_hash_key"))
ena_rss_indir_set == Simple(
    Call("ena_com_indirect_table_fill_entry", Return) \o
    Call("ena_com_indirect_table_set", Return))
ena_sysctl_rss_key == Fn(
    Have("ena_lock") \o
    If(Free("DEVICE_RUNNING"), Raise("unlock")) \o
    If(Free("RSS_ACTIVE"), Deny("unlock")) \o
    Call("ena_com_get_hash_function", "unlock") \o
    Call("ena_rss_get_hash_key", "unlock") \o
    If(Maybe, Call("ena_rss_set_hash", "unlock")) \o
    Put("ena_lock"),
    Label("unlock", Put("ena_lock")))
ena_sysctl_rss_indir_table == Fn(
    Have("ena_lock") \o
    If(Free("DEVICE_RUNNING"), Raise("unlock")) \o
    If(Free("RSS_ACTIVE"), Deny("unlock")) \o
    If(Free("rss_indir"), Deny("unlock")) \o
    If(Maybe, Raise("bad")) \o
    Call("ena_rss_indir_set", "unlock") \o
    Put("ena_lock"),
    Label("bad", If(Maybe, Best("ena_rss_indir_get"))) \o
    Label("unlock", Put("ena_lock")))
ena_netmap_reg == Fn(
    Have("ena_lock") \o
    Clear("TRIGGER_RESET") \o
    Best("ena_down") \o
    Call("ena_up", "restart") \o
    Put("ena_lock"),
    Label("restart", Best("ena_destroy_device")) \o
    Set("DEV_UP_BEFORE_RESET") \o
    Best("ena_restore_device") \o
    Put("ena_lock"))

\* Attach and detach.
ena_free_pci_resources == Simple(
    PutIfHeld("memory") \o PutIfHeld("registers") \o PutIfHeld("msix_bar"))
ena_alloc_counters == Simple(Have("counters"))
ena_free_stats == Simple(PutIfHeld("counters"))
ena_setup_ifnet == Simple(Have("ifp") \o Have("ifnet_attached"))
ena_sysctl_allocate_customer_metrics_buffer ==
    Simple(Get("customer_metrics_array", Return))
ena_netmap_attach == Simple(Get("netmap", Return))
ena_attach == Fn(
    Have("ena_dev") \o
    Get("registers", "err_dev_free") \o
    If(Feature("msix_bar"), Get("msix_bar", "err_pci_free")) \o
    Have("bus") \o
    Try("err_bus_free") \o
    Call("ena_map_llq_mem_bar", "err_bus_free") \o
    Call("ena_device_init", "err_bus_free") \o
    Try("err_com_free") \o
    Call("ena_setup_tx_dma_tag", "err_com_free") \o
    Call("ena_setup_rx_dma_tag", "err_tx_tag_free") \o
    Call("ena_enable_msix_and_set_admin_interrupts", "err_io_free") \o
    Set("num_io_queues") \o
    Best("ena_init_io_rings") \o
    Call("ena_com_allocate_customer_metrics_buffer", "err_msix_free") \o
    Call("ena_sysctl_allocate_customer_metrics_buffer", "err_metrics_buffer_destroy") \o
    Best("ena_alloc_counters") \o
    Best("ena_setup_ifnet") \o
    Have("reset_tq") \o
    Have("metrics_tq") \o
    If(Feature("netmap"), Call("ena_netmap_attach", "err_detach")) \o
    Set("DEVICE_RUNNING") \o
    Have("timer"),
    Label("err_detach", Put("ifnet_attached")) \o
    Put("customer_metrics_array") \o
    Label("err_metrics_buffer_destroy", Best("ena_com_delete_customer_metrics_buffer")) \o
    Label("err_msix_free", Best("ena_free_stats")) \o
    Best("ena_com_dev_reset") \o
    Best("ena_free_mgmnt_irq") \o
    Best("ena_disable_msix") \o
    Label("err_io_free", Best("ena_free_all_io_rings_resources")) \o
    Best("ena_free_rx_dma_tag") \o
    Label("err_tx_tag_free", Best("ena_free_tx_dma_tag")) \o
    Label("err_com_free", Best("ena_com_admin_destroy")) \o
    Best("ena_com_delete_host_info") \o
    Best("ena_com_mmio_reg_read_request_destroy") \o
    Label("err_bus_free", Put("bus")) \o
    Label("err_pci_free", Best("ena_free_pci_resources")) \o
    Label("err_dev_free", Put("ena_dev")))
ena_detach == Simple(
    Try(Return) \o
    Put("ifnet_attached") \o
    locked(PutIfHeld("timer")) \o
    Put("metrics_tq") \o
    Put("reset_tq") \o
    locked(Best("ena_down") \o Best("ena_destroy_device_gracefully")) \o
    If(Feature("netmap"), PutIfHeld("netmap")) \o
    Best("ena_free_stats") \o
    Best("ena_free_rx_dma_tag") \o
    Best("ena_free_tx_dma_tag") \o
    Best("ena_free_irqs") \o
    Best("ena_free_pci_resources") \o
    PutIfHeld("rss_indir") \o
    If(Held("RSS_ACTIVE"), Best("ena_com_rss_destroy")) \o
    Best("ena_com_delete_host_info") \o
    Put("customer_metrics_array") \o
    Best("ena_com_delete_customer_metrics_buffer") \o
    Put("ifp") \o
    Put("bus") \o
    Put("ena_dev"))

\* The code above by name.
FbsdOwnCode ==
    [ena_init_io_rings_advanced |-> ena_init_io_rings_advanced,
     ena_init_io_rings |-> ena_init_io_rings,
     ena_free_io_ring_resources |-> ena_free_io_ring_resources,
     ena_free_all_io_rings_resources |-> ena_free_all_io_rings_resources,
     ena_setup_tx_dma_tag |-> ena_setup_tx_dma_tag,
     ena_free_tx_dma_tag |-> ena_free_tx_dma_tag,
     ena_setup_rx_dma_tag |-> ena_setup_rx_dma_tag,
     ena_free_rx_dma_tag |-> ena_free_rx_dma_tag,
     ena_release_all_tx_dmamap |-> ena_release_all_tx_dmamap,
     ena_setup_tx_resources |-> ena_setup_tx_resources,
     ena_free_tx_resources |-> ena_free_tx_resources,
     ena_setup_all_tx_resources |-> ena_setup_all_tx_resources,
     ena_free_all_tx_resources |-> ena_free_all_tx_resources,
     ena_setup_rx_resources |-> ena_setup_rx_resources,
     ena_free_rx_resources |-> ena_free_rx_resources,
     ena_setup_all_rx_resources |-> ena_setup_all_rx_resources,
     ena_free_all_rx_resources |-> ena_free_all_rx_resources,
     ena_refill_all_rx_bufs |-> ena_refill_all_rx_bufs,
     ena_free_all_rx_bufs |-> ena_free_all_rx_bufs,
     ena_free_tx_bufs |-> ena_free_tx_bufs,
     ena_free_all_tx_bufs |-> ena_free_all_tx_bufs,
     ena_destroy_all_tx_queues |-> ena_destroy_all_tx_queues,
     ena_destroy_all_rx_queues |-> ena_destroy_all_rx_queues,
     ena_destroy_all_io_queues |-> ena_destroy_all_io_queues,
     ena_create_io_queues |-> ena_create_io_queues,
     create_queues_with_size_backoff |-> create_queues_with_size_backoff,
     ena_enable_msix |-> ena_enable_msix, ena_disable_msix |-> ena_disable_msix,
     ena_setup_mgmnt_intr |-> ena_setup_mgmnt_intr,
     ena_request_mgmnt_irq |-> ena_request_mgmnt_irq,
     ena_free_mgmnt_irq |-> ena_free_mgmnt_irq,
     ena_setup_io_intr |-> ena_setup_io_intr,
     ena_request_io_irq |-> ena_request_io_irq, ena_free_io_irq |-> ena_free_io_irq,
     ena_free_irqs |-> ena_free_irqs,
     ena_unmask_all_io_irqs |-> ena_unmask_all_io_irqs,
     ena_enable_msix_and_set_admin_interrupts |-> ena_enable_msix_and_set_admin_interrupts,
     ena_rss_indir_get |-> ena_rss_indir_get, ena_rss_indir_init |-> ena_rss_indir_init,
     ena_rss_init_default |-> ena_rss_init_default,
     ena_rss_configure |-> ena_rss_configure,
     ena_rss_init_default_deferred |-> ena_rss_init_default_deferred,
     ena_change_mtu |-> ena_change_mtu, ena_up_complete |-> ena_up_complete,
     ena_up |-> ena_up, ena_down |-> ena_down,
     ena_config_host_info |-> ena_config_host_info,
     ena_map_llq_mem_bar |-> ena_map_llq_mem_bar,
     ena_set_queues_placement_policy |-> ena_set_queues_placement_policy,
     ena_device_init |-> ena_device_init,
     ena_destroy_device |-> ena_destroy_device(FALSE),
     ena_destroy_device_gracefully |-> ena_destroy_device(TRUE),
     ena_restore_device |-> ena_restore_device,
     ena_trigger_reset |-> ena_trigger_reset,
     check_for_admin_com_state |-> check_for_admin_com_state,
     ena_reset_task |-> ena_reset_task, ena_init |-> ena_init,
     SIOCSIFMTU |-> SIOCSIFMTU, SIOCSIFFLAGS_up |-> SIOCSIFFLAGS_up,
     SIOCSIFFLAGS_down |-> SIOCSIFFLAGS_down, SIOCSIFCAP |-> SIOCSIFCAP,
     ena_reinit_netmap |-> ena_reinit_netmap,
     ena_update_buf_ring_size |-> ena_update_buf_ring_size,
     ena_update_queue_size |-> ena_update_queue_size,
     ena_update_base_cpu |-> ena_update_base_cpu,
     ena_update_cpu_stride |-> ena_update_cpu_stride,
     ena_update_io_rings |-> ena_update_io_rings,
     ena_update_io_queue_nb |-> ena_update_io_queue_nb,
     ena_sysctl_buf_ring_size |-> ena_sysctl_buf_ring_size,
     ena_sysctl_rx_queue_size |-> ena_sysctl_rx_queue_size,
     ena_sysctl_irq_base_cpu |-> ena_sysctl_irq_base_cpu,
     ena_sysctl_irq_cpu_stride |-> ena_sysctl_irq_cpu_stride,
     ena_sysctl_io_queues_nb |-> ena_sysctl_io_queues_nb,
     ena_rss_set_hash |-> ena_rss_set_hash, ena_rss_get_hash_key |-> ena_rss_get_hash_key,
     ena_rss_indir_set |-> ena_rss_indir_set, ena_sysctl_rss_key |-> ena_sysctl_rss_key,
     ena_sysctl_rss_indir_table |-> ena_sysctl_rss_indir_table,
     ena_netmap_reg |-> ena_netmap_reg,
     ena_free_pci_resources |-> ena_free_pci_resources,
     ena_alloc_counters |-> ena_alloc_counters, ena_free_stats |-> ena_free_stats,
     ena_setup_ifnet |-> ena_setup_ifnet,
     ena_sysctl_allocate_customer_metrics_buffer |-> ena_sysctl_allocate_customer_metrics_buffer,
     ena_netmap_attach |-> ena_netmap_attach, ena_attach |-> ena_attach,
     ena_detach |-> ena_detach]

FbsdCode == FbsdHalCode @@ FbsdOwnCode

\* What the driver owns in each phase, and what it may own besides.  Stuck: the
\* lock is lost, nothing goes on.
FbsdAttached == {"ena_dev", "registers", "bus", "tx_buf_tag", "rx_buf_tag",
    "customer_metrics", "customer_metrics_array", "counters", "ifp",
    "ifnet_attached", "reset_tq", "metrics_tq"}
FbsdRings == {"br", "tx_stats", "rx_stats", "ring_mtx"}
FbsdExtra == {"msix_bar", "memory", "host_info", "netmap", "rss_ind_tbl",
    "host_rss_ind_tbl", "hash_key", "hash_ctrl", "rss_indir", "push_buf"}
FbsdRunning == FbsdAttached \cup FbsdRings \cup {"timer", "mmio_read", "comp_ctx",
    "admin_sq", "admin_cq", "aenq", "q_lock", "msix_entries", "msix", "mgmnt_irq"}
FbsdQueues == {"tx_buffer_info", "free_tx_ids", "push_buf", "tx_maps", "enqueue_tq",
    "rx_buffer_info", "free_rx_ids", "rx_maps", "io_sq_mem", "io_cq_mem",
    "device_sq", "device_cq", "cleanup_tq", "io_irq"}
FbsdOwns ==
    [absent |-> {}, down |-> FbsdRunning, up |-> FbsdRunning \cup FbsdQueues \cup {"aenq_armed"},
     broken |-> FbsdAttached, stuck |-> {}]
FbsdMayOwn ==
    [absent |-> {"push_buf", "ifp", "reset_tq", "metrics_tq", "rss_ind_tbl",
        "host_rss_ind_tbl", "hash_key", "hash_ctrl"} \cup FbsdRings,
     down |-> FbsdExtra \cup {"aenq_armed"}, up |-> FbsdExtra, broken |-> FbsdExtra \cup FbsdRings,
     stuck |-> FbsdRunning \cup FbsdQueues \cup FbsdExtra \cup
        {"ena_lock", "aenq_armed"}]
FbsdEntries ==
    {Entry("ena_attach", {"absent"}, "as is", "absent"),
     Entry("ena_detach", {"down", "up", "broken"}, "absent", "as is"),
     Entry("ena_sysctl_io_queues_nb", {"down", "up", "broken"}, "as is", "stuck"),
     [Entry("ena_netmap_reg", {"down", "up", "broken"}, "as is", "as is")
        EXCEPT !.needs = {Held("netmap")}],
     Verb("ena_rss_init_default_deferred", "down", {Free("started")})} \cup
    {Entry(f, {"down", "up", "broken"}, "as is", "as is") : f \in
        {"ena_init", "SIOCSIFMTU", "SIOCSIFFLAGS_up", "SIOCSIFFLAGS_down", "SIOCSIFCAP",
         "ena_sysctl_buf_ring_size", "ena_sysctl_rx_queue_size",
         "ena_sysctl_irq_base_cpu", "ena_sysctl_irq_cpu_stride", "ena_sysctl_rss_key",
         "ena_sysctl_rss_indir_table"}} \cup
    {Entry(f, {"down", "up"}, "as is", "as is") : f \in
        {"ena_trigger_reset", "check_for_admin_com_state", "ena_reset_task"}}

\* What the code is known to get wrong (see the README).
FbsdUps == {"ena_init", "SIOCSIFMTU", "SIOCSIFFLAGS_up", "SIOCSIFCAP", "ena_reset_task",
    "ena_netmap_reg", "ena_sysctl_buf_ring_size", "ena_sysctl_rx_queue_size",
    "ena_sysctl_irq_base_cpu", "ena_sysctl_irq_cpu_stride", "ena_sysctl_io_queues_nb"}
FbsdExcused ==
    FbsdUps \X {"push_buf"}
    \cup {"ena_reset_task", "ena_netmap_reg"} \X {"host_info", "aenq_armed"}
    \cup {"ena_netmap_reg"} \X ({"device_sq", "device_cq"} \cup FbsdRings)
    \cup {"ena_attach", "absent"} \X {"ifp", "reset_tq", "metrics_tq"}
    \cup {"ena_sysctl_rss_key", "ena_sysctl_rss_indir_table"} \X
         {"rss_ind_tbl", "host_rss_ind_tbl", "hash_key"}

Fbsd ==
    [entries |-> FbsdEntries,
     phases |-> DOMAIN FbsdOwns, owns |-> FbsdOwns, mayOwn |-> FbsdMayOwn,
     features |-> {{"netmap", "msix_bar", "mem_bar"}},
     flags |-> H!HalFlags \cup {"DEV_UP", "DEVICE_RUNNING", "TRIGGER_RESET",
               "MSIX_ENABLED", "DEV_UP_BEFORE_RESET", "RSS_ACTIVE", "num_io_queues",
               "dev_up", "dev_was_up", "destroyed", "started", "rx_bufs"},
     locals |-> {"dev_up", "dev_was_up", "destroyed"},
     up |-> "DEV_UP", alive |-> "DEVICE_RUNNING",
     accepts |-> H!HalAccepts, running |-> "ADMIN_RUNNING",
     onDevice |-> H!HalOnDevice,
     base |-> H!HalBase @@
        [mgmnt_irq |-> {{"msix"}}, io_irq |-> {{"msix"}}, tx_maps |-> {{"tx_buf_tag"}},
         rx_maps |-> {{"rx_buf_tag"}}, enqueue_tq |-> {{"br"}, {"ring_mtx"}},
         mmio_read |-> {{"registers"}, {"bus"}}, netmap |-> {{"ifp"}},
         reset_tq |-> {{"ena_dev"}}, metrics_tq |-> {{"ena_dev"}}, timer |-> {{"ena_dev"}}],
     objects |->
        {{"tx_buffer_info", "free_tx_ids", "tx_maps", "enqueue_tq"},
         {"rx_buffer_info", "free_rx_ids", "rx_maps"},
         {"rss_ind_tbl", "host_rss_ind_tbl", "hash_ctrl"}, FbsdRings,
         {"comp_ctx", "admin_sq", "admin_cq", "aenq"}, {"msix", "msix_entries"}},
     givenUp |-> {"device_sq", "device_cq"},
     excused |-> FbsdExcused]
=============================================================================
